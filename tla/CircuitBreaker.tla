--------------------------- MODULE CircuitBreaker ---------------------------
(***************************************************************************)
(* circuitbreaker.py: one circuit per backend, fed by every finished       *)
(* request (streaming.py) and every health probe (prober.py), read by the  *)
(* router, retuned whenever a request or an admin page loads the config.   *)
(*                                                                         *)
(* Time is what is left of each backoff, counted down by Tick, instead of  *)
(* an absolute clock: `now >= open_until' is left = 0.  An entry that was  *)
(* never created and one that was closed or reset behave alike, so each    *)
(* backend always has a record.                                            *)
(***************************************************************************)
EXTENDS Integers

CONSTANTS Backends,        \* provider:model keys
          Settings,        \* the breaker settings a config file may hold
          MinBackoff,      \* floor of the base backoff (0.05 s in the code)
          MaxBackoff,      \* MAX_BACKOFF_S, 30 minutes in the code
          DefaultThreshold,
          DefaultBackoff,  \* what a setting of 0 stands for (3 and 60.0)
          ProbeEnabled,    \* server.probe_enabled
          MaxFailures      \* bound on consecutive failures, for finite checking

ASSUME BackoffAssumption ==
  /\ MinBackoff \in Nat \ {0} /\ MaxBackoff \in Nat
  /\ MinBackoff <= MaxBackoff
  /\ DefaultThreshold \in Nat \ {0} /\ DefaultBackoff \in Nat \ {0}

ASSUME SettingsAssumption ==
  /\ Settings \subseteq [enabled : BOOLEAN, threshold : Int, backoff : Nat]
  /\ Settings # {} /\ ProbeEnabled \in BOOLEAN /\ MaxFailures \in Nat

\* True of every natural number; stated because the provers have no theory of ^.
ASSUME PowersOfTwo == \A k \in 0..MaxFailures : 2^k \in Nat \ {0}

VARIABLES circuits,  \* [Backends -> Circuit]
          config,    \* _enabled, _threshold and _backoff_s
          streak,    \* history: what the current run of failures was made of
          waited     \* history: ticks the backend was shut out in that run

breakerVars == <<circuits, config, streak, waited>>

Circuit == [failures : Nat, trips : Nat, left : 0..MaxBackoff]
Closed  == [failures |-> 0, trips |-> 0, left |-> 0]

\* Classes of an answer.  "server_error" is 500, 502, 503 and 504, "other_5xx"
\* the rest of 5xx; "no_answer" is status 0: timeout, connection error, or a
\* stream that broke off.
Genuine   == {"server_error", "other_5xx", "no_answer"}
Excused   == {"client_error", "rate_limited"}
Statuses  == {"ok"} \union Genuine \union Excused

NoStreak == [genuine |-> 0, stray |-> 0]

-----------------------------------------------------------------------------
Larger(a, b)  == IF a >= b THEN a ELSE b
Smaller(a, b) == IF a <= b THEN a ELSE b

EffectiveUnclamped(s) ==  \* mutant: `threshold or 3' without max(1, ...)
  [enabled   |-> s.enabled,
   threshold |-> IF s.threshold = 0 THEN DefaultThreshold ELSE s.threshold,
   backoff   |-> Larger(MinBackoff, IF s.backoff = 0 THEN DefaultBackoff ELSE s.backoff)]

\* configure(): what a setting means once defaulted and clamped.
Effective(s) ==
  [enabled   |-> s.enabled,
   threshold |-> IF s.threshold = 0 THEN DefaultThreshold ELSE Larger(1, s.threshold),
   backoff   |-> Larger(MinBackoff, IF s.backoff = 0 THEN DefaultBackoff ELSE s.backoff)]

\* Length of the k-th consecutive exclusion.
Backoff(k) == Smaller(config.backoff * 2^(k - 1), MaxBackoff)

OpenUntilSuccess(conf, b) == conf.enabled /\ circuits[b].trips > 0  \* mutant: no expiry

\* is_open(): once the backoff has run out every request is let through again.
OpenUnder(conf, b) == conf.enabled /\ circuits[b].left > 0
IsOpen(b) == OpenUnder(config, b)

-----------------------------------------------------------------------------
Init ==
  /\ circuits = [b \in Backends |-> Closed]
  /\ config \in {Effective(s) : s \in Settings}
  /\ streak = [b \in Backends |-> NoStreak]
  /\ waited = [b \in Backends |-> 0]

AfterFailureWhileOpen(c) ==  \* mutant: no `now >= c.open_until'
  LET n == c.failures + 1
  IN  IF config.enabled /\ n >= config.threshold
      THEN [failures |-> n, trips |-> c.trips + 1, left |-> Backoff(c.trips + 1)]
      ELSE [c EXCEPT !.failures = n]

\* One more failure for a circuit: it trips when the breaker is on, the count
\* has reached the threshold, and no backoff is running.
AfterFailure(c) ==
  LET n == c.failures + 1
  IN  IF config.enabled /\ n >= config.threshold /\ c.left = 0
      THEN [failures |-> n, trips |-> c.trips + 1, left |-> Backoff(c.trips + 1)]
      ELSE [c EXCEPT !.failures = n]

AfterSuccessHalfReset(c) == [c EXCEPT !.trips = 0, !.left = 0]  \* mutant: count survives

AfterSuccess(c) == Closed

\* record_outcome(): the circuit hears of a success, or of a failure.
RecordOutcome(b, success) ==
  IF success
  THEN /\ circuits' = [circuits EXCEPT ![b] = AfterSuccess(@)]
       /\ waited' = [waited EXCEPT ![b] = 0]
       /\ UNCHANGED config
  ELSE /\ circuits[b].failures < MaxFailures
       /\ circuits' = [circuits EXCEPT ![b] = AfterFailure(@)]
       /\ UNCHANGED <<config, waited>>

\* What the run of failures becomes.  Of requests it is told the genuine ones; of
\* probes every one, the stray among them failures for a client error or a 429.
Heard(run, s, probe) ==
  CASE s = "ok"      -> NoStreak
    [] s \in Genuine -> [run EXCEPT !.genuine = @ + 1]
    [] OTHER         -> IF probe THEN [run EXCEPT !.stray = @ + 1] ELSE run

CountedAllErrors == Genuine \union Excused  \* mutant: no status filter

\* Statuses _record_circuit_failure() lets through: 0 and >= 500.
Counted == Genuine

\* A request to b finished with status s (streaming.py).
RequestOutcome(b, s) ==
  /\ IF s \in Counted \union {"ok"}
     THEN RecordOutcome(b, s = "ok")
     ELSE UNCHANGED <<circuits, config, waited>>
  /\ streak' = [streak EXCEPT ![b] = Heard(@, s, FALSE)]

\* A probe of b finished with status s (prober.py): every failed probe counts,
\* whatever its status.
ProbeOutcome(b, s) ==
  /\ ProbeEnabled
  /\ RecordOutcome(b, s = "ok")
  /\ streak' = [streak EXCEPT ![b] = Heard(@, s, TRUE)]

\* reset(): POST /admin/circuit/reset, for one backend or for all of them.
Reset(S) ==
  /\ circuits' = [b \in Backends |-> IF b \in S THEN Closed ELSE circuits[b]]
  /\ streak' = [b \in Backends |-> IF b \in S THEN NoStreak ELSE streak[b]]
  /\ waited' = [b \in Backends |-> IF b \in S THEN 0 ELSE waited[b]]
  /\ UNCHANGED config

\* configure_from_config(): the settings of the config just loaded take
\* effect; failure counts and running backoffs stay as they are.
Configure(s) ==
  /\ config' = Effective(s)
  /\ UNCHANGED <<circuits, streak, waited>>

\* The clock moves.  A running backoff goes on while the breaker is disabled.
Elapse ==
  /\ circuits' = [b \in Backends |->
                    [circuits[b] EXCEPT !.left = IF @ > 0 THEN @ - 1 ELSE 0]]
  /\ waited' = [b \in Backends |->
                  IF circuits[b].left > 0 THEN waited[b] + 1 ELSE waited[b]]
  /\ UNCHANGED <<config, streak>>

Tick == (\E b \in Backends : circuits[b].left > 0) /\ Elapse

Next ==
  \/ \E b \in Backends, s \in Statuses : RequestOutcome(b, s) \/ ProbeOutcome(b, s)
  \/ \E b \in Backends : Reset({b})
  \/ Reset(Backends)
  \/ \E s \in Settings : Configure(s)
  \/ Tick

\* Nobody has to send requests or probes; only the clock is sure to move.
Spec == Init /\ [][Next]_breakerVars /\ WF_breakerVars(Tick)

-----------------------------------------------------------------------------
TypeOK ==
  /\ circuits \in [Backends -> Circuit]
  /\ config \in [enabled : BOOLEAN, threshold : Nat \ {0}, backoff : Nat \ {0}]
  /\ config.backoff >= MinBackoff
  /\ streak \in [Backends -> [genuine : Nat, stray : Nat]]
  /\ waited \in [Backends -> Nat]

\* However the failures of a run interleave with the backoff, with resets and
\* with reloads of the settings, k trips in a row cost the backend at least k
\* base floors and at most k caps of exclusion: failures that arrive late from
\* requests admitted before the trip neither lengthen a running backoff nor
\* move the backend up the exponential ladder, and no trip comes for free.
EscalationIsPaced ==
  \A b \in Backends :
    LET owed == waited[b] + circuits[b].left
    IN  /\ circuits[b].trips * MinBackoff <= owed
        /\ owed <= circuits[b].trips * MaxBackoff

\* Only genuine failures of the backend count, never a client error or a 429
\* (the module's docstring): the count the threshold is compared with is the number
\* of genuine failures, of requests and of probes, since the last success or reset.
OnlyGenuineCount ==
  \A b \in Backends : circuits[b].failures = streak[b].genuine

\* So it is for as long as no probe has failed for a client error or a 429: requests
\* refused for either never move the count, in whatever order they come with
\* failures, resets, reloads and backoffs, and no genuine failure is missed.
CountIsExact ==
  \A b \in Backends : streak[b].stray = 0 => circuits[b].failures = streak[b].genuine

\* A backend is tripped only by a run of at least `threshold' failures that the
\* breaker was told of (genuine ones, and every failed probe) with no success
\* between them, under the threshold in force at that moment, and only while the
\* breaker is enabled.
TripIsEarned ==
  [][\A b \in Backends : circuits'[b].trips > circuits[b].trips =>
       /\ config.enabled
       /\ streak'[b].genuine + streak'[b].stray >= config.threshold]_breakerVars

\* An exclusion ends by itself: with no success, no reset and any number of
\* further failures, a backend that is_open() excludes is offered again once
\* the clock has moved far enough.
OpenCircuitExpires == \A b \in Backends : IsOpen(b) ~> ~IsOpen(b)
=============================================================================
