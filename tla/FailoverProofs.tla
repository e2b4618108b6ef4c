---------------------------- MODULE FailoverProofs ----------------------------
(***************************************************************************)
(* First the breaker, for every set of backends and every settings a       *)
(* config may hold: the types, the pacing of the exponential backoff, the  *)
(* exactness of the failure count, and what a trip takes.                  *)
(*                                                                         *)
(* Then the fallback loops, for any finite sets of requests and backends,  *)
(* any mix of whole answers, chat streams and raw streams, and any         *)
(* settings: the in-flight counters and usage rows are exact, a 502 means  *)
(* that every backend was tried, one backend serves each client, and the   *)
(* breaker is used as its own specification allows.                        *)
(***************************************************************************)
EXTENDS Failover, FiniteSetTheorems, SequenceTheorems, TLAPS

-----------------------------------------------------------------------------
(* The breaker.                                                              *)

\* What makes the exponent of Backoff a number PowersOfTwo speaks of: a trip
\* needs a failure of its own, and failures are bounded.
TripsWithinFailures ==
  \A b \in Backends : /\ circuits[b].trips <= circuits[b].failures
                      /\ circuits[b].failures <= MaxFailures

\* The count is the length of the run of failures the breaker was told of.
CountIsTheRun ==
  \A b \in Backends : circuits[b].failures = streak[b].genuine + streak[b].stray

IInv == TypeOK /\ TripsWithinFailures /\ EscalationIsPaced /\ CountIsTheRun

\* configure() always yields a threshold of at least one and a base backoff of
\* at least the floor, whatever the settings file holds.
LEMMA EffectiveIsSane ==
  ASSUME NEW s \in Settings
  PROVE  /\ Effective(s) \in [enabled : BOOLEAN, threshold : Nat \ {0}, backoff : Nat \ {0}]
         /\ Effective(s).backoff >= MinBackoff
  BY BackoffAssumption, SettingsAssumption DEF Effective, Larger

\* Whatever the doubling has reached, one exclusion lasts at least the floor
\* and at most the cap of 30 minutes.
LEMMA BackoffIsBounded ==
  ASSUME TypeOK, NEW k \in Nat, k < MaxFailures
  PROVE  Backoff(k + 1) \in MinBackoff..MaxBackoff
<1>1. 2^k \in Nat \ {0}
  BY PowersOfTwo, SettingsAssumption
<1>2. \A x, p \in Nat \ {0} : x * p \in Nat /\ x * p >= x
  OBVIOUS
<1>3. config.backoff \in Nat \ {0} /\ config.backoff >= MinBackoff
  BY DEF TypeOK
<1>4. config.backoff * 2^k \in Nat /\ config.backoff * 2^k >= MinBackoff
  BY <1>1, <1>2, <1>3, BackoffAssumption
<1>5. (k + 1) - 1 = k
  OBVIOUS
<1>6. QED
  BY <1>4, <1>5, BackoffAssumption DEF Backoff, Smaller

-----------------------------------------------------------------------------
\* One failure keeps the record well formed and pays for a trip it causes.
LEMMA FailureIsPaced ==
  ASSUME TypeOK, NEW c \in Circuit, NEW w \in Nat,
         c.trips <= c.failures, c.failures < MaxFailures,
         c.trips * MinBackoff <= w + c.left, w + c.left <= c.trips * MaxBackoff
  PROVE  LET d == AfterFailure(c)
         IN  /\ d \in Circuit
             /\ d.failures = c.failures + 1
             /\ d.trips <= d.failures
             /\ d.trips * MinBackoff <= w + d.left
             /\ w + d.left <= d.trips * MaxBackoff
<1>1. c.trips \in Nat /\ c.failures \in Nat /\ c.left \in 0..MaxBackoff
  BY DEF Circuit
<1>2. c.trips < MaxFailures
  BY <1>1, SettingsAssumption
<1>3. Backoff(c.trips + 1) \in MinBackoff..MaxBackoff
  BY <1>1, <1>2, BackoffIsBounded
<1> DEFINE fires == config.enabled /\ c.failures + 1 >= config.threshold /\ c.left = 0
<1>4. CASE fires
  <2>1. AfterFailure(c) = [failures |-> c.failures + 1, trips |-> c.trips + 1,
                           left |-> Backoff(c.trips + 1)]
    BY <1>4 DEF AfterFailure
  <2>2. \A n, x \in Nat : (n + 1) * x = n * x + x
    OBVIOUS
  <2>3. /\ (c.trips + 1) * MinBackoff = c.trips * MinBackoff + MinBackoff
        /\ (c.trips + 1) * MaxBackoff = c.trips * MaxBackoff + MaxBackoff
    BY <2>2, <1>1, BackoffAssumption
  <2>4. c.trips * MinBackoff \in Nat /\ c.trips * MaxBackoff \in Nat
    BY <1>1, BackoffAssumption
  <2>5. QED
    BY <2>1, <2>3, <2>4, <1>1, <1>3, <1>4, BackoffAssumption DEF Circuit
<1>5. CASE ~fires
  <2>1. AfterFailure(c) = [c EXCEPT !.failures = c.failures + 1]
    BY <1>5 DEF AfterFailure
  <2>2. QED
    BY <2>1, <1>1 DEF Circuit
<1>6. QED
  BY <1>4, <1>5

\* Closed circuits and a sane setting satisfy the invariant.
LEMMA InitIInv == Init => IInv
<1> SUFFICES ASSUME Init PROVE IInv
  OBVIOUS
<1>1. TypeOK
  BY EffectiveIsSane, BackoffAssumption DEF Init, TypeOK, Closed, NoStreak, Circuit
<1>2. QED
  BY <1>1, BackoffAssumption, SettingsAssumption
  DEF Init, IInv, TripsWithinFailures, EscalationIsPaced, CountIsTheRun, Closed, NoStreak

\* A closed record satisfies every part of the invariant: used for successes
\* and resets.
LEMMA ClosedIsSane ==
  /\ Closed \in Circuit
  /\ Closed.trips <= Closed.failures /\ Closed.failures <= MaxFailures
  /\ NoStreak \in [genuine : Nat, stray : Nat]
  /\ Closed.failures = NoStreak.genuine + NoStreak.stray
  /\ Closed.trips * MinBackoff <= 0 + Closed.left
  /\ 0 + Closed.left <= Closed.trips * MaxBackoff
  BY BackoffAssumption, SettingsAssumption DEF Closed, NoStreak, Circuit

\* The invariant, one backend at a time.
Sane(c, run, w) ==
  /\ c \in Circuit /\ run \in [genuine : Nat, stray : Nat] /\ w \in Nat
  /\ c.trips <= c.failures /\ c.failures <= MaxFailures
  /\ c.trips * MinBackoff <= w + c.left /\ w + c.left <= c.trips * MaxBackoff
  /\ c.failures = run.genuine + run.stray

SaneState ==
  /\ config \in [enabled : BOOLEAN, threshold : Nat \ {0}, backoff : Nat \ {0}]
  /\ config.backoff >= MinBackoff
  /\ DOMAIN circuits = Backends /\ circuits = [b \in Backends |-> circuits[b]]
  /\ streak = [b \in Backends |-> streak[b]] /\ waited = [b \in Backends |-> waited[b]]
  /\ \A b \in Backends : Sane(circuits[b], streak[b], waited[b])

\* The invariant is its state part and the sanity of every backend.
LEMMA SaneStateIsIInv == SaneState <=> IInv
  BY DEF SaneState, Sane, IInv, TypeOK, TripsWithinFailures, EscalationIsPaced, CountIsTheRun

\* The same of the state a step leads to.
LEMMA SaneNextIsIInvNext == SaneState' <=> IInv'
  BY SaneStateIsIInv, PTL

\* A success, seen from the backend that succeeded.
LEMMA SuccessIsSane == \A c : Sane(AfterSuccess(c), NoStreak, 0)
  BY ClosedIsSane DEF Sane, AfterSuccess, NoStreak, Closed

\* A failure, seen from the backend that failed: the run it belongs to grows
\* with the count.
LEMMA FailureIsSane ==
  ASSUME TypeOK, NEW c, NEW run, NEW w, Sane(c, run, w), c.failures < MaxFailures,
         NEW s \in Statuses, NEW probe \in BOOLEAN,
         s \in Genuine \/ (probe /\ s \in Excused)
  PROVE  Sane(AfterFailure(c), Heard(run, s, probe), w)
<1>1. /\ AfterFailure(c) \in Circuit
      /\ AfterFailure(c).failures = c.failures + 1
      /\ AfterFailure(c).trips <= AfterFailure(c).failures
      /\ AfterFailure(c).trips * MinBackoff <= w + AfterFailure(c).left
      /\ w + AfterFailure(c).left <= AfterFailure(c).trips * MaxBackoff
  BY FailureIsPaced DEF Sane
<1>2. /\ Heard(run, s, probe) \in [genuine : Nat, stray : Nat]
      /\ Heard(run, s, probe).genuine + Heard(run, s, probe).stray
           = run.genuine + run.stray + 1
  BY DEF Sane, Heard, Statuses, Genuine, Excused
<1>3. c.failures \in Nat
  BY DEF Sane, Circuit
<1>4. QED
  BY <1>1, <1>2, <1>3, SettingsAssumption DEF Sane

\* A tick moves exclusion from what is left to what was served.
LEMMA TickIsSane ==
  ASSUME NEW c, NEW run, NEW w, Sane(c, run, w)
  PROVE  Sane([c EXCEPT !.left = IF c.left > 0 THEN c.left - 1 ELSE 0], run,
              IF c.left > 0 THEN w + 1 ELSE w)
<1> DEFINE d == [c EXCEPT !.left = IF c.left > 0 THEN c.left - 1 ELSE 0]
           v == IF c.left > 0 THEN w + 1 ELSE w
<1>1. c.failures \in Nat /\ c.trips \in Nat /\ c.left \in 0..MaxBackoff /\ w \in Nat
  BY DEF Sane, Circuit
<1>2. /\ d \in Circuit /\ v \in Nat /\ d.trips = c.trips /\ d.failures = c.failures
      /\ v + d.left = w + c.left
  BY <1>1, BackoffAssumption DEF Sane, Circuit
<1> HIDE DEF d, v
<1>3. Sane(d, run, v)
  BY <1>2 DEF Sane
<1>4. QED
  BY <1>3 DEF d, v

-----------------------------------------------------------------------------
\* One backend gets a new sane record, the others keep theirs.
LEMMA OneMoves ==
  ASSUME SaneState, NEW b \in Backends, NEW c, NEW run, NEW w, Sane(c, run, w),
         circuits' = [circuits EXCEPT ![b] = c],
         streak' = [streak EXCEPT ![b] = run],
         waited' = [waited EXCEPT ![b] = w],
         config' = config
  PROVE  SaneState'
<1>1. /\ circuits' = [a \in Backends |-> IF a = b THEN c ELSE circuits[a]]
      /\ streak' = [a \in Backends |-> IF a = b THEN run ELSE streak[a]]
      /\ waited' = [a \in Backends |-> IF a = b THEN w ELSE waited[a]]
  BY DEF SaneState
<1>2. ASSUME NEW a \in Backends
      PROVE  Sane(circuits'[a], streak'[a], waited'[a])
  <2>1. CASE a = b
    BY <1>1, <2>1
  <2>2. CASE a # b
    <3>1. Sane(circuits[a], streak[a], waited[a])
      BY DEF SaneState
    <3>2. circuits'[a] = circuits[a] /\ streak'[a] = streak[a] /\ waited'[a] = waited[a]
      BY <1>1, <2>2
    <3>3. QED
      BY <3>1, <3>2
  <2>3. QED
    BY <2>1, <2>2
<1>3. /\ config' \in [enabled : BOOLEAN, threshold : Nat \ {0}, backoff : Nat \ {0}]
      /\ config'.backoff >= MinBackoff
  BY DEF SaneState
<1>4. /\ DOMAIN circuits' = Backends /\ circuits' = [a \in Backends |-> circuits'[a]]
      /\ streak' = [a \in Backends |-> streak'[a]]
      /\ waited' = [a \in Backends |-> waited'[a]]
  BY <1>1
<1>5. QED
  BY <1>2, <1>3, <1>4 DEF SaneState

\* One outcome, heard from a request or from a probe, preserves the invariant.
LEMMA OutcomeStep ==
  ASSUME IInv, NEW b \in Backends, NEW s \in Statuses, NEW probe \in BOOLEAN,
         s = "ok" \/ s \in Genuine \/ probe,
         RecordOutcome(b, s = "ok"),
         streak' = [streak EXCEPT ![b] = Heard(@, s, probe)]
  PROVE  IInv'
<1>1. SaneState /\ TypeOK
  BY SaneStateIsIInv DEF IInv
<1>2. CASE s = "ok"
  <2>1. /\ circuits' = [circuits EXCEPT ![b] = AfterSuccess(circuits[b])]
        /\ streak' = [streak EXCEPT ![b] = NoStreak]
        /\ waited' = [waited EXCEPT ![b] = 0]
        /\ config' = config
    <3>1. Heard(streak[b], s, probe) = NoStreak
      BY <1>2 DEF Heard, Genuine
    <3>2. QED
      BY <1>2, <3>1 DEF RecordOutcome
  <2>2. Sane(AfterSuccess(circuits[b]), NoStreak, 0)
    BY SuccessIsSane
  <2>3. SaneState'
    BY <1>1, <2>1, <2>2, OneMoves
  <2>4. QED
    BY <2>3, SaneNextIsIInvNext
<1>3. CASE s # "ok"
  <2>1. /\ circuits[b].failures < MaxFailures
        /\ circuits' = [circuits EXCEPT ![b] = AfterFailure(circuits[b])]
        /\ streak' = [streak EXCEPT ![b] = Heard(streak[b], s, probe)]
        /\ waited' = [waited EXCEPT ![b] = waited[b]] /\ config' = config
    BY <1>1, <1>3 DEF RecordOutcome, SaneState
  <2>2. s \in Genuine \/ (probe /\ s \in Excused)
    BY <1>3 DEF Statuses
  <2>3. Sane(AfterFailure(circuits[b]), Heard(streak[b], s, probe), waited[b])
    BY <1>1, <2>1, <2>2, FailureIsSane DEF SaneState
  <2>4. SaneState'
    BY <1>1, <2>1, <2>3, OneMoves
  <2>5. QED
    BY <2>4, SaneNextIsIInvNext
<1>4. QED
  BY <1>2, <1>3

\* Outcomes, resets, reloads and ticks keep the invariant.
LEMMA NextIInv == IInv /\ [Next]_breakerVars => IInv'
<1> SUFFICES ASSUME IInv, [Next]_breakerVars PROVE IInv'
  OBVIOUS
<1>1. SaneState /\ TypeOK
  BY SaneStateIsIInv DEF IInv
<1>2. ASSUME NEW b \in Backends, NEW s \in Statuses, RequestOutcome(b, s)
      PROVE  IInv'
  <2>1. CASE s \in Counted \union {"ok"}
    BY <1>2, <2>1, OutcomeStep DEF RequestOutcome, Counted
  <2>2. CASE s \notin Counted \union {"ok"}
    <3>1. Heard(streak[b], s, FALSE) = streak[b]
      BY <2>2 DEF Heard, Counted
    <3>2. streak' = streak
      BY <1>1, <1>2, <3>1 DEF RequestOutcome, SaneState
    <3>3. circuits' = circuits /\ config' = config /\ waited' = waited
      BY <1>2, <2>2 DEF RequestOutcome
    <3>4. SaneState'
      BY <1>1, <3>2, <3>3 DEF SaneState
    <3>5. QED
      BY <3>4, SaneNextIsIInvNext
  <2>3. QED
    BY <2>1, <2>2
<1>3. ASSUME NEW b \in Backends, NEW s \in Statuses, ProbeOutcome(b, s)
      PROVE  IInv'
  BY <1>3, OutcomeStep DEF ProbeOutcome
<1>4. ASSUME NEW S \in SUBSET Backends, Reset(S)
      PROVE  IInv'
  <2>1. Sane(Closed, NoStreak, 0)
    BY SuccessIsSane DEF AfterSuccess
  <2>2. SaneState'
    BY <1>1, <1>4, <2>1 DEF SaneState, Reset
  <2>3. QED
    BY <2>2, SaneNextIsIInvNext
<1>5. ASSUME NEW s \in Settings, Configure(s)
      PROVE  IInv'
  <2>1. SaneState'
    BY <1>1, <1>5, EffectiveIsSane DEF SaneState, Configure
  <2>2. QED
    BY <2>1, SaneNextIsIInvNext
<1>6. ASSUME Tick
      PROVE  IInv'
  <2>1. \A b \in Backends : Sane(circuits'[b], streak'[b], waited'[b])
    BY <1>1, <1>6, TickIsSane DEF SaneState, Tick, Elapse
  <2>2. SaneState'
    BY <1>1, <1>6, <2>1 DEF SaneState, Tick, Elapse
  <2>3. QED
    BY <2>2, SaneNextIsIInvNext
<1>7. CASE UNCHANGED breakerVars
  <2>1. SaneState'
    BY <1>1, <1>7 DEF SaneState, breakerVars
  <2>2. QED
    BY <2>1, SaneNextIsIInvNext
<1>8. QED
  BY <1>2, <1>3, <1>4, <1>5, <1>6, <1>7 DEF Next

-----------------------------------------------------------------------------
\* The inductive invariant holds in every reachable state of the breaker: types,
\* exact counts, and exclusion that pays for the trips.
THEOREM InvariantHolds == Spec => []IInv
  BY InitIInv, NextIInv, PTL DEF Spec

\* The counts, timers and settings keep their types, clamped settings included.
THEOREM TypeCorrect == Spec => []TypeOK
<1>1. IInv => TypeOK
  BY DEF IInv
<1>2. QED
  BY InvariantHolds, <1>1, PTL

\* Consecutive trips are paid for with exclusion time, never less than the
\* floor and never more than the cap for each.
THEOREM EscalationPaced == Spec => []EscalationIsPaced
<1>1. IInv => EscalationIsPaced
  BY DEF IInv
<1>2. QED
  BY InvariantHolds, <1>1, PTL

\* The count compared with the threshold is the number of genuine failures since the
\* last success or reset, as long as no probe failed for a client error or a 429.
THEOREM CountExact == Spec => []CountIsExact
<1>1. IInv => CountIsExact
  <2> SUFFICES ASSUME IInv, NEW b \in Backends, streak[b].stray = 0
               PROVE  circuits[b].failures = streak[b].genuine
    BY DEF CountIsExact
  <2>1. circuits[b].failures = streak[b].genuine + streak[b].stray
    BY DEF IInv, CountIsTheRun
  <2>2. streak[b].genuine \in Nat
    BY DEF IInv, TypeOK
  <2> QED
    BY <2>1, <2>2
<1>2. QED
  BY InvariantHolds, <1>1, PTL

\* Only a failure trips, and only by reaching the threshold with the breaker
\* enabled; as the count is the run, by a run that long.
LEMMA TripStep ==
  ASSUME IInv, IInv', [Next]_breakerVars, NEW b \in Backends,
         circuits'[b].trips > circuits[b].trips
  PROVE  /\ config.enabled
         /\ streak'[b].genuine + streak'[b].stray >= config.threshold
<1>1. circuits \in [Backends -> Circuit]
  BY DEF IInv, TypeOK
<1>2. circuits'[b].failures = streak'[b].genuine + streak'[b].stray
  BY DEF IInv, CountIsTheRun
<1>3. circuits[b].trips \in Nat /\ circuits[b].left \in 0..MaxBackoff
  BY <1>1 DEF Circuit
<1>4. ASSUME NEW a \in Backends, NEW success, RecordOutcome(a, success)
      PROVE  config.enabled /\ circuits'[b].failures >= config.threshold
  <2>1. a = b /\ ~success
    BY <1>1, <1>3, <1>4 DEF RecordOutcome, AfterSuccess, Closed
  <2>2. circuits'[b] = AfterFailure(circuits[b])
    BY <1>1, <1>4, <2>1 DEF RecordOutcome
  <2>3. config.enabled /\ circuits[b].failures + 1 >= config.threshold
    BY <1>1, <1>3, <2>2 DEF AfterFailure, Circuit
  <2>4. circuits'[b].failures = circuits[b].failures + 1
    BY <1>1, <2>2 DEF AfterFailure, Circuit
  <2>5. QED
    BY <2>3, <2>4
<1>5. CASE \E a \in Backends, s \in Statuses : RequestOutcome(a, s) \/ ProbeOutcome(a, s)
  <2>1. PICK a \in Backends, s \in Statuses : RequestOutcome(a, s) \/ ProbeOutcome(a, s)
    BY <1>5
  <2>2. circuits' # circuits
    BY <1>3
  <2>3. RecordOutcome(a, s = "ok")
    BY <2>1, <2>2 DEF RequestOutcome, ProbeOutcome
  <2>4. config.enabled /\ circuits'[b].failures >= config.threshold
    BY <2>3, <1>4
  <2>5. QED
    BY <2>4, <1>2
<1>6. ~(\E S \in SUBSET Backends : Reset(S))
  BY <1>1, <1>3 DEF Reset, Closed
<1>7. ~(\E s \in Settings : Configure(s)) /\ ~(UNCHANGED breakerVars)
  BY <1>3 DEF Configure, breakerVars
<1>8. ~Tick
  BY <1>1, <1>3 DEF Tick, Elapse, Circuit
<1>9. QED
  BY <1>5, <1>6, <1>7, <1>8 DEF Next

\* No backend is tripped by fewer consecutive failures than the threshold in
\* force, nor while the breaker is switched off.
THEOREM TripsAreEarned == Spec => TripIsEarned
<1>1. IInv /\ IInv' /\ [Next]_breakerVars =>
        [\A b \in Backends : circuits'[b].trips > circuits[b].trips =>
           /\ config.enabled
           /\ streak'[b].genuine + streak'[b].stray >= config.threshold]_breakerVars
  BY TripStep
<1>2. QED
  BY <1>1, InvariantHolds, PTL DEF Spec, TripIsEarned

-----------------------------------------------------------------------------
(* The fallback loops.                                                      *)

Replies == [from : Backends \union {NoBackend}, bytes : SUBSET Backends,
            status : {"open", "complete", "interrupted", "refused", "exhausted", "gone"}]

Typed ==
  /\ form \in [Requests -> {"whole", "chat", "raw"}]
  /\ phase \in [Requests -> Phases]
  /\ plan \in [Requests -> Seq(Backends)] /\ tried \in [Requests -> Seq(Backends)]
  /\ usage \in [Requests -> Seq(Backends)]
  /\ reply \in [Requests -> Replies]
  /\ inFlight \in [Backends -> Nat] /\ cooldown \in [Backends -> Nat]

\* What the client has got, by where the handler is.
Matches(r) ==
  /\ phase[r] \in {"new", "calling"} => reply[r] = NoReply
  /\ phase[r] = "streaming" =>
       Streaming(r) /\ reply[r] = [from |-> Current(r), bytes |-> {Current(r)}, status |-> "open"]
  /\ phase[r] = "closing" =>
       Streaming(r) /\ reply[r] = [from |-> Current(r), bytes |-> {}, status |-> "open"]

\* How far down its list a handler is.
InLine(r) ==
  /\ Len(tried[r]) <= Len(plan[r])
  /\ phase[r] \in Running => Len(tried[r]) < Len(plan[r])
  /\ phase[r] = "new" => tried[r] = <<>>
  /\ tried[r] = SubSeq(plan[r], 1, Len(tried[r]))
  /\ reply[r].status = "exhausted" => tried[r] = plan[r]

Logged(r) ==
  \/ reply[r].status = "complete"
  \/ reply[r].status = "interrupted" /\ Chat(r)
  \/ Raw(r) /\ reply[r].from # NoBackend /\ reply[r].bytes = {}

Rows(r) == usage[r] = IF Logged(r) THEN Append(tried[r], reply[r].from) ELSE tried[r]

\* The inductive invariant: a counter is exact only because a handler is never
\* past the end of its list, and a row names the right backend only because what
\* the client has got agrees with where the handler is.
FInv ==
  /\ Typed
  /\ \A r \in Requests : Matches(r) /\ InLine(r) /\ Rows(r)
  /\ InFlightIsExact

-----------------------------------------------------------------------------
(* Facts about lists. *)

\* Any way of putting a finite set in a row is a sequence of its members.
LEMMA RowOfSet ==
  ASSUME NEW S, IsFiniteSet(S), NEW p \in SetToSeqs(S)
  PROVE  p \in Seq(S) /\ Len(p) = Cardinality(S)
<1>1. Cardinality(S) \in Nat
  BY FS_CardinalityType
<1>2. p \in [1 .. Cardinality(S) -> S]
  BY DEF SetToSeqs
<1> QED
  BY <1>1, <1>2

\* A fallback list names eligible backends, and at least one.
LEMMA OrderIsList ==
  ASSUME NEW conf, NEW E \in SUBSET Backends, E # {}, NEW o \in Orders(conf, E)
  PROVE  o \in Seq(Backends) /\ Len(o) > 0 /\ o # <<>>
<1> DEFINE good == {b \in E : Routable(conf, b)}
<1>1. IsFiniteSet(good) /\ IsFiniteSet(E \ good)
  BY FS_Subset, RequestsAssumption
<1>2. PICK p \in SetToSeqs(good), q \in SetToSeqs(E \ good) : o = p \o q
  <2>1. o \in UNION {{p \o q : q \in SetToSeqs(E \ good)} : p \in SetToSeqs(good)}
    BY DEF Orders, Deferring
  <2> HIDE DEF good
  <2> QED
    BY <2>1
<1>3. p \in Seq(Backends) /\ q \in Seq(Backends)
  <2>1. p \in Seq(good) /\ q \in Seq(E \ good)
    BY <1>1, RowOfSet
  <2> QED
    BY <2>1
<1>4. Len(p) = Cardinality(good) /\ Len(q) = Cardinality(E \ good)
  BY <1>1, RowOfSet
<1>5. Cardinality(good) \in Nat /\ Cardinality(E \ good) \in Nat
  BY <1>1, FS_CardinalityType
<1>6. good # {} \/ E \ good # {}
  OBVIOUS
<1>7. Cardinality(good) + Cardinality(E \ good) > 0
  BY <1>1, <1>5, <1>6, FS_EmptySet
<1>8. o \in Seq(Backends) /\ Len(o) > 0
  BY <1>2, <1>3, <1>4, <1>7, ConcatProperties
<1> QED
  BY <1>8

\* The backend in front of a handler is the next of its list.
LEMMA NextOfList ==
  ASSUME NEW p \in Seq(Backends), NEW t \in Seq(Backends), Len(t) < Len(p),
         t = SubSeq(p, 1, Len(t))
  PROVE  /\ p[Len(t) + 1] \in Backends
         /\ Append(t, p[Len(t) + 1]) \in Seq(Backends)
         /\ Len(Append(t, p[Len(t) + 1])) = Len(t) + 1
         /\ Append(t, p[Len(t) + 1]) = SubSeq(p, 1, Len(t) + 1)
         /\ Len(t) + 1 = Len(p) => Append(t, p[Len(t) + 1]) = p
<1>1. Len(t) \in Nat /\ Len(p) \in Nat /\ p[Len(t) + 1] \in Backends
  OBVIOUS
<1> DEFINE a == Append(t, p[Len(t) + 1])
           s == SubSeq(p, 1, Len(t) + 1)
<1>2. /\ a \in Seq(Backends) /\ Len(a) = Len(t) + 1
      /\ \A i \in 1 .. Len(t) : a[i] = t[i]
      /\ a[Len(t) + 1] = p[Len(t) + 1]
  BY <1>1, AppendProperties
<1>3. /\ s \in Seq(Backends) /\ Len(s) = Len(t) + 1
      /\ \A i \in 1 .. Len(t) + 1 : s[i] = p[i]
  BY <1>1
<1>4. \A i \in 1 .. Len(t) : t[i] = p[i]
  BY <1>1
<1>5. \A i \in 1 .. Len(a) : a[i] = s[i]
  BY <1>1, <1>2, <1>3, <1>4
<1>6. a = s
  BY <1>2, <1>3, <1>5, SeqEqual
<1>7. Len(t) + 1 = Len(p) => s = p
  BY <1>1
<1> QED
  BY <1>1, <1>2, <1>6, <1>7

-----------------------------------------------------------------------------
(* The in-flight counters. *)

Calls(b) == {r \in Requests : phase[r] \in Running /\ Current(r) = b}

\* Nobody but r moves.
Only(r) == \A q \in Requests \ {r} :
             phase'[q] = phase[q] /\ plan'[q] = plan[q] /\ tried'[q] = tried[q]

\* A counter speaks of a finite set of handlers.
LEMMA CallsAreFinite ==
  \A b : IsFiniteSet(Calls(b)) /\ Cardinality(Calls(b)) \in Nat
<1>1. \A b : Calls(b) \in SUBSET Requests
  BY DEF Calls
<1> QED
  BY <1>1, RequestsAssumption, FS_Subset, FS_CardinalityType

\* Handlers that do not move leave the counters alone.
LEMMA CountStays ==
  ASSUME InFlightIsExact, NEW r \in Requests, Only(r), inFlight' = inFlight,
         phase'[r] \in Running <=> phase[r] \in Running,
         phase[r] \in Running => Current(r)' = Current(r)
  PROVE  InFlightIsExact'
<1>1. \A b : Calls(b)' = Calls(b)
  BY DEF Calls, Only, Current
<1> QED
  BY <1>1 DEF InFlightIsExact, Calls

\* start_request(): one more call to the backend that is called.
LEMMA CountEnters ==
  ASSUME Typed, InFlightIsExact, NEW r \in Requests, Only(r),
         phase[r] \notin Running, phase'[r] \in Running,
         Current(r)' \in Backends, inFlight' = Enter(Current(r)')
  PROVE  InFlightIsExact'
<1> DEFINE c == Current(r)'
<1>1. \A b : Calls(b)' = IF b = c THEN Calls(b) \union {r} ELSE Calls(b)
  BY DEF Calls, Only, Current
<1>2. r \notin Calls(c)
  BY DEF Calls
<1>3. Cardinality(Calls(c) \union {r}) = Cardinality(Calls(c)) + 1
  BY <1>2, CallsAreFinite, FS_AddElement
<1>4. \A b \in Backends : inFlight[b] = Cardinality(Calls(b))
  BY DEF InFlightIsExact, Calls
<1>5. \A b \in Backends : inFlight'[b] = IF b = c THEN inFlight[b] + 1 ELSE inFlight[b]
  BY DEF Enter, Typed
<1>6. \A b \in Backends : inFlight'[b] = Cardinality(Calls(b)')
  BY <1>1, <1>3, <1>4, <1>5
<1> QED
  BY <1>6 DEF InFlightIsExact, Calls

\* end_request(): one call less, and never less than none.
LEMMA CountLeaves ==
  ASSUME Typed, InFlightIsExact, NEW r \in Requests, Only(r),
         phase[r] \in Running, phase'[r] \notin Running,
         Current(r) \in Backends, inFlight' = Leave(Current(r))
  PROVE  InFlightIsExact'
<1> DEFINE c == Current(r)
<1>1. \A b : Calls(b)' = IF b = c THEN Calls(b) \ {r} ELSE Calls(b)
  BY DEF Calls, Only, Current
<1>2. r \in Calls(c)
  BY DEF Calls
<1>3. Cardinality(Calls(c) \ {r}) = Cardinality(Calls(c)) - 1 /\ Cardinality(Calls(c)) > 0
  BY <1>2, CallsAreFinite, FS_RemoveElement, FS_EmptySet
<1>4. \A b \in Backends : inFlight[b] = Cardinality(Calls(b))
  BY DEF InFlightIsExact, Calls
<1>5. inFlight' = [inFlight EXCEPT ![c] = inFlight[c] - 1]
  BY <1>3, <1>4 DEF Leave
<1>6. \A b \in Backends : inFlight'[b] = IF b = c THEN inFlight[b] - 1 ELSE inFlight[b]
  BY <1>5 DEF Typed
<1>7. \A b \in Backends : inFlight'[b] = Cardinality(Calls(b)')
  BY <1>1, <1>3, <1>4, <1>6
<1> QED
  BY <1>7 DEF InFlightIsExact, Calls

\* A fallback: one call less here, one more there.
LEMMA CountMoves ==
  ASSUME Typed, InFlightIsExact, NEW r \in Requests, Only(r),
         phase[r] \in Running, phase'[r] \in Running,
         Current(r) \in Backends, Current(r)' \in Backends,
         inFlight' = [Leave(Current(r)) EXCEPT ![Current(r)'] = @ + 1]
  PROVE  InFlightIsExact'
<1> DEFINE c == Current(r)
           d == Current(r)'
<1>1. \A b : Calls(b)' = IF b = d THEN (Calls(b) \ {r}) \union {r} ELSE Calls(b) \ {r}
  BY DEF Calls, Only, Current
<1>2. \A b : r \in Calls(b) <=> b = c
  BY DEF Calls
<1>3. \A b : /\ IsFiniteSet(Calls(b) \ {r})
             /\ Cardinality(Calls(b) \ {r}) =
                  IF b = c THEN Cardinality(Calls(b)) - 1 ELSE Cardinality(Calls(b))
             /\ b = c => Cardinality(Calls(b)) > 0
  BY <1>2, CallsAreFinite, FS_RemoveElement, FS_EmptySet
<1>4. \A b : Cardinality((Calls(b) \ {r}) \union {r}) = Cardinality(Calls(b) \ {r}) + 1
  BY <1>3, FS_AddElement
<1>5. \A b \in Backends : inFlight[b] = Cardinality(Calls(b))
  BY DEF InFlightIsExact, Calls
<1>6. Leave(c) = [inFlight EXCEPT ![c] = inFlight[c] - 1]
  BY <1>3, <1>5 DEF Leave
<1>7. \A b \in Backends : Leave(c)[b] = IF b = c THEN inFlight[b] - 1 ELSE inFlight[b]
  BY <1>6 DEF Typed
<1>8. \A b \in Backends : inFlight'[b] = IF b = d THEN Leave(c)[b] + 1 ELSE Leave(c)[b]
  BY <1>6 DEF Typed
<1>9. \A b \in Backends : inFlight'[b] = Cardinality(Calls(b)')
  BY <1>1, <1>3, <1>4, <1>5, <1>7, <1>8
<1> QED
  BY <1>9 DEF InFlightIsExact, Calls

-----------------------------------------------------------------------------
(* The steps of the handlers. *)

\* A step of r is nobody else's.
Others(r) == \A q \in Requests \ {r} :
               /\ phase'[q] = phase[q] /\ plan'[q] = plan[q] /\ tried'[q] = tried[q]
               /\ usage'[q] = usage[q] /\ reply'[q] = reply[q]

\* So the invariant need only be looked at where the step was.
LEMMA OneSteps ==
  ASSUME FInv, NEW r \in Requests, Others(r), form' = form, Typed',
         Matches(r)', InLine(r)', Rows(r)', InFlightIsExact'
  PROVE  FInv'
<1>1. ASSUME NEW q \in Requests \ {r}
      PROVE  (Matches(q) /\ InLine(q) /\ Rows(q))'
  <2>1. /\ phase'[q] = phase[q] /\ plan'[q] = plan[q] /\ tried'[q] = tried[q]
        /\ usage'[q] = usage[q] /\ reply'[q] = reply[q] /\ form'[q] = form[q]
    BY DEF Others
  <2>2. Matches(q) /\ InLine(q) /\ Rows(q)
    BY DEF FInv
  <2>3. Matches(q)'
    BY <2>1, <2>2 DEF Matches, Streaming, Chat, Raw, Current
  <2>4. InLine(q)'
    BY <2>1, <2>2 DEF InLine
  <2>5. Rows(q)'
    BY <2>1, <2>2 DEF Rows, Logged, Chat, Raw
  <2> QED
    BY <2>3, <2>4, <2>5
<1> QED
  BY <1>1 DEF FInv

\* What the invariant says of a handler with a call under way.
LEMMA CallUnderWay ==
  ASSUME FInv, NEW r \in Requests, phase[r] \in Running
  PROVE  /\ Current(r) \in Backends
         /\ Append(tried[r], Current(r)) \in Seq(Backends)
         /\ Append(tried[r], Current(r)) = SubSeq(plan[r], 1, Len(tried[r]) + 1)
         /\ Len(Append(tried[r], Current(r))) = Len(tried[r]) + 1
         /\ Len(tried[r]) < Len(plan[r]) /\ Len(tried[r]) \in Nat /\ Len(plan[r]) \in Nat
         /\ AtLast(r) => Append(tried[r], Current(r)) = plan[r]
         /\ reply[r].status = "open" /\ reply[r] \in Replies
         /\ Rows(r) /\ Matches(r) /\ InLine(r)
<1>1. /\ plan[r] \in Seq(Backends) /\ tried[r] \in Seq(Backends) /\ reply[r] \in Replies
      /\ Rows(r) /\ Matches(r) /\ InLine(r)
  BY DEF FInv, Typed
<1>2. Len(tried[r]) < Len(plan[r]) /\ tried[r] = SubSeq(plan[r], 1, Len(tried[r]))
  BY <1>1 DEF InLine
<1>3. reply[r].status = "open"
  BY <1>1 DEF Matches, Running, NoReply
<1> QED
  BY <1>1, <1>2, <1>3, NextOfList DEF Current, AtLast

\* An arrival: the list is fixed, and its first backend called.
LEMMA ArriveKeeps ==
  ASSUME FInv, NEW r \in Requests, NEW s \in Settings, NEW E \in SUBSET Backends,
         Arrive(r, s, E)
  PROVE  FInv'
<1>1. Typed /\ Matches(r) /\ InLine(r) /\ Rows(r) /\ InFlightIsExact /\ phase[r] = "new"
  BY DEF FInv, Arrive
<1>2. tried[r] = <<>> /\ usage[r] = <<>> /\ reply[r] = NoReply
  BY <1>1 DEF InLine, Matches, Rows, Logged, NoReply
<1>3. CASE E = {}
  <2>1. /\ phase' = [phase EXCEPT ![r] = "done"]
        /\ reply' = [reply EXCEPT ![r].status = "refused"]
        /\ UNCHANGED <<plan, inFlight, form, tried, usage, cooldown>>
    BY <1>3 DEF Arrive
  <2>2. reply'[r] = [from |-> NoBackend, bytes |-> {}, status |-> "refused"]
    <3>1. reply'[r] = [reply[r] EXCEPT !.status = "refused"]
      BY <1>1, <2>1 DEF Typed
    <3>2. reply[r] = [from |-> NoBackend, bytes |-> {}, status |-> "open"]
      BY <1>2 DEF NoReply
    <3> QED
      BY <3>1, <3>2
  <2>3. Typed' /\ Others(r)
    BY <1>1, <2>1 DEF Typed, Others, Phases, Replies
  <2>4. phase'[r] = "done"
    BY <1>1, <2>1 DEF Typed
  <2>5. Matches(r)' /\ InLine(r)' /\ Rows(r)'
    <3>1. Matches(r)'
      BY <2>4 DEF Matches
    <3>2. InLine(r)'
      BY <1>1, <2>1, <2>2, <2>4 DEF InLine, Running
    <3>3. Rows(r)'
      BY <1>2, <2>1, <2>2 DEF Rows, Logged
    <3> QED
      BY <3>1, <3>2, <3>3
  <2>6. InFlightIsExact'
    BY <1>1, <2>1, <2>3, <2>4, CountStays DEF Others, Only, Running
  <2> QED
    BY <2>1, <2>3, <2>5, <2>6, OneSteps
<1>4. CASE E # {}
  <2>1. PICK o \in Orders(config', E) :
          /\ plan' = [plan EXCEPT ![r] = o]
          /\ inFlight' = Enter(Head(o))
          /\ phase' = [phase EXCEPT ![r] = "calling"]
          /\ UNCHANGED <<reply, form, tried, usage, cooldown>>
    BY <1>4 DEF Arrive
  <2>2. o \in Seq(Backends) /\ Len(o) > 0
    BY <1>4, OrderIsList
  <2>3. /\ plan'[r] = o /\ phase'[r] = "calling" /\ tried'[r] = <<>>
        /\ reply'[r] = NoReply /\ usage'[r] = <<>>
    BY <1>1, <1>2, <2>1 DEF Typed
  <2>4. Current(r)' = Head(o) /\ Head(o) \in Backends
    BY <2>2, <2>3 DEF Current
  <2>5. inFlight' \in [Backends -> Nat]
    BY <1>1, <2>1, <2>4 DEF Typed, Enter
  <2>6. Typed' /\ Others(r)
    BY <1>1, <2>1, <2>2, <2>5 DEF Typed, Others, Phases
  <2>7. Matches(r)'
    BY <2>3 DEF Matches
  <2>8. InLine(r)'
    BY <2>2, <2>3 DEF InLine, NoReply
  <2>9. Rows(r)'
    BY <2>3 DEF Rows, Logged, NoReply
  <2>10. InFlightIsExact'
    BY <1>1, <2>1, <2>3, <2>4, <2>6, CountEnters DEF Others, Only, Running
  <2> QED
    BY <2>1, <2>6, <2>7, <2>8, <2>9, <2>10, OneSteps
<1> QED
  BY <1>3, <1>4

\* A handler that returns gives its backend back; what it leaves behind is as
\* good as its last words.
LEMMA EndKeeps ==
  ASSUME FInv, NEW r \in Requests, phase[r] \in Running, Others(r),
         form' = form, plan' = plan,
         phase' = [phase EXCEPT ![r] = "done"], inFlight' = Leave(Current(r)),
         tried' \in [Requests -> Seq(Backends)], usage' \in [Requests -> Seq(Backends)],
         reply' \in [Requests -> Replies], cooldown' \in [Backends -> Nat],
         InLine(r)', Rows(r)'
  PROVE  FInv'
<1>1. Typed /\ InFlightIsExact /\ Current(r) \in Backends
  BY CallUnderWay DEF FInv
<1>2. phase'[r] = "done" /\ Only(r)
  BY <1>1 DEF Typed, Others, Only
<1>3. inFlight' \in [Backends -> Nat]
  BY <1>1 DEF Typed, Leave
<1>4. Typed'
  BY <1>1, <1>3 DEF Typed, Phases
<1>5. Matches(r)'
  BY <1>2 DEF Matches
<1>6. InFlightIsExact'
  BY <1>1, <1>2, CountLeaves DEF Running
<1> QED
  BY <1>4, <1>5, <1>6, OneSteps

\* A 429 leaves a cooldown, or nothing.
LEMMA CoolDownTyped ==
  ASSUME Typed, NEW b \in Backends, NEW s, CoolDown(b, s)
  PROVE  cooldown' \in [Backends -> Nat]
  BY RequestsAssumption DEF CoolDown, Typed

\* A failure before the first byte: on to the next backend, or the end.
LEMMA FailFirstKeeps ==
  ASSUME FInv, NEW r \in Requests, NEW s, FailFirst(r, s)
  PROVE  FInv'
<1> DEFINE b == Current(r)
           t == Append(tried[r], b)
<1>1. Typed /\ InFlightIsExact /\ phase[r] = "calling" /\ phase[r] \in Running
  BY DEF FInv, FailFirst, Running
<1>2. /\ b \in Backends /\ t \in Seq(Backends) /\ t = SubSeq(plan[r], 1, Len(tried[r]) + 1)
      /\ Len(t) = Len(tried[r]) + 1
      /\ Len(tried[r]) < Len(plan[r]) /\ Len(tried[r]) \in Nat /\ Len(plan[r]) \in Nat
      /\ AtLast(r) => t = plan[r]
      /\ Rows(r) /\ Matches(r)
  BY <1>1, CallUnderWay
<1>3. reply[r] = NoReply /\ usage[r] = tried[r]
  BY <1>1, <1>2 DEF Matches, Rows, Logged, NoReply
<1>4. /\ CoolDown(b, s) /\ Log(r, b) /\ UNCHANGED <<form, plan>>
      /\ tried' = [tried EXCEPT ![r] = t]
  BY DEF FailFirst, NextInLine
<1>5. /\ usage' \in [Requests -> Seq(Backends)] /\ usage'[r] = t
      /\ tried' \in [Requests -> Seq(Backends)] /\ tried'[r] = t
      /\ cooldown' \in [Backends -> Nat]
  BY <1>1, <1>2, <1>3, <1>4, CoolDownTyped DEF Log, Typed
<1>6. CASE s \in Retryable /\ ~NothingLeft(r)
  <2>1. /\ inFlight' = [Leave(b) EXCEPT ![plan[r][Len(tried[r]) + 2]] = @ + 1]
        /\ UNCHANGED <<phase, reply>>
    BY <1>6 DEF FailFirst, NextInLine
  <2>2. Len(tried[r]) + 1 < Len(plan[r]) /\ plan[r] \in Seq(Backends)
    BY <1>1, <1>2, <1>6 DEF NothingLeft, AtLast, Typed
  <2>3. Current(r)' = plan[r][Len(tried[r]) + 2] /\ Current(r)' \in Backends
    BY <1>2, <1>4, <1>5, <2>2 DEF Current
  <2>4. Leave(b) \in [Backends -> Nat]
    BY <1>1, <1>2 DEF Leave, Typed
  <2>5. inFlight' \in [Backends -> Nat]
    BY <2>1, <2>3, <2>4
  <2>6. Typed' /\ Others(r)
    BY <1>1, <1>4, <1>5, <2>1, <2>5 DEF Typed, Others, Log
  <2>7. Matches(r)'
    BY <1>1, <1>3, <2>1 DEF Matches
  <2>8. InLine(r)'
    BY <1>1, <1>2, <1>3, <1>4, <1>5, <2>1, <2>2 DEF InLine, NoReply
  <2>9. Rows(r)'
    BY <1>3, <1>5, <2>1 DEF Rows, Logged, NoReply
  <2>10. InFlightIsExact'
    BY <1>1, <1>2, <2>1, <2>3, <2>6, CountMoves DEF Others, Only
  <2> QED
    BY <1>4, <2>6, <2>7, <2>8, <2>9, <2>10, OneSteps
<1>7. CASE ~(s \in Retryable /\ ~NothingLeft(r))
  <2> DEFINE st == IF s \in Retryable THEN "exhausted" ELSE "refused"
  <2>1. Close(r, b, st)
    BY <1>7 DEF FailFirst
  <2>2. /\ phase' = [phase EXCEPT ![r] = "done"] /\ inFlight' = Leave(b)
        /\ reply' = [reply EXCEPT ![r].status = st]
    BY <2>1 DEF Close
  <2>3. reply'[r] = [from |-> NoBackend, bytes |-> {}, status |-> st]
    <3>1. reply'[r] = [reply[r] EXCEPT !.status = st]
      BY <1>1, <2>2 DEF Typed
    <3> QED
      BY <1>3, <3>1 DEF NoReply
  <2>4. reply' \in [Requests -> Replies]
    <3>1. reply'[r] \in Replies
      BY <2>3 DEF Replies
    <3> QED
      BY <1>1, <2>2, <3>1 DEF Typed
  <2>5. Others(r)
    BY <1>1, <1>4, <2>2 DEF Others, Log, Typed
  <2>6. phase'[r] = "done"
    BY <1>1, <2>2 DEF Typed
  <2>7. InLine(r)'
    <3>1. s \in Retryable => t = plan[r]
      BY <1>2, <1>7 DEF NothingLeft
    <3>2. plan'[r] = plan[r] /\ Len(t) <= Len(plan[r]) /\ t = SubSeq(plan[r], 1, Len(t))
      BY <1>2, <1>4
    <3>3. reply'[r].status = "exhausted" => t = plan[r]
      BY <2>3, <3>1
    <3> QED
      BY <1>5, <2>6, <3>2, <3>3 DEF InLine, Running
  <2>8. Rows(r)'
    BY <1>5, <2>3 DEF Rows, Logged
  <2> QED
    BY <1>1, <1>4, <1>5, <2>2, <2>4, <2>5, <2>7, <2>8, EndKeeps
<1> QED
  BY <1>6, <1>7

\* The first chunk commits the stream, and the call goes on.
LEMMA ChunkKeeps ==
  ASSUME FInv, NEW r \in Requests, Chunk(r)
  PROVE  FInv'
<1> DEFINE b == Current(r)
<1>1. /\ Typed /\ InFlightIsExact /\ phase[r] = "calling" /\ phase[r] \in Running /\ Streaming(r)
      /\ phase' = [phase EXCEPT ![r] = "streaming"]
      /\ UNCHANGED <<form, plan, tried, usage, inFlight, cooldown>>
  BY DEF FInv, Chunk, Running
<1>2. b \in Backends /\ Matches(r) /\ InLine(r) /\ Rows(r) /\ Len(tried[r]) < Len(plan[r])
  BY <1>1, CallUnderWay
<1>3. reply[r] = NoReply
  BY <1>1, <1>2 DEF Matches
<1>4. usage[r] = tried[r]
  BY <1>2, <1>3 DEF Rows, Logged, NoReply
<1>5. reply'[r] = [from |-> b, bytes |-> {b}, status |-> "open"]
  <2>1. reply[r] = [from |-> NoBackend, bytes |-> {}, status |-> "open"]
    BY <1>3 DEF NoReply
  <2>2. reply[r].from = NoBackend /\ {} \union {b} = {b} /\ reply[r].bytes = {}
    BY <2>1
  <2>3. reply'[r] = [reply[r] EXCEPT !.from = b, !.bytes = {b}]
    BY <1>1, <2>2 DEF Chunk, Typed
  <2>4. [reply[r] EXCEPT !.from = b] = [from |-> b, bytes |-> {}, status |-> "open"]
    BY <2>1
  <2>5. reply'[r] = [[reply[r] EXCEPT !.from = b] EXCEPT !.bytes = {b}]
    BY <2>3
  <2> QED
    BY <2>4, <2>5
<1>6. reply' \in [Requests -> Replies] /\ Others(r)
  <2>1. reply'[r] \in Replies
    BY <1>2, <1>5 DEF Replies
  <2>2. /\ DOMAIN reply' = Requests /\ reply' = [q \in Requests |-> reply'[q]]
        /\ \A q \in Requests \ {r} : reply'[q] = reply[q]
    BY <1>1 DEF Chunk, Typed
  <2> QED
    BY <1>1, <2>1, <2>2 DEF Typed, Others
<1>7. Typed' /\ phase'[r] = "streaming" /\ Current(r)' = b
  BY <1>1, <1>6 DEF Typed, Phases, Current
<1>8. Matches(r)'
  BY <1>1, <1>5, <1>7 DEF Matches, Streaming, Chat, Raw
<1>9. InLine(r)'
  BY <1>1, <1>2, <1>5, <1>7 DEF InLine, Running
<1>10. Rows(r)'
  BY <1>1, <1>2, <1>4, <1>5 DEF Rows, Logged
<1>11. InFlightIsExact'
  BY <1>1, <1>6, <1>7, CountStays DEF Others, Only, Running
<1> QED
  BY <1>1, <1>6, <1>7, <1>8, <1>9, <1>10, <1>11, OneSteps

\* An empty stream: the headers go out and name the backend; a raw one has been
\* logged by then.
LEMMA EmptyEndKeeps ==
  ASSUME FInv, NEW r \in Requests, EmptyEnd(r) \/ EmptyEndRaw(r)
  PROVE  FInv'
<1> DEFINE b == Current(r)
<1>1. /\ Typed /\ InFlightIsExact /\ phase[r] = "calling" /\ phase[r] \in Running /\ Streaming(r)
      /\ phase' = [phase EXCEPT ![r] = "closing"]
      /\ reply' = [reply EXCEPT ![r].from = b]
      /\ UNCHANGED <<form, plan, tried, inFlight, cooldown>>
  BY DEF FInv, EmptyEnd, EmptyEndRaw, Running, Streaming
<1>2. /\ b \in Backends /\ Matches(r) /\ InLine(r) /\ Rows(r) /\ Len(tried[r]) < Len(plan[r])
      /\ Append(tried[r], b) \in Seq(Backends)
  BY <1>1, CallUnderWay
<1>3. reply[r] = NoReply
  BY <1>1, <1>2 DEF Matches
<1>4. usage[r] = tried[r]
  BY <1>2, <1>3 DEF Rows, Logged, NoReply
<1>5. reply'[r] = [from |-> b, bytes |-> {}, status |-> "open"]
  <2>1. reply'[r] = [reply[r] EXCEPT !.from = b]
    BY <1>1 DEF Typed
  <2> QED
    BY <1>3, <2>1 DEF NoReply
<1>6. /\ usage' \in [Requests -> Seq(Backends)]
      /\ \A q \in Requests \ {r} : usage'[q] = usage[q]
      /\ usage'[r] = IF Raw(r) THEN Append(tried[r], b) ELSE tried[r]
  <2>1. CASE EmptyEnd(r)
    BY <1>1, <1>4, <2>1 DEF EmptyEnd, Typed, Chat, Raw
  <2>2. CASE EmptyEndRaw(r)
    BY <1>1, <1>2, <1>4, <2>2 DEF EmptyEndRaw, Log, Typed
  <2> QED
    BY <2>1, <2>2
<1>7. reply' \in [Requests -> Replies] /\ Others(r)
  <2>1. reply'[r] \in Replies
    BY <1>2, <1>5 DEF Replies
  <2> QED
    BY <1>1, <1>6, <2>1 DEF Typed, Others
<1>8. Typed' /\ phase'[r] = "closing" /\ Current(r)' = b
  BY <1>1, <1>6, <1>7 DEF Typed, Phases, Current
<1>9. Matches(r)'
  BY <1>1, <1>5, <1>8 DEF Matches, Streaming, Chat, Raw
<1>10. InLine(r)'
  BY <1>1, <1>2, <1>5, <1>8 DEF InLine, Running
<1>11. Rows(r)'
  <2>1. Logged(r)' <=> Raw(r)
    BY <1>1, <1>2, <1>5, RequestsAssumption DEF Logged, Raw
  <2> QED
    BY <1>1, <1>5, <1>6, <2>1 DEF Rows
<1>12. InFlightIsExact'
  BY <1>1, <1>7, <1>8, CountStays DEF Others, Only, Running
<1> QED
  BY <1>1, <1>7, <1>8, <1>9, <1>10, <1>11, <1>12, OneSteps

\* The ends of an answer after which only the counter is given back: a raw
\* stream's return, its breaking off, and a client that hangs up.
LEMMA QuietEndKeeps ==
  ASSUME FInv, NEW r \in Requests, ReturnRaw(r) \/ BreakOffRaw(r) \/ HangUp(r)
  PROVE  FInv'
<1> DEFINE b == Current(r)
<1>1. PICK st \in {"complete", "interrupted", "gone"} :
        /\ Close(r, b, st)
        /\ st = "complete" => phase[r] = "closing" /\ Raw(r)
        /\ st = "interrupted" => phase[r] = "streaming" /\ Raw(r)
        /\ st = "gone" => phase[r] \in {"streaming", "closing"}
  BY DEF ReturnRaw, BreakOffRaw, HangUp
<1>2. /\ Typed /\ phase[r] \in {"streaming", "closing"} /\ phase[r] \in Running
      /\ UNCHANGED <<form, plan, tried, usage, cooldown>>
  BY <1>1 DEF FInv, ReturnRaw, BreakOffRaw, HangUp, Running
<1>3. b \in Backends /\ Matches(r) /\ InLine(r) /\ Rows(r)
  BY <1>2, CallUnderWay
<1>4. /\ phase' = [phase EXCEPT ![r] = "done"] /\ inFlight' = Leave(b)
      /\ reply' = [reply EXCEPT ![r].status = st]
  BY <1>1 DEF Close
<1>5. /\ reply[r].from = b /\ reply[r].status = "open" /\ reply[r] \in Replies /\ Streaming(r)
      /\ reply[r].bytes = IF phase[r] = "closing" THEN {} ELSE {b}
  <2>1. reply[r] = [from |-> b, bytes |-> IF phase[r] = "closing" THEN {} ELSE {b}, status |-> "open"]
    BY <1>2, <1>3 DEF Matches
  <2>2. reply[r] \in Replies /\ Streaming(r)
    BY <1>2, <1>3 DEF Matches, Typed
  <2> QED
    BY <2>1, <2>2
<1>6. /\ reply'[r].from = b /\ reply'[r].bytes = reply[r].bytes /\ reply'[r].status = st
      /\ reply' \in [Requests -> Replies]
  <2>1. reply'[r] = [reply[r] EXCEPT !.status = st]
    BY <1>2, <1>4 DEF Typed
  <2>2. reply'[r] \in Replies
    BY <1>5, <2>1 DEF Replies
  <2>3. reply' \in [Requests -> Replies]
    BY <1>2, <1>4, <2>2 DEF Typed
  <2> QED
    BY <1>5, <2>1, <2>3 DEF Replies
<1>7. Others(r)
  BY <1>2, <1>4 DEF Typed, Others
<1>8. InLine(r)'
  BY <1>2, <1>3, <1>4, <1>6 DEF InLine, Running, Typed
<1>9. Rows(r)'
  <2>1. Logged(r) <=> phase[r] = "closing" /\ Raw(r)
    BY <1>2, <1>3, <1>5, RequestsAssumption DEF Logged
  <2>2. Chat(r) => ~Raw(r)
    BY DEF Chat, Raw
  <2>3. Logged(r)' <=> phase[r] = "closing" /\ Raw(r)
    <3>1. Chat(r)' = Chat(r) /\ Raw(r)' = Raw(r) /\ b # NoBackend
      BY <1>2, <1>3, RequestsAssumption DEF Chat, Raw
    <3>2. st = "interrupted" => ~Chat(r)
      BY <1>1, <2>2
    <3> QED
      BY <1>1, <1>2, <1>5, <1>6, <3>1, <3>2 DEF Logged
  <2> QED
    BY <1>2, <1>3, <1>5, <1>6, <2>1, <2>3 DEF Rows
<1> QED
  BY <1>2, <1>4, <1>6, <1>7, <1>8, <1>9, EndKeeps DEF Typed

\* The ends that are recorded and logged: a full answer, and a chat stream that
\* breaks off.
LEMMA LoggedEndKeeps ==
  ASSUME FInv, NEW r \in Requests, Finish(r) \/ BreakOff(r)
  PROVE  FInv'
<1> DEFINE b == Current(r)
           t == Append(tried[r], b)
<1>1. /\ Typed /\ phase[r] \in Running /\ Log(r, b)
      /\ phase[r] = "closing" => Chat(r)
      /\ phase' = [phase EXCEPT ![r] = "done"] /\ inFlight' = Leave(b)
      /\ UNCHANGED <<form, plan, tried, cooldown>>
  BY DEF FInv, Finish, BreakOff, Close, Running
<1>2. /\ b \in Backends /\ t \in Seq(Backends) /\ reply[r] \in Replies
      /\ reply[r].status = "open" /\ Matches(r) /\ InLine(r) /\ Rows(r)
  BY <1>1, CallUnderWay
<1>3. ~Logged(r)
  <2>1. CASE phase[r] = "calling"
    BY <1>2, <2>1 DEF Matches, Logged, NoReply
  <2>2. CASE phase[r] = "streaming"
    <3>1. b # NoBackend /\ reply[r].bytes = {b}
      BY <1>2, <2>2, RequestsAssumption DEF Matches
    <3> QED
      BY <1>2, <3>1 DEF Logged
  <2>3. CASE phase[r] = "closing"
    <3>1. ~Raw(r)
      BY <1>1, <2>3 DEF Chat, Raw
    <3> QED
      BY <1>2, <3>1 DEF Logged
  <2> QED
    BY <1>1, <2>1, <2>2, <2>3 DEF Running
<1>4. usage[r] = tried[r]
  BY <1>2, <1>3 DEF Rows
<1>5. usage' \in [Requests -> Seq(Backends)] /\ usage'[r] = t
  BY <1>1, <1>2, <1>4 DEF Log, Typed
<1>6. /\ reply'[r].from = b /\ reply'[r] \in Replies
      /\ reply'[r].status = "complete" \/ (reply'[r].status = "interrupted" /\ Chat(r))
      /\ \A q \in Requests \ {r} : reply'[q] = reply[q]
      /\ reply' \in [Requests -> Replies]
  <2>1. ASSUME reply[r].from = b, NEW st \in {"complete", "interrupted"},
               reply' = [reply EXCEPT ![r].status = st], st = "complete" \/ Chat(r)
        PROVE  <1>6!:
    <3>1. reply'[r] = [reply[r] EXCEPT !.status = st]
      BY <1>1, <2>1 DEF Typed
    <3>2. reply'[r] \in Replies /\ reply'[r].from = b /\ reply'[r].status = st
      BY <1>2, <2>1, <3>1 DEF Replies
    <3> QED
      BY <1>1, <2>1, <3>2 DEF Typed
  <2>2. CASE Finish(r) /\ Streaming(r)
    <3>1. phase[r] \in {"streaming", "closing"}
      BY <2>2 DEF Finish
    <3>2. reply[r].from = b
      BY <1>2, <3>1 DEF Matches
    <3>3. reply' = [reply EXCEPT ![r].status = "complete"]
      BY <2>2 DEF Finish
    <3> QED
      BY <2>1, <3>2, <3>3
  <2>3. CASE Finish(r) /\ ~Streaming(r)
    <3>1. reply' = [reply EXCEPT ![r] = [from |-> b, bytes |-> {b}, status |-> "complete"]]
      BY <2>3 DEF Finish
    <3>2. [from |-> b, bytes |-> {b}, status |-> "complete"] \in Replies
      BY <1>2 DEF Replies
    <3> QED
      BY <1>1, <3>1, <3>2 DEF Typed
  <2>4. CASE BreakOff(r)
    <3>1. reply[r].from = b
      BY <1>2, <2>4 DEF Matches, BreakOff
    <3>2. reply' = [reply EXCEPT ![r].status = "interrupted"] /\ Chat(r)
      BY <2>4 DEF BreakOff, Close
    <3> QED
      BY <2>1, <3>1, <3>2
  <2> QED
    BY <2>2, <2>3, <2>4
<1>7. Others(r)
  BY <1>1, <1>6 DEF Typed, Others, Log
<1>8. InLine(r)'
  BY <1>1, <1>2, <1>6 DEF InLine, Running, Typed
<1>9. Rows(r)'
  BY <1>1, <1>5, <1>6 DEF Rows, Logged, Chat
<1> QED
  BY <1>1, <1>5, <1>6, <1>7, <1>8, <1>9, EndKeeps DEF Typed

-----------------------------------------------------------------------------
(* The invariant. *)

\* Before any request has come nothing is in flight and nothing is logged.
LEMMA InitFInv == InitAll => FInv
<1> SUFFICES ASSUME InitAll PROVE FInv
  OBVIOUS
<1>1. Typed
  BY RequestsAssumption DEF InitAll, InitRequests, Typed, Phases, NoReply, Replies
<1>2. ASSUME NEW r \in Requests
      PROVE  /\ phase[r] = "new" /\ plan[r] = <<>> /\ tried[r] = <<>> /\ usage[r] = <<>>
             /\ reply[r] = NoReply
  BY DEF InitAll, InitRequests
<1>3. ASSUME NEW r \in Requests
      PROVE  Matches(r) /\ InLine(r) /\ Rows(r)
  <2>1. reply[r].status = "open" /\ reply[r].from = NoBackend
    BY <1>2 DEF NoReply
  <2>2. Matches(r) /\ ~Logged(r)
    BY <1>2, <2>1 DEF Matches, Logged
  <2>3. Len(tried[r]) = 0 /\ Len(plan[r]) = 0 /\ SubSeq(plan[r], 1, Len(tried[r])) = tried[r]
    <3>1. Len(tried[r]) = 0 /\ Len(plan[r]) = 0
      BY <1>2
    <3>2. SubSeq(plan[r], 1, 0) = <<>>
      BY SubSeqEmpty
    <3> QED
      BY <1>2, <3>1, <3>2
  <2>4. InLine(r)
    BY <1>2, <2>1, <2>3 DEF InLine, Running
  <2> QED
    BY <1>2, <2>2, <2>4 DEF Rows
<1>4. InFlightIsExact
  <2>1. \A b : {r \in Requests : phase[r] \in Running /\ Current(r) = b} = {}
    BY <1>2 DEF Running
  <2> QED
    BY <2>1, FS_EmptySet DEF InitAll, InitRequests, InFlightIsExact
<1> QED
  BY <1>1, <1>3, <1>4 DEF FInv

\* What moves nothing of the requests moves nothing of the invariant.
LEMMA BesideKeeps ==
  ASSUME FInv, UNCHANGED <<requestVars, inFlight>>, cooldown' \in [Backends -> Nat]
  PROVE  FInv'
<1>1. /\ form' = form /\ phase' = phase /\ plan' = plan /\ tried' = tried
      /\ usage' = usage /\ reply' = reply /\ inFlight' = inFlight
  BY DEF requestVars
<1>2. Typed'
  BY <1>1 DEF FInv, Typed
<1>3. ASSUME NEW r \in Requests
      PROVE  (Matches(r) /\ InLine(r) /\ Rows(r))'
  BY <1>1 DEF FInv, Matches, InLine, Rows, Logged, Chat, Raw, Streaming, Current
<1>4. InFlightIsExact'
  BY <1>1 DEF FInv, InFlightIsExact, Current
<1> QED
  BY <1>2, <1>3, <1>4 DEF FInv

\* Every step of the composition keeps the invariant.
LEMMA NextFInv == FInv /\ [NextAll]_vars => FInv'
<1> SUFFICES ASSUME FInv, [NextAll]_vars PROVE FInv'
  OBVIOUS
<1>1. ASSUME NEW r \in Requests, FirstEvent(r) PROVE FInv'
  BY <1>1, FailFirstKeeps, ChunkKeeps, EmptyEndKeeps, QuietEndKeeps, LoggedEndKeeps DEF FirstEvent
<1>2. ASSUME NEW r \in Requests, BreakOff(r) \/ BreakOffRaw(r) \/ HangUp(r) PROVE FInv'
  BY <1>2, LoggedEndKeeps, QuietEndKeeps
<1>3. CASE Clock
  BY <1>3, BesideKeeps DEF Clock, FInv, Typed
<1>4. CASE Beside
  BY <1>4, BesideKeeps DEF Beside, FInv, Typed
<1>5. CASE UNCHANGED vars
  BY <1>5, BesideKeeps DEF vars, requestVars, FInv, Typed
<1> QED
  BY <1>1, <1>2, <1>3, <1>4, <1>5, ArriveKeeps DEF NextAll

\* The invariant holds of every fallback loop, however requests interleave.
THEOREM FallbackInvariant == SpecAll => []FInv
  BY InitFInv, NextFInv, PTL DEF SpecAll

\* The handlers' state is well typed.
THEOREM FallbackTypes == SpecAll => []TypeOKAll
<1>1. FInv => TypeOKAll
  BY DEF FInv, Typed, TypeOKAll, Replies
<1> QED
  BY <1>1, FallbackInvariant, PTL

\* The in-flight counters never leak or stick, on any path out of a handler.
THEOREM CountersExact == SpecAll => []InFlightIsExact
<1>1. FInv => InFlightIsExact
  BY DEF FInv
<1> QED
  BY <1>1, FallbackInvariant, PTL

\* A 502 comes only after every backend of the list was called, in order.
THEOREM ExhaustedTriedAll == SpecAll => []ExhaustedMeansAllTried
<1>1. FInv => ExhaustedMeansAllTried
  BY DEF FInv, InLine, ExhaustedMeansAllTried
<1> QED
  BY <1>1, FallbackInvariant, PTL

\* One usage row per finished call, in order, none for a call cut short.
THEOREM RowsExact == SpecAll => []UsageIsExact
<1>1. FInv => UsageIsExact
  BY DEF FInv, Rows, Logged, UsageIsExact
<1> QED
  BY <1>1, FallbackInvariant, PTL

-----------------------------------------------------------------------------
(* The breaker, used by requests. *)

\* When no backoff is running, time changes nothing of the breaker.
LEMMA IdleElapse ==
  ASSUME TypeOK, Elapse, \A b \in Backends : ~(circuits[b].left > 0)
  PROVE  UNCHANGED breakerVars
<1>1. ASSUME NEW b \in Backends
      PROVE  circuits[b] \in Circuit /\ circuits[b].left = 0
  <2>1. circuits[b] \in Circuit
    BY DEF TypeOK
  <2>2. circuits[b].left \in 0 .. MaxBackoff
    BY <2>1 DEF Circuit
  <2> QED
    BY <2>1, <2>2, BackoffAssumption
<1>2. \A b \in Backends : [circuits[b] EXCEPT !.left = 0] = circuits[b]
  BY <1>1 DEF Circuit
<1>3. circuits' = circuits
  BY <1>1, <1>2 DEF Elapse, TypeOK
<1>4. waited' = waited
  BY <1>1 DEF Elapse, TypeOK
<1> QED
  BY <1>3, <1>4 DEF Elapse, breakerVars

\* What requests, time and operators do to the breaker is what its
\* specification lets them do.
LEMMA StepOfBreaker ==
  ASSUME FInv, TypeOK, [NextAll]_vars
  PROVE  [Next]_breakerVars
<1>1. ASSUME NEW r \in Requests, NEW s \in Settings, NEW E \in SUBSET Backends, Arrive(r, s, E)
      PROVE  Next
  BY <1>1 DEF Arrive, Configure, Next
<1>2. ASSUME NEW r \in Requests, NEW s \in Statuses, RequestOutcome(Current(r), s), phase[r] \in Running
      PROVE  Next
  BY <1>2, CallUnderWay DEF Next
<1>3. ASSUME NEW r \in Requests, FirstEvent(r)
      PROVE  [Next]_breakerVars
  <2>1. ASSUME NEW s \in Statuses, FailFirst(r, s)
        PROVE  Next
    BY <1>2, <2>1 DEF FailFirst, Running
  <2>2. CASE Finish(r) \/ EmptyEndRaw(r)
    BY <1>2, <2>2 DEF Finish, EmptyEndRaw, Running, Statuses
  <2>3. CASE Chunk(r) \/ EmptyEnd(r) \/ ReturnRaw(r)
    BY <2>3 DEF Chunk, EmptyEnd, ReturnRaw, breakerVars
  <2> QED
    BY <1>3, <2>1, <2>2, <2>3 DEF FirstEvent
<1>4. ASSUME NEW r \in Requests, BreakOff(r)
      PROVE  Next
  BY <1>2, <1>4 DEF BreakOff, Running, Statuses, Genuine
<1>5. ASSUME NEW r \in Requests, BreakOffRaw(r) \/ HangUp(r)
      PROVE  UNCHANGED breakerVars
  BY <1>5 DEF BreakOffRaw, HangUp, breakerVars
<1>6. CASE Clock
  BY <1>6, IdleElapse DEF Clock, Next, Tick
<1>7. CASE Beside
  BY <1>7 DEF Beside, Next
<1>8. CASE UNCHANGED vars
  BY <1>8 DEF vars, breakerVars
<1> QED
  BY <1>1, <1>3, <1>4, <1>5, <1>6, <1>7, <1>8 DEF NextAll

\* The requests use the breaker as it is specified.
THEOREM BreakerUsedAsSpecified == SpecAll => BreakerIsUsedAsSpecified
<1>1. InitAll => FInv /\ IInv /\ Init
  BY InitFInv, InitIInv DEF InitAll
<1>2. FInv /\ IInv /\ [NextAll]_vars => [Next]_breakerVars
  BY StepOfBreaker DEF IInv
<1>3. IInv /\ [Next]_breakerVars => IInv'
  BY NextIInv
<1>4. FInv /\ [NextAll]_vars => FInv'
  BY NextFInv
<1> QED
  BY <1>1, <1>2, <1>3, <1>4, PTL DEF SpecAll, BreakerIsUsedAsSpecified

-----------------------------------------------------------------------------
(* One backend serves each client. *)

\* The client's view, as ClientStream has it.
Source == [r \in Requests |-> reply[r].from]
From   == [r \in Requests |-> reply[r].bytes]
Ending == [r \in Requests |-> IF reply[r].status = "exhausted" THEN "refused" ELSE reply[r].status]

\* What may become of what a client has got, in one step.
Refused(old, new) ==
  /\ old.from = NoBackend /\ new.from = NoBackend /\ new.bytes = old.bytes
  /\ new.status \in {"refused", "exhausted"}
Committed(old, new) ==
  /\ old.from = NoBackend /\ new.from \in Backends /\ new.status = "open"
  /\ new.bytes \in {old.bytes, {new.from}}
Answered(old, new) ==
  /\ old.from = NoBackend /\ new.from \in Backends /\ new.status = "complete"
  /\ new.bytes = {new.from}
Ended(old, new) ==
  /\ old.from # NoBackend /\ new.from = old.from /\ new.bytes = old.bytes
  /\ new.status \in {"complete", "interrupted", "gone"}
Continued(old, new) ==
  /\ old.status = "open"
  /\ Refused(old, new) \/ Committed(old, new) \/ Answered(old, new) \/ Ended(old, new)

\* Each of these is a step of the client's contract.
LEMMA ContinuedIsStep ==
  ASSUME Typed, Typed', NEW r \in Requests, \A q \in Requests \ {r} : reply'[q] = reply[q],
         Continued(reply[r], reply'[r])
  PROVE  Client!Next
<1>0. PICK new : new = reply'[r]
  OBVIOUS
<1> DEFINE end == IF new.status = "exhausted" THEN "refused" ELSE new.status
<1>1. /\ Source' = [Source EXCEPT ![r] = new.from]
      /\ From' = [From EXCEPT ![r] = new.bytes]
      /\ Ending' = [Ending EXCEPT ![r] = end]
  BY <1>0 DEF Source, From, Ending
<1>2. /\ Source[r] = reply[r].from /\ From[r] = reply[r].bytes /\ Ending[r] = "open"
  BY DEF Source, From, Ending, Continued
<1>3. ASSUME new.from = Source[r] PROVE Source' = Source
  BY <1>1, <1>3 DEF Source
<1>4. ASSUME new.bytes = From[r] PROVE From' = From
  BY <1>1, <1>4 DEF From
<1>5. ASSUME new.status = "open" PROVE Ending' = Ending
  BY <1>1, <1>2, <1>5 DEF Ending
<1>6. CASE Refused(reply[r], new)
  <2>1. Client!Refuse(r)
    BY <1>1, <1>2, <1>3, <1>4, <1>6 DEF Refused, Client!Refuse, Client!Committed, Source, From, Ending
  <2> QED
    BY <2>1 DEF Client!Next
<1>7. CASE Committed(reply[r], new)
  <2>1. Client!Commit(r, new.from)
    BY <1>1, <1>2, <1>4, <1>5, <1>7 DEF Committed, Client!Commit, Client!Committed, Source, From, Ending
  <2>2. \E b \in Backends : Client!Commit(r, b)
    <3>1. new.from \in Backends
      BY <1>7 DEF Committed
    <3> QED
      BY <2>1, <3>1
  <2> QED
    BY <2>2 DEF Client!Next
<1>8. CASE Answered(reply[r], new)
  <2>1. Client!Answer(r, new.from)
    BY <1>1, <1>2, <1>8 DEF Answered, Client!Answer, Client!Committed, Source, From, Ending
  <2>2. \E b \in Backends : Client!Answer(r, b)
    <3>1. new.from \in Backends
      BY <1>8 DEF Answered
    <3> QED
      BY <2>1, <3>1
  <2> QED
    BY <2>2 DEF Client!Next
<1>9. CASE Ended(reply[r], new)
  <2>1. Client!End(r, new.status)
    BY <1>1, <1>2, <1>3, <1>4, <1>9 DEF Ended, Client!End, Client!Committed, Source, From, Ending
  <2>2. \E e \in Client!Endings : Client!End(r, e)
    <3>1. new.status \in Client!Endings
      BY <1>9 DEF Ended, Client!Endings
    <3> QED
      BY <2>1, <3>1
  <2> QED
    BY <2>2 DEF Client!Next
<1> QED
  BY <1>0, <1>6, <1>7, <1>8, <1>9 DEF Continued

\* An answer that ends, in a refusal before it has begun or otherwise after.
LEMMA StatusSteps ==
  ASSUME FInv, FInv', NEW r \in Requests, NEW st, reply' = [reply EXCEPT ![r].status = st],
         reply[r].status = "open",
         \/ reply[r].from = NoBackend /\ st \in {"refused", "exhausted"}
         \/ reply[r].from # NoBackend /\ st \in {"complete", "interrupted", "gone"}
  PROVE  Client!Next
<1>1. Typed /\ Typed' /\ reply[r] \in Replies
  BY DEF FInv, Typed
<1>2. /\ reply'[r] = [reply[r] EXCEPT !.status = st]
      /\ \A q \in Requests \ {r} : reply'[q] = reply[q]
  BY <1>1 DEF Typed
<1>3. /\ reply'[r].from = reply[r].from /\ reply'[r].bytes = reply[r].bytes
      /\ reply'[r].status = st
  BY <1>1, <1>2 DEF Replies
<1>4. PICK new : new = reply'[r]
  OBVIOUS
<1>5. Continued(reply[r], new)
  BY <1>3, <1>4 DEF Continued, Refused, Ended
<1> QED
  BY <1>1, <1>2, <1>4, <1>5, ContinuedIsStep

\* Headers go out, or a whole answer does.
LEMMA HeadersStep ==
  ASSUME FInv, FInv', NEW r \in Requests,
         Chunk(r) \/ EmptyEnd(r) \/ EmptyEndRaw(r) \/ (Finish(r) /\ ~Streaming(r))
  PROVE  Client!Next
<1> DEFINE b == Current(r)
<1>1. Typed /\ Typed' /\ phase[r] = "calling" /\ phase[r] \in Running
  BY DEF FInv, Chunk, EmptyEnd, EmptyEndRaw, Finish, Running, Matches
<1>2. b \in Backends /\ Matches(r)
  BY <1>1, CallUnderWay
<1>3. reply[r] = [from |-> NoBackend, bytes |-> {}, status |-> "open"]
  BY <1>1, <1>2 DEF Matches, NoReply
<1>4. \A q \in Requests \ {r} : reply'[q] = reply[q]
  BY <1>1 DEF Chunk, EmptyEnd, EmptyEndRaw, Finish, Typed
<1>5. CASE Chunk(r)
  <2>1. phase'[r] = "streaming" /\ Current(r)' = b /\ Matches(r)'
    BY <1>1, <1>5 DEF Chunk, Typed, Current, FInv
  <2>2. PICK new : new = reply'[r]
    OBVIOUS
  <2>3. new = [from |-> b, bytes |-> {b}, status |-> "open"]
    BY <2>1, <2>2 DEF Matches
  <2>4. Continued(reply[r], new)
    BY <1>2, <1>3, <2>3 DEF Continued, Committed
  <2> QED
    BY <1>1, <1>4, <2>2, <2>4, ContinuedIsStep
<1>6. CASE EmptyEnd(r) \/ EmptyEndRaw(r)
  <2>1. phase'[r] = "closing" /\ Current(r)' = b /\ Matches(r)'
    BY <1>1, <1>6 DEF EmptyEnd, EmptyEndRaw, Typed, Current, FInv
  <2>2. PICK new : new = reply'[r]
    OBVIOUS
  <2>3. new = [from |-> b, bytes |-> {}, status |-> "open"]
    BY <2>1, <2>2 DEF Matches
  <2>4. Continued(reply[r], new)
    BY <1>2, <1>3, <2>3 DEF Continued, Committed
  <2> QED
    BY <1>1, <1>4, <2>2, <2>4, ContinuedIsStep
<1>7. CASE Finish(r) /\ ~Streaming(r)
  <2>1. reply' = [reply EXCEPT ![r] = [from |-> b, bytes |-> {b}, status |-> "complete"]]
    BY <1>7 DEF Finish
  <2>2. PICK new : new = reply'[r]
    OBVIOUS
  <2>3. new = [from |-> b, bytes |-> {b}, status |-> "complete"]
    BY <1>1, <2>1, <2>2 DEF Typed
  <2>4. Continued(reply[r], new)
    BY <1>2, <1>3, <2>3 DEF Continued, Answered
  <2> QED
    BY <1>1, <1>4, <2>2, <2>4, ContinuedIsStep
<1> QED
  BY <1>5, <1>6, <1>7

\* Whatever happens among the backends, each client sees a step of its contract
\* or nothing.
LEMMA StepOfClient ==
  ASSUME FInv, FInv', [NextAll]_vars
  PROVE  [Client!Next]_<<Source, From, Ending>>
<1>1. ASSUME UNCHANGED reply
      PROVE  UNCHANGED <<Source, From, Ending>>
  BY <1>1 DEF Source, From, Ending
<1>2. ASSUME NEW r \in Requests, NEW s \in Settings, NEW E \in SUBSET Backends, Arrive(r, s, E)
      PROVE  Client!Next \/ UNCHANGED reply
  <2>1. CASE E = {}
    <3>1. reply' = [reply EXCEPT ![r].status = "refused"]
      BY <1>2, <2>1 DEF Arrive
    <3>2. reply[r] = [from |-> NoBackend, bytes |-> {}, status |-> "open"]
      BY <1>2 DEF Arrive, FInv, Matches, NoReply
    <3>3. reply[r].status = "open" /\ reply[r].from = NoBackend
      BY <3>2
    <3>4. Client!Next
      BY <3>1, <3>3, StatusSteps
    <3> QED
      BY <3>4
  <2>2. CASE E # {}
    BY <1>2, <2>2 DEF Arrive
  <2> QED
    BY <2>1, <2>2
<1>3. ASSUME NEW r \in Requests, NEW s \in Statuses, FailFirst(r, s)
      PROVE  Client!Next \/ UNCHANGED reply
  <2>1. reply[r] = [from |-> NoBackend, bytes |-> {}, status |-> "open"]
    BY <1>3 DEF FailFirst, FInv, Matches, NoReply
  <2>2. CASE s \in Retryable /\ ~NothingLeft(r)
    BY <1>3, <2>2 DEF FailFirst, NextInLine
  <2>3. CASE ~(s \in Retryable /\ ~NothingLeft(r))
    <3>1. PICK st \in {"refused", "exhausted"} : reply' = [reply EXCEPT ![r].status = st]
      BY <1>3, <2>3 DEF FailFirst, Close
    <3>2. reply[r].status = "open" /\ reply[r].from = NoBackend
      BY <2>1
    <3>3. Client!Next
      BY <3>1, <3>2, StatusSteps
    <3> QED
      BY <3>3
  <2> QED
    BY <2>2, <2>3
<1>4. ASSUME NEW r \in Requests, Chunk(r) \/ EmptyEnd(r) \/ EmptyEndRaw(r)
                                 \/ (Finish(r) /\ ~Streaming(r))
      PROVE  Client!Next
  BY <1>4, HeadersStep
<1>5. ASSUME NEW r \in Requests,
             ReturnRaw(r) \/ (Finish(r) /\ Streaming(r)) \/ BreakOff(r) \/ BreakOffRaw(r) \/ HangUp(r)
      PROVE  Client!Next
  <2>1. phase[r] \in {"streaming", "closing"} /\ phase[r] \in Running
    BY <1>5 DEF ReturnRaw, Finish, BreakOff, BreakOffRaw, HangUp, Running
  <2>2. Current(r) \in Backends /\ Matches(r) /\ reply[r].status = "open"
    BY <2>1, CallUnderWay
  <2>3. reply[r].from # NoBackend
    BY <2>1, <2>2, RequestsAssumption DEF Matches
  <2>4. PICK st \in {"complete", "interrupted", "gone"} : reply' = [reply EXCEPT ![r].status = st]
    BY <1>5 DEF ReturnRaw, Finish, BreakOff, BreakOffRaw, HangUp, Close
  <2> QED
    BY <2>2, <2>3, <2>4, StatusSteps
<1>6. ASSUME Clock \/ Beside \/ UNCHANGED vars
      PROVE  UNCHANGED reply
  BY <1>6 DEF Clock, Beside, vars, requestVars
<1>7. ASSUME NEW r \in Requests, FirstEvent(r)
      PROVE  Client!Next \/ UNCHANGED reply
  BY <1>3, <1>4, <1>5, <1>7 DEF FirstEvent
<1>8. Client!Next \/ UNCHANGED reply
  BY <1>2, <1>5, <1>6, <1>7 DEF NextAll
<1> QED
  BY <1>1, <1>8

\* No client has got anything to begin with.
LEMMA InitClient == InitAll => Client!Init
  BY DEF InitAll, InitRequests, NoReply, Client!Init

\* Each client is served by one backend: headers before bytes, no refusal after
\* headers, no byte of another backend.  The loop gives up a backend only before
\* its first chunk.
THEOREM OneBackendServes == SpecAll => ServedByOne
<1>1. FInv /\ FInv' /\ [NextAll]_vars => [Client!Next]_<<Source, From, Ending>>
  BY StepOfClient
<1> QED
  BY <1>1, InitClient, FallbackInvariant, PTL
  DEF SpecAll, ServedByOne, Client!Spec, Client!clientVars, Source, From, Ending
=============================================================================
