----------------------------- MODULE ClientQuota -----------------------------
(***************************************************************************)
(* clientquota.py as the worker's auth_middleware uses it: the requests per *)
(* minute a client key may make, a sliding window of its own hits, and the  *)
(* daily and monthly budgets, checked against the spend in the usage table  *)
(* read through a cache of a few seconds.  The rows behind that spend are   *)
(* written later, by the background writer, and everything but the rows is  *)
(* lost when the worker goes.                                               *)
(*                                                                          *)
(* Time is in ticks, Grain of them to a tenth of a second; a period is the   *)
(* running local day or month.                                              *)
(***************************************************************************)
EXTENDS Integers, Sequences

CONSTANTS Keys,     \* ids of the client keys in the configuration
          Limits,   \* what a key may be configured to: rpm, daily_budget_usd and
                    \* monthly_budget_usd, 0 for none
          Costs,    \* what a request may cost
          Window, SpendTTL,
          Grain,    \* ticks in a tenth of a second, which Retry-After is rounded to
          MaxTime, MaxSpend, MaxOpen, MaxQueue, MaxForgotten  \* bounds for finite checking

Periods == {"day", "month"}

ASSUME QuotaAssumption ==
  /\ Limits \subseteq [rpm : Nat, budget : [Periods -> Nat]] /\ Costs \subseteq Nat
  /\ Window \in Nat \ {0} /\ SpendTTL \in Nat \ {0} /\ Grain \in Nat \ {0}

VARIABLES now,
          limits,     \* the configuration of each key
          hits,       \* _hits
          cached,     \* _spend_cache: a set of at most one entry per key
          spent,      \* usage: what the rows of the running periods add up to
          queue,      \* rows on their way to the table
          admitted,   \* requests the middleware let in, until the endpoint answers
          answer,     \* what the middleware has just answered
          passed,     \* history: when this worker let in the key's limited requests
                    \* of the last Window ticks
          before,     \* history: the same of the workers before it
          known,      \* history: the spends the table showed lately, and until when
          promise     \* history: when a client told to retry may, 0 for none

vars == <<now, limits, hits, cached, spent, queue, admitted, answer,
          passed, before, known, promise>>

Nothing == [period \in Periods |-> 0]
Silence == [key |-> "none", status |-> 0]

Init ==
  /\ now = 1
  /\ limits \in [Keys -> Limits]
  /\ hits = [k \in Keys |-> <<>>] /\ cached = {}
  /\ spent = [k \in Keys |-> Nothing] /\ queue = <<>>
  /\ admitted = [k \in Keys |-> 0] /\ answer = Silence
  /\ passed = [k \in Keys |-> <<>>] /\ promise = [k \in Keys |-> 0]
  /\ before = [k \in Keys |-> <<>>] /\ known = [k \in Keys |-> {}]

-----------------------------------------------------------------------------
(* The window. *)

\* Hits are dropped from the left, the oldest first, until one is not too old at
\* tick t.
LiveAt(dq, t) ==
  LET Gone(n) == /\ \A i \in 1..n : t - dq[i] > Window
                 /\ n < Len(dq) => t - dq[n + 1] <= Window
  IN SubSeq(dq, (CHOOSE n \in 0..Len(dq) : Gone(n)) + 1, Len(dq))

\* Mutant: a hit a whole window old no longer counts.
LiveShort(dq) == LiveAt(dq, now + 1)

Live(dq) == LiveAt(dq, now)

\* round(..., 1): the nearest tenth, of two equally near the even one; it may be
\* the one below.
Rounded(t) ==
  LET tenths == t \div Grain
      over   == 2 * (t % Grain)
  IN Grain * IF over < Grain \/ (over = Grain /\ tenths % 2 = 0) THEN tenths ELSE tenths + 1

\* check_rpm(): the hit is registered only when it is let through.
Limited(k)  == limits[k].rpm > 0
OverRpm(k)  == Limited(k) /\ Len(Live(hits[k])) >= limits[k].rpm
Retry(k)    == Rounded(Window - (now - Head(Live(hits[k]))))
Register(k) == hits' = IF Limited(k) THEN [hits EXCEPT ![k] = Append(Live(@), now)] ELSE hits
\* Mutant: a refused request is registered too.
RefuseHitCounted(k) == hits' = [hits EXCEPT ![k] = Append(Live(@), now)]

RefuseHit(k) == hits' = [hits EXCEPT ![k] = Live(@)]

-----------------------------------------------------------------------------
(* The spend. *)

FreshEntry(k) == {c \in cached : c.key = k /\ now - c.at < SpendTTL}

\* get_spend(): what it returns, and what it leaves in the cache.
SpendSeen(k) == IF FreshEntry(k) # {} THEN (CHOOSE c \in FreshEntry(k) : TRUE).spend
                ELSE spent[k]
\* Mutant: every use of the entry prolongs it.
RememberLonger(k) == cached' = {c \in cached : c.key # k}
                                 \union {[key |-> k, at |-> now, spend |-> SpendSeen(k)]}

Remember(k)  == cached' = IF FreshEntry(k) # {} THEN cached
                          ELSE {c \in cached : c.key # k}
                                 \union {[key |-> k, at |-> now, spend |-> spent[k]]}

Budgeted(k)    == \E p \in Periods : limits[k].budget[p] > 0
Exhausts(k, s) == \E p \in Periods : limits[k].budget[p] > 0 /\ s[p] >= limits[k].budget[p]

-----------------------------------------------------------------------------
(* auth_middleware(): the window first, then the budgets. *)

TooMany(k) ==
  /\ OverRpm(k)
  /\ RefuseHit(k)
  /\ answer' = [key |-> k, status |-> 429]
  /\ promise' = [promise EXCEPT ![k] =
                    IF Len(Live(hits[k])) = limits[k].rpm THEN now + Retry(k) ELSE 0]
  /\ UNCHANGED <<cached, admitted, passed>>

TooDear(k) ==
  /\ ~OverRpm(k) /\ Budgeted(k) /\ Exhausts(k, SpendSeen(k))
  /\ Register(k) /\ Remember(k)
  /\ answer' = [key |-> k, status |-> 402]
  /\ promise' = [promise EXCEPT ![k] = 0]
  /\ UNCHANGED <<admitted, passed>>

LetIn(k) ==
  /\ ~OverRpm(k) /\ ~(Budgeted(k) /\ Exhausts(k, SpendSeen(k)))
  /\ admitted[k] < MaxOpen
  /\ Register(k)
  /\ IF Budgeted(k) THEN Remember(k) ELSE UNCHANGED cached
  /\ admitted' = [admitted EXCEPT ![k] = @ + 1]
  /\ answer' = [key |-> k, status |-> 200]
  /\ passed' = [passed EXCEPT ![k] = IF Limited(k) THEN Append(@, now) ELSE @]
  /\ promise' = [promise EXCEPT ![k] = 0]

Arrive(k) ==
  /\ TooMany(k) \/ TooDear(k) \/ LetIn(k)
  /\ UNCHANGED <<now, limits, spent, queue, before, known>>

\* _budget_warn_headers(), after the request's body has been awaited, looks the
\* spend up again, whether the key has a budget or not.
Warn(k) ==
  /\ admitted[k] > 0
  /\ Remember(k)
  /\ answer' = Silence
  /\ UNCHANGED <<now, limits, hits, spent, queue, admitted, passed, before, known, promise>>

\* A request ends: with a usage row queued, or without one when its client is gone.
Finish(k) ==
  /\ admitted[k] > 0
  /\ admitted' = [admitted EXCEPT ![k] = @ - 1]
  /\ \/ \E c \in Costs : Len(queue) < MaxQueue
          /\ queue' = Append(queue, [key |-> k, cost |-> c, of |-> Periods])
     \/ queue' = queue
  /\ answer' = Silence
  /\ UNCHANGED <<now, limits, hits, cached, spent, passed, before, known, promise>>

-----------------------------------------------------------------------------
(* The world around it. *)

\* The table of key k changes to s at tick t: what it showed until now joins the
\* spends a check may still go by.
Outdates(k, s, t) ==
  {e \in known[k] : t - e.at < SpendTTL /\ e.spend # spent[k]}
    \union (IF s = spent[k] THEN {} ELSE {[at |-> now, spend |-> spent[k]]})

\* The writer commits the oldest row; it counts in the periods it was queued in.
Commit ==
  /\ queue # <<>>
  /\ LET r == Head(queue)
         s == [p \in Periods |-> spent[r.key][p] + (IF p \in r.of THEN r.cost ELSE 0)]
     IN /\ \A p \in Periods : s[p] <= MaxSpend
        /\ spent' = [spent EXCEPT ![r.key] = s]
        /\ known' = [known EXCEPT ![r.key] = Outdates(r.key, s, now)]
  /\ queue' = Tail(queue) /\ answer' = Silence
  /\ UNCHANGED <<now, limits, hits, cached, admitted, passed, before, promise>>

\* The clock ticks; at midnight the day's rows stop counting, on the first of a
\* month the month's too.
Tick ==
  /\ now < MaxTime
  /\ now' = now + 1
  /\ \E ended \in {{}, {"day"}, Periods} :
       LET rest(k) == [p \in Periods |-> IF p \in ended THEN 0 ELSE spent[k][p]]
       IN /\ spent' = [k \in Keys |-> rest(k)]
          /\ queue' = [i \in DOMAIN queue |-> [queue[i] EXCEPT !.of = @ \ ended]]
          /\ known' = [k \in Keys |-> Outdates(k, rest(k), now + 1)]
  /\ passed' = [k \in Keys |-> LiveAt(passed[k], now')]
  /\ before' = [k \in Keys |-> LiveAt(before[k], now')]
  /\ answer' = Silence
  /\ UNCHANGED <<limits, hits, cached, admitted, promise>>

\* An edit of the key, which the next request already sees.
Configure(k) ==
  /\ \E l \in Limits : limits' = [limits EXCEPT ![k] = l]
  /\ promise' = [promise EXCEPT ![k] = 0]
  /\ answer' = Silence
  /\ UNCHANGED <<now, hits, cached, spent, queue, admitted, passed, before, known>>

\* DELETE /admin/usage; rows still queued come after it.
ClearUsage ==
  /\ spent' = [k \in Keys |-> Nothing]
  /\ known' = [k \in Keys |-> Outdates(k, Nothing, now)]
  /\ answer' = Silence
  /\ UNCHANGED <<now, limits, hits, cached, queue, admitted, passed, before, promise>>

\* The worker ends and another starts: what was in its memory is gone, the window
\* with it (only the history remembers whom it let in), and so are the rows it had
\* queued unless it could write them first.
Restart ==
  /\ \A k \in Keys : Len(before[k]) + Len(passed[k]) <= MaxForgotten
  /\ hits' = [k \in Keys |-> <<>>] /\ cached' = {} /\ queue' = <<>>
  /\ admitted' = [k \in Keys |-> 0] /\ answer' = Silence
  /\ before' = [k \in Keys |-> before[k] \o passed[k]]
  /\ passed' = [k \in Keys |-> <<>>] /\ promise' = [k \in Keys |-> 0]
  /\ UNCHANGED <<now, limits, spent, known>>

Next ==
  \/ \E k \in Keys : Arrive(k) \/ Warn(k) \/ Finish(k) \/ Configure(k)
  \/ Commit \/ Tick \/ ClearUsage \/ Restart

Spec == Init /\ [][Next]_vars
-----------------------------------------------------------------------------
(* What the middleware promises. *)

LetsIn(k) == answer' = [key |-> k, status |-> 200]

\* All of the key's limited requests of the last Window ticks, in every worker.
InWindow(k) == before[k] \o passed[k]

\* What a limited key makes within any window is more than its limit by no more than
\* what workers that are gone let in within it, whatever was refused in between, by
\* the window or by a budget, and however the limit is edited (check_rpm).  A worker
\* starts with no hits (clientquota.py:25), so around a restart a key may make twice
\* its limit: the bound is the limit alone in a window without one.
RpmHolds ==
  [][\A k \in Keys : LetsIn(k) /\ Limited(k)
       => Len(InWindow(k)) < limits[k].rpm + Len(before[k])]_vars

\* A client that was told Retry-After and comes back more than half a tenth of a
\* second later than that (what rounding may take from it), before any other
\* request with its key and any edit of it, finds the window open, although
\* requests turned away by the budget use the window up too.  (After the limit has
\* been lowered the oldest hit's end is too early, and is left out.)
RetryAfterIsEnough ==
  \A k \in Keys : promise[k] > 0 /\ 2 * (now - promise[k]) > Grain => ~OverRpm(k)

\* What the table showed within the last SpendTTL.
Recent(k) == {spent[k]} \union {e.spend : e \in {e \in known[k] : now - e.at < SpendTTL}}

\* The budget check goes by a spend the usage table showed within SpendTTL, in
\* both directions: a key is refused only if it was over a budget then, and let
\* in only if it was not (get_spend: "cached a few seconds"), past midnight, a
\* cleared table and a restart.
SpendIsRecent ==
  [][\A k \in Keys :
       /\ answer' = [key |-> k, status |-> 402] => \E s \in Recent(k) : Exhausts(k, s)
       /\ LetsIn(k) => \E s \in Recent(k) : ~Exhausts(k, s)]_vars
=============================================================================
