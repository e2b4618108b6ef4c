-------------------------- MODULE ClientQuotaProofs --------------------------
(***************************************************************************)
(* For any keys, limits, costs, window and cache time: the budget check     *)
(* goes by a spend the usage table showed within SpendTTL, no worker lets   *)
(* more requests in within a window than the limit, and a client that waits *)
(* out its Retry-After, and what rounding took from it, finds the window    *)
(* open.                                                                    *)
(***************************************************************************)
EXTENDS ClientQuota, Functions, FiniteSetTheorems, SequenceTheorems, TLAPS

\* The spend of a cache entry is what the table shows, or showed at some tick
\* after the entry was read.
Backed(c) == \/ c.spend = spent[c.key]
             \/ \E e \in known[c.key] : e.spend = c.spend /\ e.at >= c.at

\* The inductive invariant: every entry that may still be used is backed.  The
\* spend in use need not be the table's, and history forgets what is older than
\* SpendTTL, so the entry's age has to bound the history's.
IInv ==
  /\ now \in Nat
  /\ \A k \in Keys : \A e \in known[k] : e.at \in Nat
  /\ \A c \in cached : c.key \in Keys /\ c.at \in Nat /\ c.at <= now
  /\ \A c \in cached : now - c.at < SpendTTL => Backed(c)
  /\ spent = [k \in Keys |-> spent[k]] /\ known = [k \in Keys |-> known[k]]

-----------------------------------------------------------------------------
(* get_spend() returns a recent spend. *)
LEMMA SeenIsRecent ==
  ASSUME IInv, NEW k \in Keys
  PROVE  SpendSeen(k) \in Recent(k)
<1>1. CASE FreshEntry(k) = {}
  BY <1>1 DEF SpendSeen, Recent
<1>2. CASE FreshEntry(k) # {}
  <2> DEFINE c == CHOOSE d \in FreshEntry(k) : TRUE
  <2>1. c \in FreshEntry(k)
    BY <1>2
  <2>2. c \in cached /\ c.key = k /\ now - c.at < SpendTTL
    BY <2>1 DEF FreshEntry
  <2>3. SpendSeen(k) = c.spend
    BY <1>2 DEF SpendSeen
  <2> HIDE DEF c
  <2>4. CASE c.spend = spent[k]
    BY <2>3, <2>4 DEF Recent
  <2>5. CASE \E e \in known[k] : e.spend = c.spend /\ e.at >= c.at
    <3>1. PICK e \in known[k] : e.spend = c.spend /\ e.at >= c.at
      BY <2>5
    <3>2. now - e.at < SpendTTL
      BY <2>2, <3>1, QuotaAssumption DEF IInv
    <3> QED
      BY <2>3, <3>1, <3>2 DEF Recent
  <2> QED
    BY <2>2, <2>4, <2>5 DEF IInv, Backed
<1> QED
  BY <1>1, <1>2

\* Remember() leaves only backed entries.
LEMMA RememberKeeps ==
  ASSUME IInv, NEW k \in Keys, Remember(k), UNCHANGED <<now, spent, known>>
  PROVE  IInv'
<1> DEFINE new == [key |-> k, at |-> now, spend |-> spent[k]]
<1>1. cached' \subseteq cached \union {new}
  BY DEF Remember
<1>2. \A c \in cached' : c.key \in Keys /\ c.at \in Nat /\ c.at <= now
  BY <1>1 DEF IInv
<1>3. ASSUME NEW c \in cached', now - c.at < SpendTTL
      PROVE  Backed(c)'
  <2>1. CASE c \in cached
    BY <1>3, <2>1 DEF IInv, Backed
  <2>2. CASE c = new
    BY <2>2 DEF Backed
  <2> QED
    BY <1>1, <2>1, <2>2
<1> QED
  BY <1>2, <1>3 DEF IInv

\* Whatever the tables change to, and whatever the time is by then, what they
\* showed until now is still on record when an entry that can be used needs it.
LEMMA OutdatesKeeps ==
  ASSUME IInv, cached' = cached, now' \in {now, now + 1},
         spent' = [k \in Keys |-> spent'[k]],
         known' = [k \in Keys |-> known'[k]],
         \A k \in Keys : \/ spent'[k] = spent[k] /\ known'[k] = known[k]
                         \/ known'[k] = Outdates(k, spent'[k], now')
  PROVE  IInv'
<1>1. now \in Nat /\ now' \in Nat /\ now <= now' /\ SpendTTL \in Nat
  BY QuotaAssumption DEF IInv
<1>2. ASSUME NEW k \in Keys, NEW e \in known'[k]
      PROVE  e.at \in Nat
  BY <1>1, <1>2 DEF IInv, Outdates
<1>3. \A c \in cached' : c.key \in Keys /\ c.at \in Nat /\ c.at <= now'
  BY <1>1 DEF IInv
<1>4. ASSUME NEW c \in cached', now' - c.at < SpendTTL
      PROVE  Backed(c)'
  <2> DEFINE k == c.key
  <2>1. k \in Keys /\ c.at \in Nat /\ c.at <= now /\ now - c.at < SpendTTL /\ Backed(c)
    BY <1>1, <1>4 DEF IInv
  <2>2. CASE spent'[k] = spent[k] /\ known'[k] = known[k]
    BY <2>1, <2>2 DEF Backed
  <2>3. CASE known'[k] = Outdates(k, spent'[k], now') /\ c.spend = spent[k]
    <3>1. CASE spent'[k] = spent[k]
      BY <2>3, <3>1 DEF Backed
    <3>2. CASE spent'[k] # spent[k]
      <4>1. [at |-> now, spend |-> spent[k]] \in known'[k]
        BY <2>3, <3>2 DEF Outdates
      <4> QED
        BY <2>1, <2>3, <4>1 DEF Backed
    <3> QED
      BY <3>1, <3>2
  <2>4. CASE known'[k] = Outdates(k, spent'[k], now') /\ c.spend # spent[k]
    <3>1. PICK e \in known[k] : e.spend = c.spend /\ e.at >= c.at
      BY <2>1, <2>4 DEF Backed
    <3>2. e.at \in Nat
      BY <2>1 DEF IInv
    <3>3. now' - e.at < SpendTTL
      BY <1>1, <1>4, <2>1, <3>1, <3>2
    <3>4. e \in known'[k]
      BY <2>4, <3>1, <3>3 DEF Outdates
    <3> QED
      BY <3>1, <3>4 DEF Backed
  <2> QED
    BY <2>1, <2>2, <2>3, <2>4
<1> QED
  BY <1>1, <1>2, <1>3, <1>4 DEF IInv

-----------------------------------------------------------------------------
(* Every step keeps the invariant. *)
LEMMA StepKeeps ==
  ASSUME IInv, [Next]_vars
  PROVE  IInv'
<1>1. ASSUME UNCHANGED <<now, spent, known>>,
             UNCHANGED cached \/ cached' = {} \/ \E k \in Keys : Remember(k)
      PROVE  IInv'
  <2>1. CASE cached' = cached \/ cached' = {}
    BY <1>1, <2>1 DEF IInv, Backed
  <2>2. CASE \E k \in Keys : Remember(k)
    BY <1>1, <2>2, RememberKeeps
  <2> QED
    BY <1>1, <2>1, <2>2
<1>2. ASSUME NEW k \in Keys, Arrive(k)
      PROVE  IInv'
  <2>1. UNCHANGED <<now, spent, known>>
    BY <1>2 DEF Arrive
  <2>2. UNCHANGED cached \/ Remember(k)
    BY <1>2 DEF Arrive, TooMany, TooDear, LetIn
  <2> QED
    BY <1>1, <2>1, <2>2
<1>3. ASSUME NEW k \in Keys, Warn(k) \/ Finish(k) \/ Configure(k)
      PROVE  IInv'
  BY <1>1, <1>3 DEF Warn, Finish, Configure
<1>4. CASE Commit
  <2> DEFINE r == Head(queue)
             s == [p \in Periods |-> spent[r.key][p] + (IF p \in r.of THEN r.cost ELSE 0)]
  <2>1. /\ spent' = [spent EXCEPT ![r.key] = s]
        /\ known' = [known EXCEPT ![r.key] = Outdates(r.key, s, now)]
        /\ UNCHANGED <<now, cached>>
    BY <1>4 DEF Commit
  <2> HIDE DEF r, s
  <2>2. \A k \in Keys : \/ spent'[k] = spent[k] /\ known'[k] = known[k]
                        \/ known'[k] = Outdates(k, spent'[k], now')
    BY <2>1 DEF IInv
  <2>3. spent' = [k \in Keys |-> spent'[k]] /\ known' = [k \in Keys |-> known'[k]]
    BY <2>1 DEF IInv
  <2> QED
    BY <2>1, <2>2, <2>3, OutdatesKeeps DEF IInv
<1>5. CASE Tick
  <2>1. PICK ended \in {{}, {"day"}, Periods} :
          LET rest(k) == [p \in Periods |-> IF p \in ended THEN 0 ELSE spent[k][p]]
          IN /\ spent' = [k \in Keys |-> rest(k)]
             /\ known' = [k \in Keys |-> Outdates(k, rest(k), now + 1)]
    BY <1>5 DEF Tick
  <2>2. now' = now + 1 /\ cached' = cached
    BY <1>5 DEF Tick
  <2> QED
    BY <2>1, <2>2, OutdatesKeeps DEF IInv
<1>6. CASE ClearUsage
  <2>1. /\ spent' = [k \in Keys |-> Nothing]
        /\ known' = [k \in Keys |-> Outdates(k, Nothing, now)]
        /\ UNCHANGED <<now, cached>>
    BY <1>6 DEF ClearUsage
  <2> QED
    BY <2>1, OutdatesKeeps DEF IInv
<1>7. CASE Restart
  BY <1>1, <1>7 DEF Restart
<1>8. CASE UNCHANGED vars
  BY <1>1, <1>8 DEF vars
<1> QED
  BY <1>2, <1>3, <1>4, <1>5, <1>6, <1>7, <1>8 DEF Next

\* Every answer of the middleware goes by a recent spend.
LEMMA AnswerIsRecent ==
  ASSUME IInv, Next, NEW k \in Keys
  PROVE  /\ answer' = [key |-> k, status |-> 402] => \E s \in Recent(k) : Exhausts(k, s)
         /\ LetsIn(k) => \E s \in Recent(k) : ~Exhausts(k, s)
<1>1. ASSUME NEW j \in Keys, Arrive(j)
      PROVE  /\ answer' = [key |-> k, status |-> 402] => \E s \in Recent(k) : Exhausts(k, s)
             /\ LetsIn(k) => \E s \in Recent(k) : ~Exhausts(k, s)
  <2>0. SpendSeen(j) \in Recent(j) /\ spent[j] \in Recent(j)
    BY SeenIsRecent DEF Recent
  <2>1. CASE TooMany(j)
    BY <2>1 DEF TooMany, LetsIn
  <2>2. CASE TooDear(j)
    BY <2>0, <2>2 DEF TooDear, LetsIn
  <2>3. CASE LetIn(j)
    <3>1. ~Exhausts(j, SpendSeen(j))
      BY <2>3 DEF LetIn, Budgeted, Exhausts
    <3>2. answer' = [key |-> j, status |-> 200]
      BY <2>3 DEF LetIn
    <3> QED
      BY <2>0, <3>1, <3>2 DEF LetsIn
  <2> QED
    BY <1>1, <2>1, <2>2, <2>3 DEF Arrive
<1>2. ASSUME ~\E j \in Keys : Arrive(j)
      PROVE  answer' = Silence
  BY <1>2 DEF Next, Warn, Finish, Configure, Commit, Tick, ClearUsage, Restart
<1>3. CASE answer' = Silence
  BY <1>3 DEF Silence, LetsIn
<1> QED
  BY <1>1, <1>2, <1>3

-----------------------------------------------------------------------------
(* clientquota.py:8: spend cached "seconds-scale", and never longer. *)
THEOREM RecentSpend == Spec => SpendIsRecent
<1>1. Init => IInv
  BY DEF Init, IInv
<1>2. IInv /\ [Next]_vars => IInv'
  BY StepKeeps
<1>3. IInv /\ [Next]_vars =>
        [\A k \in Keys :
           /\ answer' = [key |-> k, status |-> 402] => \E s \in Recent(k) : Exhausts(k, s)
           /\ LetsIn(k) => \E s \in Recent(k) : ~Exhausts(k, s)]_vars
  BY AnswerIsRecent
<1> QED
  BY <1>1, <1>2, <1>3, PTL DEF Spec, SpendIsRecent

-----------------------------------------------------------------------------
(* The window.  The requests let in are compared with the hits through an    *)
(* injection: every request let in lately has a hit of its own.             *)

Ascending(dq) == \A i, j \in 1..Len(dq) : i <= j => dq[i] <= dq[j]

Tracks(ps, dq) ==
  \E f \in Injection(1..Len(ps), 1..Len(dq)) : \A i \in 1..Len(ps) : dq[f[i]] = ps[i]

\* Of a key: its requests let in are recent and have their hits, and a client
\* that may retry was refused by a full window that starts with the hit it waits
\* for, at most half a tenth of a second past what it was told.
KeyInv(k) ==
  /\ Ascending(passed[k])
  /\ \A i \in 1..Len(passed[k]) : passed[k][i] <= now /\ now - passed[k][i] <= Window
  /\ Tracks(passed[k], hits[k])
  /\ promise[k] > 0 => /\ Limited(k) /\ Len(hits[k]) = limits[k].rpm
                       /\ 2 * (hits[k][1] + Window - promise[k]) <= Grain

RateTypes ==
  /\ now \in Nat /\ limits \in [Keys -> Limits]
  /\ hits \in [Keys -> Seq(Nat)] /\ passed \in [Keys -> Seq(Nat)]
  /\ promise \in [Keys -> Nat]

RateInv == RateTypes /\ \A k \in Keys : KeyInv(k)

\* The first n positions of a sequence.
LEMMA PositionsCount ==
  ASSUME NEW n \in Nat
  PROVE  IsFiniteSet(1..n) /\ Cardinality(1..n) = n
<1>1. IsFiniteSet(1..n) /\ Cardinality(1..n) = IF 1 > n THEN 0 ELSE n - 1 + 1
  BY FS_Interval
<1> QED
  BY <1>1

\* The loop of check_rpm() ends: some number of hits is the number it drops,
\* for the hits that have only ones too old before them, and are too old, are the
\* first ones.
LEMMA LoopEnds ==
  ASSUME NEW dq \in Seq(Nat), NEW t \in Nat
  PROVE  \E n \in 0..Len(dq) : /\ \A i \in 1..n : t - dq[i] > Window
                               /\ n < Len(dq) => t - dq[n + 1] <= Window
<1> DEFINE E == {i \in 1..Len(dq) : \A j \in 1..i : t - dq[j] > Window}
<1>1. IsFiniteSet(1..Len(dq)) /\ Cardinality(1..Len(dq)) = Len(dq)
  BY PositionsCount
<1>2. IsFiniteSet(E) /\ Cardinality(E) <= Len(dq)
  BY <1>1, FS_Subset
<1>3. PICK n \in Nat : n = Cardinality(E)
  BY <1>2, FS_CardinalityType
<1>4. ASSUME NEW i \in E
      PROVE  i <= n
  <2>1. 1..i \in SUBSET E
    OBVIOUS
  <2>2. Cardinality(1..i) = i
    BY PositionsCount
  <2> QED
    BY <1>2, <1>3, <2>1, <2>2, FS_Subset
<1>5. E \in SUBSET (1..n)
  BY <1>4
<1>6. IsFiniteSet(1..n) /\ Cardinality(1..n) = n
  BY PositionsCount
<1>7. E = 1..n
  BY <1>3, <1>5, <1>6, FS_Subset
<1>8. n <= Len(dq)
  BY <1>2, <1>3
<1>9. \A i \in 1..n : t - dq[i] > Window
  <2>1. SUFFICES ASSUME NEW i \in 1..n
                 PROVE  t - dq[i] > Window
    OBVIOUS
  <2>2. i \in E
    BY <1>7
  <2> QED
    BY <2>2
<1>10. ASSUME n < Len(dq)
       PROVE  t - dq[n + 1] <= Window
  <2>1. n + 1 \notin E
    BY <1>7
  <2>2. n + 1 \in 1..Len(dq)
    BY <1>10
  <2>3. PICK j \in 1..(n + 1) : ~(t - dq[j] > Window)
    BY <2>1, <2>2
  <2>4. j = n + 1
    BY <1>9, <2>3
  <2>5. dq[n + 1] \in Nat
    BY <2>2
  <2> QED
    BY <2>3, <2>4, <2>5, QuotaAssumption
<1> QED
  BY <1>8, <1>9, <1>10

\* What it leaves are the hits from the first that is not too old.
LEMMA LiveAtFacts ==
  ASSUME NEW dq \in Seq(Nat), NEW t \in Nat
  PROVE  \E n \in 0..Len(dq) :
           /\ \A i \in 1..n : t - dq[i] > Window
           /\ n < Len(dq) => t - dq[n + 1] <= Window
           /\ LiveAt(dq, t) \in Seq(Nat) /\ Len(LiveAt(dq, t)) = Len(dq) - n
           /\ \A i \in 1..(Len(dq) - n) : LiveAt(dq, t)[i] = dq[n + i]
<1> DEFINE Gone(m) == /\ \A i \in 1..m : t - dq[i] > Window
                      /\ m < Len(dq) => t - dq[m + 1] <= Window
<1>1. \E m \in 0..Len(dq) : Gone(m)
  BY LoopEnds
<1>2. PICK n : n = CHOOSE m \in 0..Len(dq) : Gone(m)
  OBVIOUS
<1>3. n \in 0..Len(dq) /\ Gone(n)
  BY <1>1, <1>2
<1>4. LiveAt(dq, t) = SubSeq(dq, n + 1, Len(dq))
  BY <1>2 DEF LiveAt
<1>5. \A i \in (n + 1)..Len(dq) : dq[i] \in Nat
  BY <1>3
<1>6. /\ SubSeq(dq, n + 1, Len(dq)) \in Seq(Nat)
      /\ Len(SubSeq(dq, n + 1, Len(dq))) = Len(dq) - n
      /\ \A i \in 1..(Len(dq) - n) : SubSeq(dq, n + 1, Len(dq))[i] = dq[n + i]
  BY <1>3, <1>5
<1> QED
  BY <1>3, <1>4, <1>6

\* The first hit that is left is not too old.
LEMMA FirstIsLive ==
  ASSUME NEW dq \in Seq(Nat), NEW t \in Nat, Len(LiveAt(dq, t)) >= 1
  PROVE  t - LiveAt(dq, t)[1] <= Window
<1>1. PICK n \in 0..Len(dq) :
        /\ n < Len(dq) => t - dq[n + 1] <= Window
        /\ Len(LiveAt(dq, t)) = Len(dq) - n
        /\ \A i \in 1..(Len(dq) - n) : LiveAt(dq, t)[i] = dq[n + i]
  BY LiveAtFacts
<1>2. n < Len(dq) /\ 1 \in 1..(Len(dq) - n)
  BY <1>1
<1> QED
  BY <1>1, <1>2

\* Requests that are recent keep their hits when the old ones are dropped.
LEMMA TracksLive ==
  ASSUME NEW ps \in Seq(Nat), NEW dq \in Seq(Nat), NEW t \in Nat, Tracks(ps, dq),
         \A i \in 1..Len(ps) : t - ps[i] <= Window
  PROVE  Tracks(ps, LiveAt(dq, t))
<1>1. PICK f \in Injection(1..Len(ps), 1..Len(dq)) : \A i \in 1..Len(ps) : dq[f[i]] = ps[i]
  BY DEF Tracks
<1>2. PICK n \in 0..Len(dq) :
        /\ \A i \in 1..n : t - dq[i] > Window
        /\ LiveAt(dq, t) \in Seq(Nat) /\ Len(LiveAt(dq, t)) = Len(dq) - n
        /\ \A i \in 1..(Len(dq) - n) : LiveAt(dq, t)[i] = dq[n + i]
  BY LiveAtFacts
<1>3. /\ f \in [1..Len(ps) -> 1..Len(dq)]
      /\ \A i, j \in 1..Len(ps) : f[i] = f[j] => i = j
  BY DEF Injection, IsInjective
<1>4. ASSUME NEW i \in 1..Len(ps)
      PROVE  f[i] \in (n + 1)..Len(dq)
  <2>1. f[i] \in 1..Len(dq) /\ dq[f[i]] = ps[i] /\ ps[i] \in Nat
    BY <1>1, <1>3
  <2>2. ~(t - dq[f[i]] > Window)
    BY <2>1, QuotaAssumption
  <2>3. f[i] \notin 1..n
    BY <1>2, <2>2
  <2>4. PICK m \in 1..Len(dq) : m = f[i]
    BY <2>1
  <2>5. n \in Nat /\ Len(dq) \in Nat /\ m \notin 1..n
    BY <2>3, <2>4
  <2>6. m \in (n + 1)..Len(dq)
    BY <2>5
  <2> QED
    BY <2>4, <2>6
<1>5. PICK g : g = [i \in 1..Len(ps) |-> f[i] - n]
  OBVIOUS
<1>6. g \in [1..Len(ps) -> 1..(Len(dq) - n)]
  <2>1. ASSUME NEW i \in 1..Len(ps)
        PROVE  f[i] - n \in 1..(Len(dq) - n)
    <3>1. n \in Nat /\ Len(dq) \in Nat
      OBVIOUS
    <3>2. PICK m \in (n + 1)..Len(dq) : m = f[i]
      BY <1>4, <2>1
    <3> QED
      BY <3>1, <3>2
  <2> QED
    BY <1>5, <2>1
<1>7. \A i, j \in 1..Len(ps) : g[i] = g[j] => i = j
  <2>1. SUFFICES ASSUME NEW i \in 1..Len(ps), NEW j \in 1..Len(ps), g[i] = g[j]
                 PROVE  i = j
    OBVIOUS
  <2>2. f[i] - n = f[j] - n /\ f[i] \in Int /\ f[j] \in Int
    BY <1>4, <1>5, <2>1
  <2>3. f[i] = f[j]
    BY <2>2
  <2> QED
    BY <1>3, <2>1, <2>3
<1>8. g \in Injection(1..Len(ps), 1..(Len(dq) - n))
  BY <1>6, <1>7 DEF Injection, IsInjective
<1>9. \A i \in 1..Len(ps) : LiveAt(dq, t)[g[i]] = ps[i]
  <2>1. SUFFICES ASSUME NEW i \in 1..Len(ps)
                 PROVE  LiveAt(dq, t)[g[i]] = ps[i]
    OBVIOUS
  <2>2. g[i] = f[i] - n /\ g[i] \in 1..(Len(dq) - n) /\ f[i] \in (n + 1)..Len(dq)
    BY <1>4, <1>5, <1>6
  <2>3. n + g[i] = f[i]
    BY <2>2
  <2>4. LiveAt(dq, t)[g[i]] = dq[n + g[i]]
    BY <1>2, <2>2
  <2> QED
    BY <1>1, <2>3, <2>4
<1> QED
  BY <1>2, <1>8, <1>9 DEF Tracks

\* Requests that are dropped leave the others their hits.
LEMMA TracksFewer ==
  ASSUME NEW ps \in Seq(Nat), NEW dq \in Seq(Nat), NEW t \in Nat, Tracks(ps, dq)
  PROVE  Tracks(LiveAt(ps, t), dq)
<1>1. PICK f \in Injection(1..Len(ps), 1..Len(dq)) : \A i \in 1..Len(ps) : dq[f[i]] = ps[i]
  BY DEF Tracks
<1>2. PICK n \in 0..Len(ps) :
        /\ Len(LiveAt(ps, t)) = Len(ps) - n
        /\ \A i \in 1..(Len(ps) - n) : LiveAt(ps, t)[i] = ps[n + i]
  BY LiveAtFacts
<1>3. /\ f \in [1..Len(ps) -> 1..Len(dq)]
      /\ \A i, j \in 1..Len(ps) : f[i] = f[j] => i = j
  BY DEF Injection, IsInjective
<1>4. PICK g : g = [i \in 1..(Len(ps) - n) |-> f[n + i]]
  OBVIOUS
<1>5. \A i \in 1..(Len(ps) - n) : n + i \in 1..Len(ps)
  OBVIOUS
<1>6. g \in [1..(Len(ps) - n) -> 1..Len(dq)]
  BY <1>3, <1>4, <1>5
<1>7. \A i, j \in 1..(Len(ps) - n) : g[i] = g[j] => i = j
  BY <1>3, <1>4, <1>5
<1>8. g \in Injection(1..(Len(ps) - n), 1..Len(dq))
  BY <1>6, <1>7 DEF Injection, IsInjective
<1>9. \A i \in 1..(Len(ps) - n) : dq[g[i]] = LiveAt(ps, t)[i]
  BY <1>1, <1>2, <1>4, <1>5
<1> QED
  BY <1>2, <1>8, <1>9 DEF Tracks

\* A hit more, with or without the request being let in.
LEMMA TracksMore ==
  ASSUME NEW ps \in Seq(Nat), NEW dq \in Seq(Nat), NEW t \in Nat, Tracks(ps, dq)
  PROVE  Tracks(ps, Append(dq, t)) /\ Tracks(Append(ps, t), Append(dq, t))
<1>1. PICK f \in Injection(1..Len(ps), 1..Len(dq)) : \A i \in 1..Len(ps) : dq[f[i]] = ps[i]
  BY DEF Tracks
<1>2. /\ f \in [1..Len(ps) -> 1..Len(dq)]
      /\ \A i, j \in 1..Len(ps) : f[i] = f[j] => i = j
  BY DEF Injection, IsInjective
<1>3. PICK d, p : d = Append(dq, t) /\ p = Append(ps, t)
  OBVIOUS
<1>4. /\ Len(d) = Len(dq) + 1 /\ d[Len(dq) + 1] = t
      /\ \A i \in 1..Len(dq) : d[i] = dq[i]
  BY <1>3
<1>5. /\ Len(p) = Len(ps) + 1 /\ p[Len(ps) + 1] = t
      /\ \A i \in 1..Len(ps) : p[i] = ps[i]
  BY <1>3
<1>6. Tracks(ps, d)
  <2>1. f \in Injection(1..Len(ps), 1..Len(d))
    <3>1. f \in [1..Len(ps) -> 1..Len(d)]
      BY <1>2, <1>4
    <3> QED
      BY <1>2, <3>1 DEF Injection, IsInjective
  <2>2. \A i \in 1..Len(ps) : d[f[i]] = ps[i]
    BY <1>1, <1>2, <1>4
  <2> QED
    BY <2>1, <2>2 DEF Tracks
<1>7. Tracks(p, d)
  <2>1. PICK g : g = [i \in 1..(Len(ps) + 1) |-> IF i \in 1..Len(ps) THEN f[i] ELSE Len(dq) + 1]
    OBVIOUS
  <2>2. \A i \in 1..Len(ps) : g[i] = f[i] /\ g[i] \in 1..Len(dq)
    BY <1>2, <2>1
  <2>3. g[Len(ps) + 1] = Len(dq) + 1
    BY <2>1
  <2>4. g \in [1..(Len(ps) + 1) -> 1..(Len(dq) + 1)]
    BY <1>2, <2>1
  <2>5. \A i, j \in 1..(Len(ps) + 1) : g[i] = g[j] => i = j
    <3>1. SUFFICES ASSUME NEW i \in 1..(Len(ps) + 1), NEW j \in 1..(Len(ps) + 1), g[i] = g[j]
                   PROVE  i = j
      OBVIOUS
    <3>2. i \in 1..Len(ps) \/ i = Len(ps) + 1
      OBVIOUS
    <3>3. j \in 1..Len(ps) \/ j = Len(ps) + 1
      OBVIOUS
    <3> QED
      BY <1>2, <2>2, <2>3, <3>1, <3>2, <3>3
  <2>6. g \in Injection(1..Len(p), 1..Len(d))
    BY <1>4, <1>5, <2>4, <2>5 DEF Injection, IsInjective
  <2>7. \A i \in 1..Len(p) : d[g[i]] = p[i]
    <3>1. SUFFICES ASSUME NEW i \in 1..Len(p)
                   PROVE  d[g[i]] = p[i]
      OBVIOUS
    <3>2. i \in 1..Len(ps) \/ i = Len(ps) + 1
      BY <1>5
    <3> QED
      BY <1>1, <1>4, <1>5, <2>2, <2>3, <3>2
  <2> QED
    BY <2>6, <2>7 DEF Tracks
<1> QED
  BY <1>3, <1>6, <1>7

\* There are no more requests let in than hits.
LEMMA TracksLen ==
  ASSUME NEW ps \in Seq(Nat), NEW dq \in Seq(Nat), Tracks(ps, dq)
  PROVE  Len(ps) <= Len(dq)
<1>1. PICK f : f \in Injection(1..Len(ps), 1..Len(dq))
  BY DEF Tracks
<1>2. /\ Cardinality(1..Len(ps)) = Len(ps) /\ Cardinality(1..Len(dq)) = Len(dq)
      /\ IsFiniteSet(1..Len(dq))
  BY PositionsCount
<1>3. Cardinality(1..Len(ps)) <= Cardinality(1..Len(dq))
  BY <1>1, <1>2, FS_Injection
<1> QED
  BY <1>2, <1>3

\* Requests in the order they were let in: the ones that are left are those of
\* the window, in that order.
LEMMA AscendingLive ==
  ASSUME NEW ps \in Seq(Nat), NEW t \in Nat, Ascending(ps), \A i \in 1..Len(ps) : ps[i] <= t
  PROVE  /\ Ascending(LiveAt(ps, t))
         /\ \A i \in 1..Len(LiveAt(ps, t)) :
              LiveAt(ps, t)[i] <= t /\ t - LiveAt(ps, t)[i] <= Window
<1>1. PICK n \in 0..Len(ps) :
        /\ n < Len(ps) => t - ps[n + 1] <= Window
        /\ LiveAt(ps, t) \in Seq(Nat) /\ Len(LiveAt(ps, t)) = Len(ps) - n
        /\ \A i \in 1..(Len(ps) - n) : LiveAt(ps, t)[i] = ps[n + i]
  BY LiveAtFacts
<1>2. \A i \in 1..(Len(ps) - n) : n + i \in 1..Len(ps)
  OBVIOUS
<1>3. Ascending(LiveAt(ps, t))
  <2>1. SUFFICES ASSUME NEW i \in 1..(Len(ps) - n), NEW j \in 1..(Len(ps) - n), i <= j
                 PROVE  LiveAt(ps, t)[i] <= LiveAt(ps, t)[j]
    BY <1>1 DEF Ascending
  <2>2. n + i \in 1..Len(ps) /\ n + j \in 1..Len(ps) /\ n + i <= n + j
    BY <2>1
  <2>3. ps[n + i] <= ps[n + j]
    BY <2>2 DEF Ascending
  <2> QED
    BY <1>1, <2>3
<1>4. ASSUME NEW i \in 1..(Len(ps) - n)
      PROVE  ps[n + i] <= t /\ t - ps[n + i] <= Window
  <2>1. n + i \in 1..Len(ps) /\ n + 1 \in 1..Len(ps) /\ n < Len(ps)
    OBVIOUS
  <2>2. ps[n + 1] \in Nat /\ ps[n + i] \in Nat /\ ps[n + 1] <= ps[n + i]
    BY <2>1 DEF Ascending
  <2>3. t - ps[n + 1] <= Window
    BY <1>1, <2>1
  <2> QED
    BY <2>1, <2>2, <2>3, QuotaAssumption
<1> QED
  BY <1>1, <1>3, <1>4

\* A request more, the latest, stays within the window and in order.
LEMMA AscendingMore ==
  ASSUME NEW ps \in Seq(Nat), NEW t \in Nat, Ascending(ps),
         \A i \in 1..Len(ps) : ps[i] <= t /\ t - ps[i] <= Window
  PROVE  /\ Append(ps, t) \in Seq(Nat) /\ Ascending(Append(ps, t))
         /\ \A i \in 1..Len(Append(ps, t)) :
              Append(ps, t)[i] <= t /\ t - Append(ps, t)[i] <= Window
<1>1. PICK p : p = Append(ps, t)
  OBVIOUS
<1>2. /\ p \in Seq(Nat) /\ Len(p) = Len(ps) + 1 /\ p[Len(ps) + 1] = t
      /\ \A i \in 1..Len(ps) : p[i] = ps[i] /\ p[i] \in Nat
  BY <1>1
<1>3. \A i \in 1..Len(p) : i \in 1..Len(ps) \/ i = Len(ps) + 1
  BY <1>2
<1>4. \A i \in 1..Len(p) : p[i] <= t /\ t - p[i] <= Window
  <2>1. SUFFICES ASSUME NEW i \in 1..Len(p)
                 PROVE  p[i] <= t /\ t - p[i] <= Window
    OBVIOUS
  <2>2. CASE i \in 1..Len(ps)
    BY <1>2, <2>2
  <2>3. CASE i = Len(ps) + 1
    BY <1>2, <2>3, QuotaAssumption
  <2> QED
    BY <1>3, <2>2, <2>3
<1>5. Ascending(p)
  <2>1. SUFFICES ASSUME NEW i \in 1..Len(p), NEW j \in 1..Len(p), i <= j
                 PROVE  p[i] <= p[j]
    BY DEF Ascending
  <2>2. CASE j \in 1..Len(ps)
    <3>1. i \in 1..Len(ps)
      BY <2>1, <2>2
    <3> QED
      BY <1>2, <2>1, <2>2, <3>1 DEF Ascending
  <2>3. CASE j = Len(ps) + 1
    BY <1>2, <1>4, <2>1, <2>3
  <2> QED
    BY <1>3, <2>2, <2>3
<1> QED
  BY <1>1, <1>2, <1>4, <1>5

\* What a key's entry in the hits becomes when check_rpm() lets it through: the
\* requests let in before keep their hits, and this one has its own.
LEMMA RegisterKeeps ==
  ASSUME RateInv, NEW k \in Keys, Register(k)
  PROVE  /\ hits' \in [Keys -> Seq(Nat)]
         /\ \A j \in Keys : j # k => hits'[j] = hits[j]
         /\ Tracks(passed[k], hits'[k])
         /\ Limited(k) => Tracks(Append(passed[k], now), hits'[k])
<1>1. /\ now \in Nat /\ hits \in [Keys -> Seq(Nat)]
      /\ hits[k] \in Seq(Nat) /\ passed[k] \in Seq(Nat)
      /\ Tracks(passed[k], hits[k]) /\ \A i \in 1..Len(passed[k]) : now - passed[k][i] <= Window
  BY DEF RateInv, RateTypes, KeyInv
<1>2. CASE ~Limited(k)
  BY <1>1, <1>2 DEF Register
<1>3. CASE Limited(k)
  <2>1. PICK l : l = Live(hits[k])
    OBVIOUS
  <2>2. l \in Seq(Nat)
    BY <1>1, <2>1, LiveAtFacts DEF Live
  <2>3. Tracks(passed[k], l)
    BY <1>1, <2>1, TracksLive DEF Live
  <2>4. hits' = [hits EXCEPT ![k] = Append(l, now)]
    BY <1>3, <2>1 DEF Register
  <2>5. Append(l, now) \in Seq(Nat)
    BY <1>1, <2>2
  <2>6. hits' \in [Keys -> Seq(Nat)] /\ hits'[k] = Append(l, now)
    BY <1>1, <2>4, <2>5
  <2>7. \A j \in Keys : j # k => hits'[j] = hits[j]
    BY <1>1, <2>4
  <2> QED
    BY <1>1, <2>2, <2>3, <2>6, <2>7, TracksMore
<1> QED
  BY <1>2, <1>3

\* A key the step does not touch.
LEMMA OtherKeys ==
  ASSUME RateInv, NEW j \in Keys, now' = now, limits'[j] = limits[j], hits'[j] = hits[j],
         passed'[j] = passed[j], promise'[j] = promise[j]
  PROVE  KeyInv(j)'
  BY DEF RateInv, KeyInv, Limited, Ascending, Tracks

\* Rounding to a tenth takes at most half a tenth away.
LEMMA RoundedNear ==
  ASSUME NEW t \in Nat
  PROVE  Rounded(t) \in Nat /\ 2 * (t - Rounded(t)) <= Grain
<1>1. PICK q : q = t \div Grain
  OBVIOUS
<1>2. PICK o : o = t % Grain
  OBVIOUS
<1>3. PICK low : low = Grain * q
  OBVIOUS
<1>4. q \in Nat /\ t = Grain * q + o /\ o \in 0..(Grain - 1)
  BY <1>1, <1>2, QuotaAssumption
<1>5. low \in Nat /\ Grain * (q + 1) = low + Grain /\ t = low + o
  BY <1>3, <1>4, QuotaAssumption
<1>6. Rounded(t) = IF 2 * o < Grain \/ (2 * o = Grain /\ q % 2 = 0)
                   THEN low ELSE low + Grain
  BY <1>1, <1>2, <1>3, <1>5 DEF Rounded
<1> QED
  BY <1>4, <1>5, <1>6, QuotaAssumption

\* check_rpm() refuses: the window is full, and Retry-After runs to the end of
\* its oldest hit, give or take the rounding.
LEMMA TooManyKeeps ==
  ASSUME RateInv, NEW k \in Keys, TooMany(k), UNCHANGED <<now, limits>>
  PROVE  RateInv'
<1>1. PICK l : l = Live(hits[k])
  OBVIOUS
<1>2. PICK p : p = IF Len(l) = limits[k].rpm THEN now + Retry(k) ELSE 0
  OBVIOUS
<1>3. /\ hits' = [hits EXCEPT ![k] = l] /\ promise' = [promise EXCEPT ![k] = p]
      /\ passed' = passed /\ Limited(k)
  BY <1>1, <1>2 DEF TooMany, RefuseHit, OverRpm
<1>4. /\ now \in Nat /\ hits \in [Keys -> Seq(Nat)] /\ promise \in [Keys -> Nat]
      /\ hits[k] \in Seq(Nat) /\ passed[k] \in Seq(Nat) /\ passed \in [Keys -> Seq(Nat)]
      /\ Tracks(passed[k], hits[k]) /\ \A i \in 1..Len(passed[k]) : now - passed[k][i] <= Window
      /\ limits[k].rpm \in Nat /\ limits \in [Keys -> Limits]
  BY QuotaAssumption DEF RateInv, RateTypes, KeyInv
<1>5. l \in Seq(Nat)
  BY <1>1, <1>4, LiveAtFacts DEF Live
<1>6. Tracks(passed[k], l)
  BY <1>1, <1>4, TracksLive DEF Live
<1>7. p \in Nat /\ (p > 0 => Len(l) = limits[k].rpm /\ 2 * (l[1] + Window - p) <= Grain)
  <2>1. CASE Len(l) = limits[k].rpm
    <3>1. 1 \in 1..Len(l)
      BY <1>3, <1>4, <1>5, <2>1 DEF Limited
    <3>2. Head(l) = l[1] /\ l[1] \in Nat
      BY <1>5, <3>1
    <3>3. PICK w : w = Window - (now - l[1])
      OBVIOUS
    <3>4. w \in Nat
      <4>1. now - l[1] <= Window
        BY <1>1, <1>4, <1>5, <3>1, FirstIsLive DEF Live
      <4> QED BY <1>4, <3>2, <3>3, <4>1, QuotaAssumption
    <3>5. Rounded(w) \in Nat /\ 2 * (w - Rounded(w)) <= Grain
      BY <3>4, RoundedNear
    <3>6. p = now + Rounded(w)
      BY <1>1, <1>2, <2>1, <3>2, <3>3 DEF Retry
    <3>7. PICK x, r \in Nat : x = l[1] /\ r = Rounded(w)
      BY <3>2, <3>5
    <3>8. w = Window - (now - x) /\ p = now + r /\ 2 * (w - r) <= Grain
      BY <3>3, <3>5, <3>6, <3>7
    <3>9. p \in Nat /\ 2 * (x + Window - p) <= Grain
      <4>1. Window \in Nat /\ Grain \in Nat /\ now \in Nat /\ w \in Nat
        BY <1>4, <3>4, QuotaAssumption
      <4>2. p \in Nat /\ x + Window - p = w - r
        BY <3>7, <3>8, <4>1
      <4> QED BY <3>8, <4>2
    <3> QED
      BY <2>1, <3>7, <3>9
  <2>2. CASE Len(l) # limits[k].rpm
    BY <1>2, <2>2
  <2> QED
    BY <2>1, <2>2
<1>8. RateTypes'
  BY <1>3, <1>4, <1>5, <1>7 DEF RateTypes
<1>9. hits'[k] = l /\ promise'[k] = p
  BY <1>3, <1>4
<1>10. KeyInv(k)'
  BY <1>3, <1>6, <1>7, <1>9 DEF RateInv, KeyInv, Limited, Ascending, Tracks
<1>11. \A j \in Keys : j # k => hits'[j] = hits[j] /\ promise'[j] = promise[j]
  BY <1>3, <1>4
<1>12. \A j \in Keys : j # k => KeyInv(j)'
  BY <1>3, <1>11, OtherKeys
<1> QED
  BY <1>8, <1>10, <1>12 DEF RateInv

\* check_rpm() lets it through, and a budget refuses it or it is let in.
LEMMA RegisteredKeeps ==
  ASSUME RateInv, NEW k \in Keys, TooDear(k) \/ LetIn(k), UNCHANGED <<now, limits>>
  PROVE  RateInv'
<1>1. Register(k) /\ promise' = [promise EXCEPT ![k] = 0]
  BY DEF TooDear, LetIn
<1>2. /\ hits' \in [Keys -> Seq(Nat)]
      /\ \A j \in Keys : j # k => hits'[j] = hits[j]
      /\ Tracks(passed[k], hits'[k])
      /\ Limited(k) => Tracks(Append(passed[k], now), hits'[k])
  BY <1>1, RegisterKeeps
<1>3. /\ now \in Nat /\ limits \in [Keys -> Limits] /\ passed \in [Keys -> Seq(Nat)]
      /\ promise \in [Keys -> Nat]
      /\ passed[k] \in Seq(Nat) /\ Ascending(passed[k])
      /\ \A i \in 1..Len(passed[k]) : passed[k][i] <= now /\ now - passed[k][i] <= Window
  BY DEF RateInv, RateTypes, KeyInv
<1>4. PICK a : a = Append(passed[k], now)
  OBVIOUS
<1>5. /\ a \in Seq(Nat) /\ Ascending(a)
      /\ \A i \in 1..Len(a) : a[i] <= now /\ now - a[i] <= Window
  BY <1>3, <1>4, AscendingMore
<1>6. passed' = passed \/ (Limited(k) /\ passed' = [passed EXCEPT ![k] = a])
  <2>1. CASE TooDear(k)
    BY <2>1 DEF TooDear
  <2>2. CASE LetIn(k)
    BY <1>3, <1>4, <2>2 DEF LetIn
  <2> QED
    BY <2>1, <2>2
<1>7. /\ passed' \in [Keys -> Seq(Nat)]
      /\ \A j \in Keys : j # k => passed'[j] = passed[j]
      /\ passed'[k] = passed[k] \/ (Limited(k) /\ passed'[k] = a)
  BY <1>3, <1>5, <1>6
<1>8. /\ promise' \in [Keys -> Nat] /\ promise'[k] = 0
      /\ \A j \in Keys : j # k => promise'[j] = promise[j]
  BY <1>1, <1>3
<1>9. RateTypes'
  BY <1>2, <1>3, <1>7, <1>8 DEF RateTypes
<1>10. Tracks(passed'[k], hits'[k])
  BY <1>2, <1>4, <1>7
<1>11. /\ Ascending(passed'[k])
       /\ \A i \in 1..Len(passed'[k]) : passed'[k][i] <= now /\ now - passed'[k][i] <= Window
  BY <1>3, <1>5, <1>7
<1>12. KeyInv(k)'
  BY <1>8, <1>10, <1>11 DEF KeyInv, Ascending, Tracks
<1>13. \A j \in Keys : j # k => KeyInv(j)'
  BY <1>2, <1>7, <1>8, OtherKeys
<1> QED
  BY <1>9, <1>12, <1>13 DEF RateInv

\* An edit, or a new worker: nothing of the key's is promised any more.
LEMMA ResetKeeps ==
  ASSUME RateInv, Restart \/ \E k \in Keys : Configure(k)
  PROVE  RateInv'
<1>1. CASE Restart
  <2>1. /\ hits' = [k \in Keys |-> <<>>] /\ passed' = [k \in Keys |-> <<>>]
        /\ promise' = [k \in Keys |-> 0] /\ UNCHANGED <<now, limits>>
    BY <1>1 DEF Restart
  <2>2. RateTypes'
    BY <2>1 DEF RateInv, RateTypes
  <2>3. ASSUME NEW k \in Keys
        PROVE  KeyInv(k)'
    <3>1. passed'[k] = <<>> /\ hits'[k] = <<>> /\ promise'[k] = 0
      BY <2>1
    <3>2. Len(passed'[k]) = 0 /\ Len(hits'[k]) = 0
      BY <3>1
    <3>3. PICK f : f = [i \in 1..0 |-> i]
      OBVIOUS
    <3>4. f \in Injection(1..0, 1..0)
      BY <3>3 DEF Injection, IsInjective
    <3>5. Tracks(passed[k], hits[k])'
      BY <3>2, <3>4 DEF Tracks
    <3> QED
      BY <3>1, <3>2, <3>5 DEF KeyInv, Ascending
  <2> QED
    BY <2>2, <2>3 DEF RateInv
<1>2. ASSUME NEW k \in Keys, Configure(k)
      PROVE  RateInv'
  <2>1. PICK l \in Limits : limits' = [limits EXCEPT ![k] = l]
    BY <1>2 DEF Configure
  <2>2. promise' = [promise EXCEPT ![k] = 0] /\ UNCHANGED <<now, hits, passed>>
    BY <1>2 DEF Configure
  <2>3. RateTypes'
    BY <2>1, <2>2 DEF RateInv, RateTypes
  <2>4. promise'[k] = 0 /\ \A j \in Keys : j # k => promise'[j] = promise[j]
    BY <2>2 DEF RateInv, RateTypes
  <2>5. \A j \in Keys : j # k => limits'[j] = limits[j]
    BY <2>1 DEF RateInv, RateTypes
  <2>6. KeyInv(k)'
    BY <2>2, <2>4 DEF RateInv, KeyInv, Ascending, Tracks
  <2>7. \A j \in Keys : j # k => KeyInv(j)'
    BY <2>2, <2>4, <2>5, OtherKeys
  <2> QED
    BY <2>3, <2>6, <2>7 DEF RateInv
<1> QED
  BY <1>1, <1>2

\* The clock: only what the history still shows changes.
LEMMA TickKeeps ==
  ASSUME RateInv, Tick
  PROVE  RateInv'
<1>1. /\ now' = now + 1 /\ UNCHANGED <<limits, hits, promise>>
      /\ passed' = [k \in Keys |-> LiveAt(passed[k], now')]
  BY DEF Tick
<1>2. ASSUME NEW k \in Keys
      PROVE  passed'[k] \in Seq(Nat) /\ KeyInv(k)'
  <2>1. /\ passed[k] \in Seq(Nat) /\ hits[k] \in Seq(Nat) /\ now \in Nat /\ now' \in Nat
        /\ Ascending(passed[k]) /\ Tracks(passed[k], hits[k])
        /\ \A i \in 1..Len(passed[k]) : passed[k][i] \in Nat /\ passed[k][i] <= now
    BY <1>1 DEF RateInv, RateTypes, KeyInv
  <2>2. \A i \in 1..Len(passed[k]) : passed[k][i] <= now'
    BY <1>1, <2>1
  <2>3. PICK l : l = LiveAt(passed[k], now')
    OBVIOUS
  <2>4. l \in Seq(Nat)
    BY <2>1, <2>3, LiveAtFacts
  <2>5. Ascending(l) /\ \A i \in 1..Len(l) : l[i] <= now' /\ now' - l[i] <= Window
    BY <2>1, <2>2, <2>3, AscendingLive
  <2>6. Tracks(l, hits[k])
    BY <2>1, <2>3, TracksFewer
  <2>7. passed'[k] = l
    BY <1>1, <2>3
  <2> QED
    BY <1>1, <2>4, <2>5, <2>6, <2>7 DEF RateInv, KeyInv, Limited, Ascending, Tracks
<1>3. passed' \in [Keys -> Seq(Nat)]
  BY <1>1, <1>2
<1>4. RateTypes'
  BY <1>1, <1>3 DEF RateInv, RateTypes
<1> QED
  BY <1>2, <1>4 DEF RateInv

\* Every step keeps the invariant.
LEMMA RateStep ==
  ASSUME RateInv, [Next]_vars
  PROVE  RateInv'
<1>1. ASSUME UNCHANGED <<now, limits, hits, passed, promise>>
      PROVE  RateInv'
  <2>1. RateTypes'
    BY <1>1 DEF RateInv, RateTypes
  <2>2. \A j \in Keys : KeyInv(j)'
    BY <1>1, OtherKeys
  <2> QED
    BY <2>1, <2>2 DEF RateInv
<1>2. ASSUME NEW k \in Keys, Arrive(k)
      PROVE  RateInv'
  BY <1>2, TooManyKeeps, RegisteredKeeps DEF Arrive
<1>3. ASSUME NEW k \in Keys, Warn(k) \/ Finish(k)
      PROVE  RateInv'
  BY <1>1, <1>3 DEF Warn, Finish
<1>4. CASE Commit \/ ClearUsage \/ UNCHANGED vars
  BY <1>1, <1>4 DEF Commit, ClearUsage, vars
<1> QED
  BY <1>2, <1>3, <1>4, TickKeeps, ResetKeeps DEF Next

\* The first state has no hits and no promises.
LEMMA RateStarts == Init => RateInv
<1> SUFFICES ASSUME Init
             PROVE  RateInv
  OBVIOUS
<1>1. RateTypes
  BY DEF Init, RateTypes
<1>2. ASSUME NEW k \in Keys
      PROVE  KeyInv(k)
  <2>1. passed[k] = <<>> /\ hits[k] = <<>> /\ promise[k] = 0
    BY DEF Init
  <2>2. Len(passed[k]) = 0 /\ Len(hits[k]) = 0
    BY <2>1
  <2>3. PICK f : f = [i \in 1..0 |-> i]
    OBVIOUS
  <2>4. f \in Injection(1..0, 1..0)
    BY <2>3 DEF Injection, IsInjective
  <2>5. Tracks(passed[k], hits[k])
    BY <2>2, <2>4 DEF Tracks
  <2> QED
    BY <2>1, <2>2, <2>5 DEF KeyInv, Ascending
<1> QED
  BY <1>1, <1>2 DEF RateInv

-----------------------------------------------------------------------------
(* check_rpm() returns None only below the limit, and every request let in   *)
(* within the window has its own hit among those it counted.                 *)
LEMMA LetInBelowLimit ==
  ASSUME RateInv, Next, NEW k \in Keys, LetsIn(k), Limited(k)
  PROVE  Len(passed[k]) < limits[k].rpm
<1>1. ASSUME ~\E j \in Keys : Arrive(j)
      PROVE  answer' = Silence
  BY <1>1 DEF Next, Warn, Finish, Configure, Commit, Tick, ClearUsage, Restart
<1>2. answer'.status = 200 /\ answer'.key = k
  BY DEF LetsIn
<1>3. PICK j \in Keys : Arrive(j)
  BY <1>1, <1>2 DEF Silence
<1>4. LetIn(k)
  BY <1>2, <1>3 DEF Arrive, TooMany, TooDear, LetIn
<1>5. /\ hits[k] \in Seq(Nat) /\ passed[k] \in Seq(Nat) /\ now \in Nat
      /\ Tracks(passed[k], hits[k]) /\ \A i \in 1..Len(passed[k]) : now - passed[k][i] <= Window
      /\ limits[k].rpm \in Nat
  BY QuotaAssumption DEF RateInv, RateTypes, KeyInv
<1>6. Live(hits[k]) \in Seq(Nat)
  BY <1>5, LiveAtFacts DEF Live
<1>7. Tracks(passed[k], Live(hits[k]))
  BY <1>5, TracksLive DEF Live
<1>8. Len(passed[k]) <= Len(Live(hits[k]))
  BY <1>5, <1>6, <1>7, TracksLen
<1>9. ~(Len(Live(hits[k])) >= limits[k].rpm)
  BY <1>4 DEF LetIn, OverRpm
<1>10. Len(passed[k]) \in Nat /\ Len(Live(hits[k])) \in Nat
  BY <1>5, <1>6
<1> QED
  BY <1>5, <1>8, <1>9, <1>10

\* What the history keeps of the workers that are gone are ticks.
BeforeInv == before \in [Keys -> Seq(Nat)]

LEMMA BeforeStep ==
  ASSUME RateInv, BeforeInv, [Next]_vars
  PROVE  BeforeInv'
<1>1. CASE Tick
  <2>1. before' = [k \in Keys |-> LiveAt(before[k], now')] /\ now' \in Nat
    BY <1>1 DEF Tick, RateInv, RateTypes
  <2>2. ASSUME NEW k \in Keys
        PROVE  LiveAt(before[k], now') \in Seq(Nat)
    <3>1. before[k] \in Seq(Nat)
      BY DEF BeforeInv
    <3> QED
      BY <2>1, <3>1, LiveAtFacts
  <2> QED
    BY <2>1, <2>2 DEF BeforeInv
<1>2. CASE Restart
  <2>1. before' = [k \in Keys |-> before[k] \o passed[k]]
    BY <1>2 DEF Restart
  <2>2. ASSUME NEW k \in Keys
        PROVE  before[k] \o passed[k] \in Seq(Nat)
    <3>1. before[k] \in Seq(Nat) /\ passed[k] \in Seq(Nat)
      BY DEF BeforeInv, RateInv, RateTypes
    <3> QED
      BY <3>1, ConcatProperties
  <2> QED
    BY <2>1, <2>2 DEF BeforeInv
<1>3. CASE ~Tick /\ ~Restart
  <2>1. UNCHANGED before
    BY <1>3 DEF Next, Arrive, Warn, Finish, Commit, Configure, ClearUsage, vars
  <2> QED
    BY <2>1 DEF BeforeInv
<1> QED
  BY <1>1, <1>2, <1>3

\* Within any window, whatever restarts fall into it, a limited key makes no more than
\* its limit of requests and those it made of workers that are gone (check_rpm).
THEOREM RateLimit == Spec => RpmHolds
<1>1. Init => RateInv /\ BeforeInv
  <2>1. ASSUME Init
        PROVE  BeforeInv
    BY <2>1 DEF Init, BeforeInv
  <2> QED
    BY <2>1, RateStarts
<1>2. RateInv /\ BeforeInv /\ [Next]_vars => RateInv' /\ BeforeInv'
  BY RateStep, BeforeStep
<1>3. RateInv /\ BeforeInv /\ [Next]_vars =>
        [\A k \in Keys : LetsIn(k) /\ Limited(k)
            => Len(InWindow(k)) < limits[k].rpm + Len(before[k])]_vars
  <2>1. ASSUME RateInv, BeforeInv, Next, NEW k \in Keys, LetsIn(k), Limited(k)
        PROVE  Len(InWindow(k)) < limits[k].rpm + Len(before[k])
    <3>1. before[k] \in Seq(Nat) /\ passed[k] \in Seq(Nat)
      BY <2>1 DEF BeforeInv, RateInv, RateTypes
    <3>2. /\ Len(InWindow(k)) = Len(before[k]) + Len(passed[k])
          /\ Len(before[k]) \in Nat /\ Len(passed[k]) \in Nat
      BY <3>1, ConcatProperties DEF InWindow
    <3>3. limits[k].rpm \in Nat
      BY <2>1, QuotaAssumption DEF RateInv, RateTypes
    <3>4. Len(passed[k]) < limits[k].rpm
      BY <2>1, LetInBelowLimit
    <3>5. PICK b, p, r \in Nat :
            b = Len(before[k]) /\ p = Len(passed[k]) /\ r = limits[k].rpm
      <4>1. PICK b \in Nat : b = Len(before[k])
        BY <3>2
      <4>2. PICK p \in Nat : p = Len(passed[k])
        BY <3>2
      <4>3. PICK r \in Nat : r = limits[k].rpm
        BY <3>3
      <4> QED
        BY <4>1, <4>2, <4>3
    <3>6. p < r
      BY <3>4, <3>5
    <3>7. b + p < r + b
      BY <3>6
    <3>8. Len(InWindow(k)) = b + p /\ limits[k].rpm + Len(before[k]) = r + b
      BY <3>2, <3>5
    <3> QED
      BY <3>7, <3>8
  <2> QED
    BY <2>1
<1> QED
  BY <1>1, <1>2, <1>3, PTL DEF Spec, RpmHolds

\* The hit a refused client waits for is dropped when it comes back, so one place
\* in the window is free.
LEMMA OldestIsGone ==
  ASSUME RateInv, NEW k \in Keys, promise[k] > 0, 2 * (now - promise[k]) > Grain
  PROVE  ~OverRpm(k)
<1>1. /\ hits[k] \in Seq(Nat) /\ now \in Nat /\ limits[k].rpm \in Nat
      /\ limits[k].rpm > 0 /\ Len(hits[k]) = limits[k].rpm
      /\ 2 * (hits[k][1] + Window - promise[k]) <= Grain /\ promise[k] \in Nat
  BY QuotaAssumption DEF RateInv, RateTypes, KeyInv, Limited
<1>2. PICK n \in 0..Len(hits[k]) :
        /\ n < Len(hits[k]) => now - hits[k][n + 1] <= Window
        /\ Len(LiveAt(hits[k], now)) = Len(hits[k]) - n
  BY <1>1, LiveAtFacts
<1>3. hits[k][1] \in Nat
  BY <1>1
<1>4. n # 0
  <2>1. PICK h, t \in Nat : h = hits[k][1] /\ t = promise[k]
    BY <1>1, <1>3
  <2>2. 2 * (h + Window - t) <= Grain /\ 2 * (now - t) > Grain
    BY <1>1, <2>1
  <2>3. Window \in Nat /\ Grain \in Nat /\ now \in Nat
    BY <1>1, QuotaAssumption
  <2>4. ~(now - h <= Window)
    BY <2>1, <2>2, <2>3
  <2> QED
    BY <1>1, <1>2, <2>1, <2>4
<1>5. Len(Live(hits[k])) < limits[k].rpm
  BY <1>1, <1>2, <1>4 DEF Live
<1>6. Len(Live(hits[k])) \in Int
  BY <1>1, <1>2 DEF Live
<1> QED
  BY <1>1, <1>5, <1>6 DEF OverRpm

\* A client told Retry-After that comes back more than half a tenth of a second
\* later, which is what rounding may have taken from it, finds the window open.
THEOREM RetryAfterHolds == Spec => []RetryAfterIsEnough
<1>1. Init => RateInv
  BY RateStarts
<1>2. RateInv /\ [Next]_vars => RateInv'
  BY RateStep
<1>3. RateInv => RetryAfterIsEnough
  BY OldestIsGone DEF RetryAfterIsEnough
<1> QED
  BY <1>1, <1>2, <1>3, PTL DEF Spec
=============================================================================
