------------------------- MODULE ResponseCacheProofs -------------------------
(***************************************************************************)
(* For any number of fingerprints, any capacities and TTLs: the response   *)
(* cache never replays a body that is older than the TTL in force, its     *)
(* table is within its limit whenever the writer has caught up, and its    *)
(* memory is an LRU of at most MemCapacity entries, one for each key.      *)
(***************************************************************************)
EXTENDS ResponseCache, FiniteSetTheorems, TLAPS

\* An entry that is as old as its body.
Good == {e \in Entry : e.body = e.created}

GoodRow       == [entry : Good, used : Nat]
GoodStatement == [do : {"insert"}, key : Keys, row : GoodRow]
                   \union [do : {"bump"}, key : Keys, used : Nat]
                   \union [do : {"delete"}, key : Keys] \union [do : {"trim"}]

\* The inductive invariant: whatever the memory, the table or the writer's
\* queue holds is as old as its body, so an expiry measured on `created' is one
\* measured on the body, wherever the entry was read from.
Sound ==
  /\ now \in Nat /\ ttl \in TTLs
  /\ mem \subseteq Good /\ rows \subseteq GoodRow /\ queue \in Seq(GoodStatement)

IInv == Sound /\ ReplayWithinTTL

\* An entry that has not expired is younger than the TTL in force.
LEMMA FreshIsYoung ==
  ASSUME NEW e \in Good, ~Expired(e), now \in Nat, ttl \in TTLs
  PROVE  ttl > 0 => now - e.body <= ttl
<1>1. ttl \in Nat /\ e.ttl \in Nat /\ e.created \in Nat /\ e.body = e.created
  BY CacheAssumption DEF Good, Entry
<1>2. Effective(e) \in Nat /\ (ttl > 0 => Effective(e) > 0 /\ Effective(e) <= ttl)
  BY <1>1 DEF Effective
<1>3. ttl > 0 => now - e.created <= Effective(e)
  BY <1>1, <1>2 DEF Expired
<1> QED
  BY <1>1, <1>2, <1>3

\* Putting a sound entry into the memory keeps the memory sound.
LEMMA PutIsSound ==
  ASSUME mem \subseteq Good, NEW e \in Good, Put(e)
  PROVE  mem' \subseteq Good
  BY DEF Put

\* Statements about sound entries keep the queue sound.
LEMMA EnqueueIsSound ==
  ASSUME queue \in Seq(GoodStatement), NEW s \in Seq(GoodStatement), Enqueue(s)
  PROVE  queue' \in Seq(GoodStatement)
  BY DEF Enqueue

\* The four statements are sound.
LEMMA StatementsAreSound ==
  ASSUME now \in Nat, NEW k \in Keys
  PROVE  /\ <<Bump(k)>> \in Seq(GoodStatement) /\ <<Delete(k)>> \in Seq(GoodStatement)
         /\ \A e \in Good : e.key = k => Stored(e) \in Seq(GoodStatement)
<1>1. Bump(k) \in GoodStatement /\ Delete(k) \in GoodStatement /\ Trim \in GoodStatement
  BY DEF Bump, Delete, Trim, GoodStatement
<1>2. ASSUME NEW e \in Good, e.key = k
      PROVE  Insert(e) \in GoodStatement
  BY <1>2 DEF Insert, GoodStatement, GoodRow
<1>3. ASSUME NEW e \in Good, e.key = k
      PROVE  Stored(e) \in Seq(GoodStatement)
  BY <1>1, <1>2, <1>3 DEF Stored
<1> QED
  BY <1>1, <1>3

\* Whatever a sound statement does to the table keeps it sound.
LEMMA AfterIsSound ==
  ASSUME rows \subseteq GoodRow, NEW q \in GoodStatement, NEW table \in After(q)
  PROVE  table \subseteq GoodRow
<1>1. CASE q.do = "insert"
  <2>1. q.row \in GoodRow
    BY <1>1 DEF GoodStatement
  <2>2. table = Without(q.key) \union {q.row}
    BY <1>1 DEF After
  <2> QED
    BY <2>1, <2>2 DEF Without
<1>2. CASE q.do = "bump"
  <2>1. q.used \in Nat
    BY <1>2 DEF GoodStatement
  <2>2. table = Without(q.key) \union {[r EXCEPT !.used = q.used] : r \in Of(q.key, rows)}
    BY <1>2 DEF After
  <2>3. ASSUME NEW r \in rows
        PROVE  [r EXCEPT !.used = q.used] \in GoodRow
    BY <2>1 DEF GoodRow
  <2> QED
    BY <2>2, <2>3 DEF Without, Of
<1>3. CASE q.do = "delete"
  BY <1>3 DEF After, Without
<1>4. CASE q.do = "trim"
  BY <1>4 DEF After
<1> QED
  BY <1>1, <1>2, <1>3, <1>4 DEF GoodStatement

-----------------------------------------------------------------------------
(* One lemma for each action that moves entries. *)

\* lookup(): what it replays was found sound and fresh.
LEMMA LookupKeeps ==
  ASSUME IInv, NEW k \in Keys, Lookup(k)
  PROVE  IInv'
<1>1. now' = now /\ ttl' = ttl /\ rows' = rows
  BY DEF Lookup
<1>2. ASSUME NEW e \in Good, e.key \in Keys, ~Expired(e), Replay(e)
      PROVE  queue' \in Seq(GoodStatement) /\ ReplayWithinTTL'
  <2>1. answer' = {e} /\ Enqueue(<<Bump(e.key)>>)
    BY <1>2 DEF Replay
  <2>2. queue' \in Seq(GoodStatement)
    BY <1>2, <2>1, StatementsAreSound, EnqueueIsSound DEF IInv, Sound
  <2>3. ttl > 0 => now - e.body <= ttl
    BY <1>2, FreshIsYoung DEF IInv, Sound
  <2> QED
    BY <1>1, <2>1, <2>2, <2>3 DEF ReplayWithinTTL
<1>3. ASSUME NEW e \in Good, e.key \in Keys, Miss(e.key), Enqueue(<<Delete(e.key)>>)
      PROVE  queue' \in Seq(GoodStatement) /\ ReplayWithinTTL'
  <2>1. queue' \in Seq(GoodStatement)
    BY <1>3, StatementsAreSound, EnqueueIsSound DEF IInv, Sound
  <2> QED
    BY <1>3, <2>1 DEF Miss, ReplayWithinTTL
<1>4. ASSUME NEW e \in Held(k), FromMemory(e)
      PROVE  IInv'
  <2>1. e \in Good /\ e.key \in Keys
    BY <1>4 DEF Held, IInv, Sound, Good, Entry
  <2>2. mem' \subseteq mem
    BY <1>4 DEF FromMemory
  <2>3. queue' \in Seq(GoodStatement) /\ ReplayWithinTTL'
    BY <1>2, <1>3, <1>4, <2>1 DEF FromMemory
  <2> QED
    BY <1>1, <2>2, <2>3 DEF IInv, Sound
<1>5. ASSUME NEW r \in Of(k, rows), FromTable(r.entry)
      PROVE  IInv'
  <2>1. r.entry \in Good /\ r.entry.key \in Keys
    BY <1>5 DEF Of, IInv, Sound, GoodRow, Good, Entry
  <2>2. mem' \subseteq Good
    BY <1>5, <2>1, PutIsSound DEF FromTable, IInv, Sound
  <2>3. queue' \in Seq(GoodStatement) /\ ReplayWithinTTL'
    BY <1>2, <1>3, <1>5, <2>1 DEF FromTable
  <2> QED
    BY <1>1, <2>2, <2>3 DEF IInv, Sound
<1>6. CASE Held(k) = {} /\ Miss(k) /\ UNCHANGED <<mem, recent, queue>>
  BY <1>1, <1>6 DEF Miss, IInv, Sound, ReplayWithinTTL
<1> QED
  BY <1>4, <1>5, <1>6 DEF Lookup

\* store(): the new entry is as old as its body.
LEMMA StoreKeeps ==
  ASSUME IInv, NEW k \in Keys, Store(k)
  PROVE  IInv'
<1> DEFINE e == [key |-> k, body |-> now, created |-> now, ttl |-> ttl]
<1>1. e \in Good /\ e.key = k
  BY DEF Good, Entry, IInv, Sound
<1>2. Put(e) /\ Enqueue(Stored(e)) /\ answer' = {} /\ UNCHANGED <<now, ttl, rows>>
  BY DEF Store
<1> HIDE DEF e
<1>3. mem' \subseteq Good
  BY <1>1, <1>2, PutIsSound DEF IInv, Sound
<1>4. queue' \in Seq(GoodStatement)
  BY <1>1, <1>2, StatementsAreSound, EnqueueIsSound DEF IInv, Sound
<1> QED
  BY <1>2, <1>3, <1>4 DEF IInv, Sound, ReplayWithinTTL

\* The writer: a sound statement at a time.
LEMMA WriteKeeps ==
  ASSUME IInv, Write
  PROVE  IInv'
<1>1. Head(queue) \in GoodStatement /\ queue' \in Seq(GoodStatement)
  BY DEF Write, IInv, Sound
<1>2. rows' \subseteq GoodRow
  BY <1>1, AfterIsSound DEF Write, IInv, Sound
<1> QED
  BY <1>1, <1>2 DEF Write, IInv, Sound, ReplayWithinTTL

\* What only empties or leaves alone.
LEMMA OthersKeep ==
  ASSUME IInv, (\E k \in Keys : Abandon(k)) \/ Clear \/ Restart \/ Configure \/ Tick
  PROVE  IInv'
<1>1. now' \in Nat /\ ttl' \in TTLs
  BY DEF Abandon, Clear, Restart, Configure, Tick, IInv, Sound
<1>2. mem' \subseteq mem /\ rows' \subseteq rows /\ queue' \in {queue, <<>>} /\ answer' = {}
  BY DEF Abandon, Clear, Restart, Configure, Tick
<1>3. mem' \subseteq Good /\ rows' \subseteq GoodRow
  BY <1>2 DEF IInv, Sound
<1>4. queue' \in Seq(GoodStatement)
  <2>1. queue \in Seq(GoodStatement) /\ <<>> \in Seq(GoodStatement)
    BY DEF IInv, Sound
  <2> QED
    BY <1>2, <2>1
<1>5. ReplayWithinTTL'
  BY <1>2 DEF ReplayWithinTTL
<1> QED
  BY <1>1, <1>3, <1>4, <1>5 DEF IInv, Sound

-----------------------------------------------------------------------------
\* Every step keeps what is held as old as its body, and what is replayed fresh.
LEMMA SoundKept == IInv /\ [Next]_vars => IInv'
<1> SUFFICES ASSUME IInv, [Next]_vars PROVE IInv'
  OBVIOUS
<1>1. ASSUME NEW k \in Keys, Lookup(k) \/ Store(k) \/ Abandon(k)
      PROVE  IInv'
  BY <1>1, LookupKeeps, StoreKeeps, OthersKeep
<1>2. CASE Write
  BY <1>2, WriteKeeps
<1>3. CASE Clear \/ Restart \/ Configure \/ Tick
  BY <1>3, OthersKeep
<1>4. CASE UNCHANGED vars
  BY <1>4 DEF vars, IInv, Sound, ReplayWithinTTL
<1> QED
  BY <1>1, <1>2, <1>3, <1>4 DEF Next

\* respcache.py:18: an entry can never outlive its TTL.
THEOREM WithinTTL == Spec => []ReplayWithinTTL
<1>1. Init => IInv
  BY DEF Init, IInv, Sound, ReplayWithinTTL
<1>2. IInv => ReplayWithinTTL
  BY DEF IInv
<1> QED
  BY <1>1, <1>2, SoundKept, PTL DEF Spec

-----------------------------------------------------------------------------
(* The order of the memory. *)

Distinct(s) == \A i, j \in DOMAIN s : s[i] = s[j] => i = j
KeysIn(s)   == {s[i] : i \in DOMAIN s}

\* Dropping a key takes it from the order, and nothing else.
LEMMA DropFacts ==
  ASSUME NEW s \in Seq(Keys), Distinct(s), NEW k
  PROVE  /\ Drop(k, s) \in Seq(Keys) /\ Distinct(Drop(k, s))
         /\ KeysIn(Drop(k, s)) = KeysIn(s) \ {k}
         /\ Len(Drop(k, s)) = IF k \in KeysIn(s) THEN Len(s) - 1 ELSE Len(s)
<1>1. CASE k \notin KeysIn(s)
  <2>1. Drop(k, s) = s
    BY <1>1 DEF Drop, KeysIn
  <2> QED BY <1>1, <2>1
<1>2. CASE k \in KeysIn(s)
  <2>1. PICK at : at = CHOOSE i \in DOMAIN s : s[i] = k
    OBVIOUS
  <2>2. at \in DOMAIN s /\ s[at] = k
    BY <1>2, <2>1 DEF KeysIn
  <2>3. PICK d : d = [i \in 1 .. (Len(s) - 1) |-> IF i < at THEN s[i] ELSE s[i + 1]]
    OBVIOUS
  <2>4. Drop(k, s) = d
    BY <1>2, <2>1, <2>3 DEF Drop, KeysIn
  <2>5. at \in 1..Len(s) /\ Len(s) \in Nat /\ Len(s) - 1 \in Nat /\ DOMAIN s = 1..Len(s)
    BY <2>2
  <2>6. \A i \in 1 .. (Len(s) - 1) :
          /\ d[i] = IF i < at THEN s[i] ELSE s[i + 1]
          /\ i \in 1..Len(s) /\ i + 1 \in 1..Len(s) /\ d[i] \in Keys
    BY <2>3, <2>5
  <2>7. d \in Seq(Keys) /\ Len(d) = Len(s) - 1 /\ DOMAIN d = 1 .. (Len(s) - 1)
    BY <2>3, <2>5, <2>6
  <2>8. Distinct(d)
    <3> SUFFICES ASSUME NEW i \in 1 .. (Len(s) - 1), NEW j \in 1 .. (Len(s) - 1), d[i] = d[j]
                 PROVE i = j
      BY <2>7 DEF Distinct
    <3>1. PICK a \in {i, i + 1} : a = (IF i < at THEN i ELSE i + 1) /\ d[i] = s[a] /\ a \in 1..Len(s)
      BY <2>6
    <3>2. PICK b \in {j, j + 1} : b = (IF j < at THEN j ELSE j + 1) /\ d[j] = s[b] /\ b \in 1..Len(s)
      BY <2>6
    <3>3. a = b
      BY <2>5, <3>1, <3>2 DEF Distinct
    <3> QED BY <2>5, <3>1, <3>2, <3>3
  <2>9. KeysIn(d) \subseteq KeysIn(s) \ {k}
    <3> SUFFICES ASSUME NEW i \in 1 .. (Len(s) - 1) PROVE d[i] \in KeysIn(s) \ {k}
      BY <2>7 DEF KeysIn
    <3>1. PICK a \in {i, i + 1} : d[i] = s[a] /\ a \in 1..Len(s) /\ a # at
      BY <2>5, <2>6
    <3>2. s[a] # k
      BY <2>2, <2>5, <3>1 DEF Distinct
    <3> QED BY <2>5, <3>1, <3>2 DEF KeysIn
  <2>10. KeysIn(s) \ {k} \subseteq KeysIn(d)
    <3> SUFFICES ASSUME NEW a \in 1..Len(s), s[a] # k PROVE s[a] \in KeysIn(d)
      BY <2>5 DEF KeysIn
    <3>1. a # at
      BY <2>2
    <3>2. PICK i : i = IF a < at THEN a ELSE a - 1
      OBVIOUS
    <3>3. i \in 1 .. (Len(s) - 1) /\ d[i] = s[a]
      BY <2>5, <2>6, <3>1, <3>2
    <3> QED BY <2>7, <3>3 DEF KeysIn
  <2> QED BY <1>2, <2>4, <2>7, <2>8, <2>9, <2>10
<1> QED BY <1>1, <1>2

\* A key that was not there becomes the newest.
LEMMA AppendFacts ==
  ASSUME NEW s \in Seq(Keys), Distinct(s), NEW k \in Keys, k \notin KeysIn(s)
  PROVE  /\ Append(s, k) \in Seq(Keys) /\ Distinct(Append(s, k))
         /\ KeysIn(Append(s, k)) = KeysIn(s) \union {k} /\ Len(Append(s, k)) = Len(s) + 1
<1>1. PICK d : d = Append(s, k)
  OBVIOUS
<1>2. /\ d \in Seq(Keys) /\ Len(d) = Len(s) + 1 /\ DOMAIN d = 1 .. (Len(s) + 1)
      /\ DOMAIN s = 1..Len(s) /\ Len(s) \in Nat
      /\ d[Len(s) + 1] = k /\ \A i \in 1..Len(s) : d[i] = s[i]
  BY <1>1
<1>3. KeysIn(d) = KeysIn(s) \union {k}
  BY <1>2 DEF KeysIn
<1>4. Distinct(d)
  <2> SUFFICES ASSUME NEW i \in 1 .. (Len(s) + 1), NEW j \in 1 .. (Len(s) + 1), d[i] = d[j]
               PROVE i = j
    BY <1>2 DEF Distinct
  <2>1. \A n \in 1..Len(s) : d[n] \in KeysIn(s)
    BY <1>2 DEF KeysIn
  <2>2. CASE i \in 1..Len(s) /\ j \in 1..Len(s)
    BY <1>2, <2>2 DEF Distinct
  <2>3. CASE i = Len(s) + 1 \/ j = Len(s) + 1
    <3>1. i \notin 1..Len(s) \/ j \notin 1..Len(s)
      BY <1>2, <2>3
    <3>2. i = Len(s) + 1 /\ j = Len(s) + 1
      BY <1>2, <2>1, <2>3
    <3> QED BY <3>2
  <2> QED BY <1>2, <2>2, <2>3
<1> QED BY <1>1, <1>2, <1>3, <1>4

\* The oldest key goes.
LEMMA TailFacts ==
  ASSUME NEW s \in Seq(Keys), Distinct(s), s # <<>>
  PROVE  /\ Tail(s) \in Seq(Keys) /\ Distinct(Tail(s)) /\ Len(Tail(s)) = Len(s) - 1
         /\ KeysIn(Tail(s)) = KeysIn(s) \ {Head(s)}
<1>1. PICK d : d = Tail(s)
  OBVIOUS
<1>2. /\ d \in Seq(Keys) /\ Len(d) = Len(s) - 1 /\ DOMAIN d = 1 .. (Len(s) - 1)
      /\ DOMAIN s = 1..Len(s) /\ Len(s) \in Nat \ {0} /\ Head(s) = s[1]
      /\ \A i \in 1 .. (Len(s) - 1) : d[i] = s[i + 1] /\ i + 1 \in 1..Len(s)
  BY <1>1
<1>3. Distinct(d)
  BY <1>2 DEF Distinct
<1>4. KeysIn(d) \subseteq KeysIn(s) \ {Head(s)}
  <2> SUFFICES ASSUME NEW i \in 1 .. (Len(s) - 1) PROVE d[i] \in KeysIn(s) /\ d[i] # s[1]
    BY <1>2 DEF KeysIn
  <2>1. d[i] = s[i + 1] /\ i + 1 \in 1..Len(s) /\ 1 \in 1..Len(s) /\ i + 1 # 1
    BY <1>2
  <2>2. s[i + 1] # s[1]
    BY <1>2, <2>1 DEF Distinct
  <2> QED BY <2>1, <2>2 DEF KeysIn
<1>5. KeysIn(s) \ {Head(s)} \subseteq KeysIn(d)
  <2> SUFFICES ASSUME NEW a \in 1..Len(s), s[a] # s[1] PROVE s[a] \in KeysIn(d)
    BY <1>2 DEF KeysIn
  <2>1. a - 1 \in 1 .. (Len(s) - 1) /\ (a - 1) + 1 = a
    BY <1>2
  <2>2. d[a - 1] = s[a]
    BY <1>2, <2>1
  <2> QED BY <1>2, <2>1, <2>2 DEF KeysIn
<1> QED BY <1>1, <1>2, <1>3, <1>4, <1>5

-----------------------------------------------------------------------------
(* The memory is an LRU: as many entries as keys in its order, one for each. *)

MemInv ==
  /\ recent \in Seq(Keys) /\ Distinct(recent) /\ Len(recent) <= MemCapacity
  /\ KeysIn(recent) = {m.key : m \in mem}
  /\ \A m, n \in mem : m.key = n.key => m = n

\* How the lemmas below establish it of the next state.
LEMMA MemNext ==
  ASSUME NEW r \in Seq(Keys), recent' = r, Distinct(r), Len(r) <= MemCapacity,
         KeysIn(r) = {m.key : m \in mem'}, \A m, n \in mem' : m.key = n.key => m = n
  PROVE  MemInv'
  BY DEF MemInv, Distinct, KeysIn

\* An entry is put: it replaces the one of its key, and the oldest makes room.
LEMMA PutMem ==
  ASSUME MemInv, NEW e, e.key \in Keys, Put(e)
  PROVE  MemInv'
<1>1. PICK d : d = Drop(e.key, recent)
  OBVIOUS
<1>2. /\ d \in Seq(Keys) /\ Distinct(d) /\ KeysIn(d) = KeysIn(recent) \ {e.key}
      /\ Len(d) <= Len(recent) /\ Len(d) \in Nat /\ Len(recent) \in Nat
  BY <1>1, DropFacts DEF MemInv
<1>3. PICK o : o = Append(d, e.key)
  OBVIOUS
<1>4. /\ o \in Seq(Keys) /\ Distinct(o) /\ KeysIn(o) = KeysIn(recent) \union {e.key}
      /\ Len(o) = Len(d) + 1
  BY <1>2, <1>3, AppendFacts
<1>5. Len(o) <= MemCapacity + 1 /\ MemCapacity \in Nat \ {0} /\ o # <<>>
  BY <1>2, <1>4, CacheAssumption DEF MemInv
<1>6. recent' = IF Len(o) > MemCapacity THEN Tail(o) ELSE o
  BY <1>1, <1>3 DEF Put
<1>7. mem' = {m \in mem : m.key # e.key /\ ~(Len(o) > MemCapacity /\ m.key = Head(o))} \union {e}
  BY <1>1, <1>3 DEF Put
<1>8. \A m, n \in mem' : m.key = n.key => m = n
  BY <1>7 DEF MemInv
<1>9. CASE Len(o) > MemCapacity
  <2>1. Head(o) # e.key
    <3>1. Len(d) >= 1 /\ Head(o) = d[1] /\ DOMAIN d = 1..Len(d)
      BY <1>2, <1>3, <1>4, <1>5, <1>9
    <3> QED BY <1>2, <3>1 DEF KeysIn
  <2>2. PICK t : t = Tail(o)
    OBVIOUS
  <2>3. /\ t \in Seq(Keys) /\ Distinct(t) /\ Len(t) = Len(o) - 1 /\ KeysIn(t) = KeysIn(o) \ {Head(o)}
    BY <1>4, <1>5, <2>2, TailFacts
  <2>4. KeysIn(t) = {m.key : m \in mem'}
    BY <1>4, <1>7, <1>9, <2>1, <2>3 DEF MemInv
  <2>5. recent' = t /\ Len(t) <= MemCapacity
    BY <1>2, <1>4, <1>5, <1>6, <1>9, <2>2, <2>3
  <2> QED BY <1>8, <2>3, <2>4, <2>5, MemNext
<1>10. CASE ~(Len(o) > MemCapacity)
  <2>1. recent' = o /\ Len(o) <= MemCapacity
    BY <1>2, <1>4, <1>5, <1>6, <1>10
  <2>2. KeysIn(o) = {m.key : m \in mem'}
    BY <1>4, <1>7, <1>10, <2>1 DEF MemInv
  <2> QED BY <1>4, <1>8, <2>1, <2>2, MemNext
<1> QED BY <1>9, <1>10

\* A hit makes its entry the newest.
LEMMA RenewMem ==
  ASSUME MemInv, NEW e \in mem, e.key \in Keys, UNCHANGED mem,
         recent' = Append(Drop(e.key, recent), e.key)
  PROVE  MemInv'
<1>1. PICK d : d = Drop(e.key, recent)
  OBVIOUS
<1>2. e.key \in KeysIn(recent)
  BY DEF MemInv
<1>3. /\ d \in Seq(Keys) /\ Distinct(d) /\ KeysIn(d) = KeysIn(recent) \ {e.key}
      /\ Len(d) = Len(recent) - 1 /\ Len(recent) \in Nat
  BY <1>1, <1>2, DropFacts DEF MemInv
<1>4. PICK r : r = Append(d, e.key)
  OBVIOUS
<1>5. /\ r \in Seq(Keys) /\ Distinct(r) /\ KeysIn(r) = KeysIn(d) \union {e.key}
      /\ Len(r) = Len(d) + 1
  BY <1>3, <1>4, AppendFacts
<1>6. Len(r) <= MemCapacity /\ recent' = r
  BY <1>1, <1>3, <1>4, <1>5, CacheAssumption DEF MemInv
<1>7. KeysIn(r) = {m.key : m \in mem'} /\ \A m, n \in mem' : m.key = n.key => m = n
  <2>1. KeysIn(r) = KeysIn(recent)
    BY <1>2, <1>3, <1>5
  <2> QED BY <2>1 DEF MemInv
<1> QED BY <1>5, <1>6, <1>7, MemNext

\* An expired entry goes, and its key with it.
LEMMA ForgetMem ==
  ASSUME MemInv, NEW e \in mem, mem' = mem \ {e}, recent' = Drop(e.key, recent)
  PROVE  MemInv'
<1>1. PICK r : r = Drop(e.key, recent)
  OBVIOUS
<1>2. /\ r \in Seq(Keys) /\ Distinct(r) /\ KeysIn(r) = KeysIn(recent) \ {e.key}
      /\ Len(r) <= Len(recent) /\ Len(recent) \in Nat /\ Len(r) \in Nat
  BY <1>1, DropFacts DEF MemInv
<1>3. {m.key : m \in mem'} = {m.key : m \in mem} \ {e.key}
  BY DEF MemInv
<1>4. Len(r) <= MemCapacity /\ recent' = r
  BY <1>1, <1>2, CacheAssumption DEF MemInv
<1>5. KeysIn(r) = {m.key : m \in mem'} /\ \A m, n \in mem' : m.key = n.key => m = n
  BY <1>2, <1>3 DEF MemInv
<1> QED BY <1>2, <1>4, <1>5, MemNext

\* Every step keeps the memory an LRU.
LEMMA MemKept == IInv /\ MemInv /\ [Next]_vars => MemInv'
<1> SUFFICES ASSUME IInv, MemInv, [Next]_vars PROVE MemInv'
  OBVIOUS
<1>1. ASSUME UNCHANGED <<mem, recent>> PROVE MemInv'
  BY <1>1 DEF MemInv, Distinct, KeysIn
<1>2. ASSUME mem' = {}, recent' = <<>> PROVE MemInv'
  <2>1. DOMAIN recent' = {} /\ Len(recent') = 0 /\ recent' \in Seq(Keys)
    BY <1>2
  <2> QED BY <1>2, <2>1, CacheAssumption DEF MemInv, Distinct, KeysIn
<1>3. ASSUME NEW k \in Keys, Lookup(k) PROVE MemInv'
  <2>1. ASSUME NEW e \in Held(k), FromMemory(e) PROVE MemInv'
    <3>1. e \in mem /\ e.key \in Keys
      BY <2>1 DEF Held
    <3> QED BY <2>1, <3>1, RenewMem, ForgetMem DEF FromMemory
  <2>2. ASSUME NEW r \in Of(k, rows), FromTable(r.entry) PROVE MemInv'
    <3>1. r.entry.key \in Keys
      BY <2>2 DEF Of
    <3> QED BY <1>1, <2>2, <3>1, PutMem DEF FromTable
  <2> QED BY <1>1, <1>3, <2>1, <2>2 DEF Lookup
<1>4. ASSUME NEW k \in Keys, Store(k) PROVE MemInv'
  <2>1. PICK e : e = [key |-> k, body |-> now, created |-> now, ttl |-> ttl]
    OBVIOUS
  <2>2. Put(e) /\ e.key \in Keys
    BY <1>4, <2>1 DEF Store
  <2> QED BY <2>2, PutMem
<1>5. CASE Clear
  BY <1>1, <1>2, <1>5 DEF Clear
<1>6. CASE Restart
  BY <1>2, <1>6 DEF Restart
<1>7. CASE (\E k \in Keys : Abandon(k)) \/ Write \/ Configure \/ Tick \/ UNCHANGED vars
  BY <1>1, <1>7 DEF Abandon, Write, Configure, Tick, vars
<1> QED BY <1>3, <1>4, <1>5, <1>6, <1>7 DEF Next

\* As many entries as keys.
LEMMA MemCount ==
  ASSUME MemInv PROVE Cardinality(mem) = Len(recent)
<1>1. /\ DOMAIN recent = 1..Len(recent) /\ Len(recent) \in Nat
      /\ \A i \in 1..Len(recent) : \E m \in mem : m.key = recent[i]
      /\ \A m \in mem : \E i \in 1..Len(recent) : m.key = recent[i]
  <2>1. DOMAIN recent = 1..Len(recent) /\ Len(recent) \in Nat
    BY DEF MemInv
  <2>2. {recent[i] : i \in 1..Len(recent)} = {m.key : m \in mem}
    BY <2>1 DEF MemInv, KeysIn
  <2>3. ASSUME NEW i \in 1..Len(recent) PROVE \E m \in mem : m.key = recent[i]
    <3>1. recent[i] \in {m.key : m \in mem}
      BY <2>2
    <3> QED BY <3>1
  <2>4. ASSUME NEW m \in mem PROVE \E i \in 1..Len(recent) : m.key = recent[i]
    <3>1. m.key \in {recent[i] : i \in 1..Len(recent)}
      BY <2>2
    <3> QED BY <3>1
  <2> QED BY <2>1, <2>3, <2>4
<1>2. PICK f : f = [i \in 1..Len(recent) |-> CHOOSE m \in mem : m.key = recent[i]]
  OBVIOUS
<1>3. f \in [1..Len(recent) -> mem] /\ \A i \in 1..Len(recent) : f[i].key = recent[i]
  BY <1>1, <1>2
<1>4. f \in Injection(1..Len(recent), mem)
  <2>1. DOMAIN recent = 1..Len(recent)
    BY <1>1 DEF MemInv
  <2>2. \A i, j \in 1..Len(recent) : recent[i] = recent[j] => i = j
    BY <1>1, <2>1 DEF MemInv, Distinct
  <2>3. \A i, j \in 1..Len(recent) : f[i] = f[j] => i = j
    BY <1>3, <2>2
  <2> QED BY <1>3, <2>3 DEF Injection, IsInjective
<1>5. f \in Surjection(1..Len(recent), mem)
  BY <1>1, <1>3 DEF Surjection, MemInv
<1>6. ExistsBijection(1..Len(recent), mem)
  BY <1>4, <1>5 DEF ExistsBijection, Bijection
<1> QED BY <1>1, <1>6, FS_CountingElements

-----------------------------------------------------------------------------
(* The table, and what the writer will still do to it. *)

\* A trim waits behind position i of a queue.
TrimAfter(q, i) == \E j \in 1..Len(q) : j > i /\ q[j].do = "trim"

\* The table has a row per key.  Every insert that waits has a trim behind it; so
\* the table is within its limit, or will be when the writer has caught up, unless
\* statements were lost.
TableInv ==
  /\ IsFiniteSet(rows)
  /\ \A r, s \in rows : r.entry.key = s.entry.key => r = s
  /\ \A i \in 1..Len(queue) :
       queue[i].do = "insert" => TrimAfter(queue, i) /\ queue[i].row.entry.key = queue[i].key
  /\ gap \in BOOLEAN
  /\ ~gap => Cardinality(rows) <= MaxEntries \/ TrimAfter(queue, 0)

\* Statements that insert nothing join the queue.
LEMMA QueueGrows ==
  ASSUME IInv, TableInv, UNCHANGED <<rows, gap>>, NEW q \in GoodStatement, q.do # "insert",
         queue' = queue \o <<q>>
  PROVE  TableInv'
<1>1. PICK d : d = queue \o <<q>>
  OBVIOUS
<1>2. /\ Len(d) = Len(queue) + 1 /\ Len(queue) \in Nat /\ d[Len(queue) + 1] = q
      /\ \A i \in 1..Len(queue) : d[i] = queue[i]
  BY <1>1 DEF IInv, Sound
<1>3. \A i : TrimAfter(queue, i) => TrimAfter(d, i)
  BY <1>2 DEF TrimAfter
<1>4. \A i \in 1..Len(d) : d[i].do = "insert" => TrimAfter(d, i) /\ d[i].row.entry.key = d[i].key
  <2> TAKE i \in 1..Len(d)
  <2>1. i \in 1..Len(queue) \/ d[i] = q
    BY <1>2
  <2> QED BY <1>2, <1>3, <2>1 DEF TableInv
<1>5. queue' = d /\ (~gap => Cardinality(rows) <= MaxEntries \/ TrimAfter(d, 0))
  BY <1>1, <1>3 DEF TableInv
<1> QED BY <1>4, <1>5 DEF TableInv, TrimAfter

\* A store puts its trim behind every insert there is, its own included.
LEMMA StoreTable ==
  ASSUME IInv, TableInv, NEW k \in Keys, Store(k)
  PROVE  TableInv'
<1>1. PICK e : e = [key |-> k, body |-> now, created |-> now, ttl |-> ttl]
  OBVIOUS
<1>2. queue' = queue \o <<Insert(e), Trim>> /\ UNCHANGED rows /\ gap' = FALSE
  BY <1>1 DEF Store, Enqueue, Stored
<1>3. PICK d : d = queue \o <<Insert(e), Trim>>
  OBVIOUS
<1>4. Len(d) = Len(queue) + 2 /\ Len(queue) \in Nat /\ d[Len(queue) + 2] = Trim
  BY <1>3 DEF IInv, Sound
<1>5. d[Len(queue) + 2].do = "trim"
  BY <1>4 DEF Trim
<1>6. TrimAfter(d, 0) /\ \A i \in 1..Len(d) : i < Len(d) => TrimAfter(d, i)
  BY <1>4, <1>5 DEF TrimAfter
<1>7. \A i \in 1..Len(d) : d[i].do = "insert" => TrimAfter(d, i) /\ d[i].row.entry.key = d[i].key
  <2> SUFFICES ASSUME NEW i \in 1..Len(d), d[i].do = "insert"
               PROVE TrimAfter(d, i) /\ d[i].row.entry.key = d[i].key
    OBVIOUS
  <2>1. CASE i \in 1..Len(queue)
    <3>1. d[i] = queue[i] /\ i < Len(d)
      BY <1>3, <1>4, <2>1 DEF IInv, Sound
    <3> QED BY <1>6, <2>1, <3>1 DEF TableInv
  <2>2. CASE i = Len(queue) + 1
    <3>1. d[i] = Insert(e)
      BY <1>3, <1>4, <2>2 DEF IInv, Sound
    <3> QED BY <1>1, <1>4, <1>6, <2>2, <3>1 DEF Insert
  <2> QED BY <1>4, <1>5, <2>1, <2>2
<1>8. queue' = d
  BY <1>2, <1>3
<1>9. \A i \in 1..Len(queue') :
        queue'[i].do = "insert" => TrimAfter(queue, i)' /\ queue'[i].row.entry.key = queue'[i].key
  BY <1>7, <1>8 DEF TrimAfter
<1>10. TrimAfter(queue, 0)'
  BY <1>6, <1>8 DEF TrimAfter
<1>11. /\ IsFiniteSet(rows') /\ gap' = FALSE
       /\ \A r, s \in rows' : r.entry.key = s.entry.key => r = s
  BY <1>2 DEF TableInv
<1> QED BY <1>9, <1>10, <1>11 DEF TableInv

\* What one statement does to the table: it stays a finite set of rows, one per
\* key; only an insert makes it grow, and a trim brings it within its limit.
LEMMA AfterFacts ==
  ASSUME IInv, TableInv, NEW q \in GoodStatement, NEW t \in After(q),
         q.do = "insert" => q.row.entry.key = q.key
  PROVE  /\ IsFiniteSet(t) /\ \A r, s \in t : r.entry.key = s.entry.key => r = s
         /\ q.do \in {"bump", "delete"} => Cardinality(t) <= Cardinality(rows)
         /\ q.do = "trim" => Cardinality(t) <= MaxEntries
<1>1. /\ IsFiniteSet(rows) /\ Cardinality(rows) \in Nat /\ MaxEntries \in Nat
      /\ \A r, s \in rows : r.entry.key = s.entry.key => r = s
      /\ rows \subseteq GoodRow
  BY FS_CardinalityType, CacheAssumption DEF TableInv, IInv, Sound
<1>2. IsFiniteSet(Without(q.key)) /\ Cardinality(Without(q.key)) <= Cardinality(rows)
  BY <1>1, FS_Subset DEF Without
<1>3. CASE q.do = "insert"
  <2>1. t = Without(q.key) \union {q.row}
    BY <1>3 DEF After
  <2>2. IsFiniteSet(t)
    BY <1>2, <2>1, FS_AddElement
  <2>3. q.row.entry.key = q.key
    BY <1>3
  <2> QED BY <1>1, <1>3, <2>1, <2>2, <2>3 DEF Without
<1>4. CASE q.do = "bump"
  <2>1. t = Without(q.key) \union {[r EXCEPT !.used = q.used] : r \in Of(q.key, rows)}
    BY <1>4 DEF After
  <2>2. CASE Of(q.key, rows) = {}
    <3>1. t = Without(q.key)
      BY <2>1, <2>2
    <3> QED BY <1>1, <1>2, <1>4, <3>1 DEF Without
  <2>3. CASE Of(q.key, rows) # {}
    <3>1. PICK o \in rows : o.entry.key = q.key
      BY <2>3 DEF Of
    <3>2. Of(q.key, rows) = {o} /\ Without(q.key) = rows \ {o}
      BY <1>1, <3>1 DEF Of, Without
    <3>3. PICK n : n = [o EXCEPT !.used = q.used]
      OBVIOUS
    <3>4. n.entry = o.entry
      BY <1>1, <3>1, <3>3 DEF GoodRow
    <3>5. t = (rows \ {o}) \union {n}
      BY <2>1, <3>2, <3>3
    <3>6. IsFiniteSet(rows \ {o}) /\ Cardinality(rows \ {o}) = Cardinality(rows) - 1
      BY <1>1, <3>1, FS_RemoveElement
    <3>7. IsFiniteSet(t) /\ Cardinality(t) <= Cardinality(rows)
      <4>1. PICK w : w = rows \ {o}
        OBVIOUS
      <4>2. /\ IsFiniteSet(w \union {n})
            /\ Cardinality(w \union {n}) = IF n \in w THEN Cardinality(w) ELSE Cardinality(w) + 1
        BY <3>6, <4>1, FS_AddElement
      <4> QED BY <1>1, <3>5, <3>6, <4>1, <4>2
    <3> QED BY <1>1, <1>4, <3>1, <3>4, <3>5, <3>7
  <2> QED BY <2>2, <2>3
<1>5. CASE q.do = "delete"
  BY <1>1, <1>2, <1>5 DEF After, Without
<1>6. CASE q.do = "trim"
  <2>1. t \subseteq rows /\ Trimmed(t)
    BY <1>6 DEF After
  <2>2. IsFiniteSet(t)
    BY <1>1, <2>1, FS_Subset
  <2>3. Cardinality(t) <= MaxEntries
    BY <1>1, <2>1 DEF Trimmed
  <2> QED BY <1>1, <1>6, <2>1, <2>2, <2>3
<1> QED BY <1>3, <1>4, <1>5, <1>6 DEF GoodStatement

\* The writer takes the oldest statement: a lost one leaves a gap; else an insert has
\* its trim still to come, and a trim leaves the table within its limit.
LEMMA WriteTable ==
  ASSUME IInv, TableInv, Write
  PROVE  TableInv'
<1>1. PICK d : d = Tail(queue)
  OBVIOUS
<1>2. PICK q : q = Head(queue)
  OBVIOUS
<1>3. /\ queue' = d /\ Len(queue) \in Nat \ {0} /\ Len(d) = Len(queue) - 1 /\ q = queue[1]
      /\ q \in GoodStatement
      /\ \A i \in 1..Len(d) : d[i] = queue[i + 1] /\ i + 1 \in 1..Len(queue)
  BY <1>1, <1>2 DEF Write, IInv, Sound
<1>4. ASSUME NEW i \in Nat, TrimAfter(queue, i + 1) PROVE TrimAfter(d, i)
  <2>1. PICK j \in 1..Len(queue) : j > i + 1 /\ queue[j].do = "trim"
    BY <1>4 DEF TrimAfter
  <2>2. j - 1 \in 1..Len(d) /\ j - 1 > i /\ d[j - 1] = queue[j]
    BY <1>3, <2>1
  <2> QED BY <2>1, <2>2 DEF TrimAfter
<1>5. \A i \in 1..Len(d) : d[i].do = "insert" => TrimAfter(d, i) /\ d[i].row.entry.key = d[i].key
  BY <1>3, <1>4 DEF TableInv
<1>6. q.do = "insert" => q.row.entry.key = q.key /\ TrimAfter(d, 0)
  BY <1>3, <1>4 DEF TableInv
<1>7. CASE gap' = TRUE /\ UNCHANGED rows
  BY <1>3, <1>5, <1>7 DEF TableInv
<1>8. CASE rows' \in After(q) /\ UNCHANGED gap
  <2>1. PICK t \in After(q) : rows' = t
    BY <1>8
  <2>2. /\ IsFiniteSet(t) /\ \A r, s \in t : r.entry.key = s.entry.key => r = s
        /\ q.do \in {"bump", "delete"} => Cardinality(t) <= Cardinality(rows)
        /\ q.do = "trim" => Cardinality(t) <= MaxEntries
    BY <1>3, <1>6, AfterFacts
  <2>3. ~gap => Cardinality(t) <= MaxEntries \/ TrimAfter(d, 0)
    <3>1. CASE q.do \in {"insert", "trim"}
      BY <1>6, <2>2, <3>1
    <3>2. CASE q.do \in {"bump", "delete"}
      <4>1. TrimAfter(queue, 0) => TrimAfter(queue, 1)
        BY <1>3, <3>2 DEF TrimAfter
      <4>2. Cardinality(t) \in Nat /\ Cardinality(rows) \in Nat /\ MaxEntries \in Nat
        BY <2>2, FS_CardinalityType, CacheAssumption DEF TableInv
      <4> QED BY <1>4, <2>2, <3>2, <4>1, <4>2 DEF TableInv
    <3> QED BY <1>3, <3>1, <3>2 DEF GoodStatement
  <2> QED BY <1>3, <1>5, <1>8, <2>1, <2>2, <2>3 DEF TableInv
<1> QED BY <1>2, <1>7, <1>8 DEF Write

\* Every step keeps the table within what the queue promises.
LEMMA TableKept == IInv /\ TableInv /\ [Next]_vars => TableInv'
<1> SUFFICES ASSUME IInv, TableInv, [Next]_vars PROVE TableInv'
  OBVIOUS
<1>1. ASSUME UNCHANGED <<rows, queue, gap>> PROVE TableInv'
  BY <1>1 DEF TableInv, TrimAfter
<1>2. ASSUME NEW k \in Keys, Lookup(k) PROVE TableInv'
  <2>1. UNCHANGED <<rows, gap>>
    BY <1>2 DEF Lookup
  <2>2. \A j \in Keys : /\ Bump(j) \in GoodStatement /\ Bump(j).do # "insert"
                        /\ Delete(j) \in GoodStatement /\ Delete(j).do # "insert"
    BY DEF Bump, Delete, GoodStatement, IInv, Sound
  <2>3. ASSUME NEW j \in Keys, queue' = queue \o <<Bump(j)>> \/ queue' = queue \o <<Delete(j)>>
        PROVE TableInv'
    BY <2>1, <2>2, <2>3, QueueGrows
  <2>4. ASSUME NEW e \in Held(k), FromMemory(e) PROVE TableInv'
    <3>1. e.key \in Keys
      BY <2>4 DEF Held
    <3> QED BY <2>3, <2>4, <3>1 DEF FromMemory, Replay, Enqueue
  <2>5. ASSUME NEW r \in Of(k, rows), FromTable(r.entry) PROVE TableInv'
    <3>1. r.entry.key \in Keys
      BY <2>5 DEF Of
    <3> QED BY <2>3, <2>5, <3>1 DEF FromTable, Replay, Enqueue
  <2> QED BY <1>1, <1>2, <2>1, <2>4, <2>5 DEF Lookup
<1>3. CASE Clear
  <2>1. CASE rows' = {}
    <3>1. IsFiniteSet(rows') /\ Cardinality(rows') = 0 /\ 0 <= MaxEntries
      BY <2>1, FS_EmptySet, CacheAssumption
    <3> QED BY <1>3, <2>1, <3>1 DEF Clear, TableInv, TrimAfter
  <2> QED BY <1>1, <1>3, <2>1 DEF Clear
<1>4. CASE Restart
  <2>1. queue' = <<>> /\ gap' = (gap \/ queue # <<>>) /\ UNCHANGED rows
    BY <1>4 DEF Restart
  <2>2. queue = <<>> => ~TrimAfter(queue, 0)
    BY DEF TrimAfter
  <2>3. gap' \in BOOLEAN /\ (~gap' => ~gap /\ queue = <<>>)
    BY <2>1
  <2>4. ~gap' => Cardinality(rows) <= MaxEntries
    BY <2>2, <2>3 DEF TableInv
  <2>5. \A i \in 1..Len(queue') : FALSE
    BY <2>1
  <2> QED BY <2>1, <2>3, <2>4, <2>5 DEF TableInv
<1>5. CASE (\E k \in Keys : Abandon(k)) \/ Configure \/ Tick \/ UNCHANGED vars
  BY <1>1, <1>5 DEF Abandon, Configure, Tick, vars
<1>6. CASE \E k \in Keys : Store(k)
  BY <1>6, StoreTable
<1>7. CASE Write
  BY <1>7, WriteTable
<1> QED BY <1>2, <1>3, <1>4, <1>5, <1>6, <1>7 DEF Next

\* What remains of TypeOK: answers are entries, and the requests that wait for their
\* backends are counted.
RestInv == answer \subseteq Entry /\ fetching \in [Keys -> 0..MaxFetches]

\* Only a lookup answers, with an entry, and counts a request that missed.
LEMMA RestKept == IInv /\ RestInv /\ [Next]_vars => RestInv'
<1> SUFFICES ASSUME IInv, RestInv, [Next]_vars PROVE RestInv'
  OBVIOUS
<1>1. ASSUME NEW k \in Keys, Miss(k) PROVE RestInv'
  BY <1>1, CacheAssumption DEF Miss, RestInv
<1>2. ASSUME NEW e \in Entry, Replay(e) PROVE RestInv'
  BY <1>2 DEF Replay, RestInv
<1>3. ASSUME NEW k \in Keys, Lookup(k) PROVE RestInv'
  <2>1. ASSUME NEW e \in Held(k), FromMemory(e) PROVE RestInv'
    <3>1. e \in Entry /\ e.key \in Keys
      BY <2>1 DEF Held, IInv, Sound, Good, Entry
    <3> QED BY <1>1, <1>2, <2>1, <3>1 DEF FromMemory
  <2>2. ASSUME NEW r \in Of(k, rows), FromTable(r.entry) PROVE RestInv'
    <3>1. r.entry \in Entry /\ r.entry.key \in Keys
      BY <2>2 DEF Of, IInv, Sound, GoodRow, Good, Entry
    <3> QED BY <1>1, <1>2, <2>2, <3>1 DEF FromTable
  <2> QED BY <1>1, <1>3, <2>1, <2>2 DEF Lookup
<1>4. ASSUME NEW k \in Keys, Store(k) \/ Abandon(k) PROVE RestInv'
  BY <1>4, CacheAssumption DEF Store, Abandon, RestInv
<1>5. CASE Restart
  BY <1>5, CacheAssumption DEF Restart, RestInv
<1>6. CASE Write \/ Clear \/ Configure \/ Tick
  BY <1>6 DEF Write, Clear, Configure, Tick, RestInv
<1>7. CASE UNCHANGED vars
  BY <1>7 DEF vars, RestInv
<1> QED BY <1>3, <1>4, <1>5, <1>6, <1>7 DEF Next

FullInv == IInv /\ MemInv /\ TableInv /\ RestInv

\* The cache begins empty.
LEMMA InitFull == Init => FullInv
<1> SUFFICES ASSUME Init PROVE FullInv
  OBVIOUS
<1>1. IInv
  BY DEF Init, IInv, Sound, ReplayWithinTTL
<1>2. MemInv
  <2>1. DOMAIN recent = {} /\ Len(recent) = 0 /\ recent \in Seq(Keys) /\ mem = {}
    BY DEF Init
  <2> QED BY <2>1, CacheAssumption DEF MemInv, Distinct, KeysIn
<1>3. TableInv
  <2>1. IsFiniteSet(rows) /\ Cardinality(rows) = 0 /\ 0 <= MaxEntries /\ rows = {}
    BY FS_EmptySet, CacheAssumption DEF Init
  <2>2. \A i \in 1..Len(queue) : FALSE
    BY DEF Init
  <2> QED BY <2>1, <2>2 DEF Init, TableInv
<1>4. RestInv
  BY CacheAssumption DEF Init, RestInv
<1> QED BY <1>1, <1>2, <1>3, <1>4 DEF FullInv

\* The parts of the invariant together.
LEMMA FullKept == FullInv /\ [Next]_vars => FullInv'
<1> SUFFICES ASSUME FullInv, [Next]_vars PROVE FullInv'
  OBVIOUS
<1>1. IInv' /\ MemInv'
  BY SoundKept, MemKept DEF FullInv
<1>2. TableInv' /\ RestInv'
  BY TableKept, RestKept DEF FullInv
<1> QED BY <1>1, <1>2 DEF FullInv

\* When the writer has caught up and lost nothing, the table is within
\* response_cache_max_entries, however stores, hits, expiries, clears and restarts
\* were interleaved with its statements.
THEOREM TableBounded == Spec => []TableIsBounded
<1>1. FullInv => TableIsBounded
  BY DEF FullInv, TableInv, TableIsBounded, TrimAfter
<1> QED BY <1>1, InitFull, FullKept, PTL DEF Spec

\* The memory is an LRU of at most _MEM_CAPACITY entries, one for each key in its
\* order; the table has one row per fingerprint; every statement is one the writer
\* knows.
THEOREM TypeCorrect == Spec => []TypeOK
<1>1. FullInv => TypeOK
  <2> SUFFICES ASSUME FullInv PROVE TypeOK
    OBVIOUS
  <2>1. /\ now \in Nat /\ ttl \in TTLs /\ mem \subseteq Good /\ rows \subseteq GoodRow
        /\ queue \in Seq(GoodStatement)
    BY DEF FullInv, IInv, Sound
  <2>2. Good \subseteq Entry
    BY DEF Good
  <2>3. GoodRow \subseteq Row
    BY <2>2 DEF GoodRow, Row
  <2>4. GoodStatement \subseteq Statement
    <3>1. [do : {"insert"}, key : Keys, row : GoodRow] \subseteq [do : {"insert"}, key : Keys, row : Row]
      BY <2>3
    <3> QED BY <3>1 DEF GoodStatement, Statement
  <2>5. queue \in Seq(Statement)
    BY <2>1, <2>4
  <2>6. Order = {m.key : m \in mem} /\ Cardinality(mem) = Len(recent)
    BY MemCount DEF FullInv, MemInv, Order, KeysIn
  <2> QED BY <2>1, <2>2, <2>3, <2>5, <2>6 DEF TypeOK, FullInv, MemInv, TableInv, RestInv
<1> QED BY <1>1, InitFull, FullKept, PTL DEF Spec
=============================================================================
