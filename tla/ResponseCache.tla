---------------------------- MODULE ResponseCache ----------------------------
(***************************************************************************)
(* respcache.py and its callers in streaming.py: whole responses, kept under *)
(* the fingerprint of their request in an LRU memory of the worker and in a  *)
(* table, which the background writer changes later and in order.  An entry  *)
(* expires a TTL after it was created; the table is trimmed to the entries   *)
(* used last.                                                                *)
(*                                                                           *)
(* A body is known by the tick its backend gave it.  Only requests the cache *)
(* accepts (is_cacheable) of models that opted in come here.                 *)
(***************************************************************************)
EXTENDS Integers, Sequences, FiniteSets

CONSTANTS Keys,         \* fingerprints
          TTLs,         \* values of response_cache_ttl_sec, 0 for none
          MemCapacity,  \* _MEM_CAPACITY
          MaxEntries,   \* response_cache_max_entries
          MaxTime, MaxQueue, MaxFetches  \* bounds for finite checking

ASSUME CacheAssumption ==
  /\ TTLs \subseteq Nat
  /\ MemCapacity \in Nat \ {0} /\ MaxEntries \in Nat \ {0}
  /\ MaxTime \in Nat /\ MaxQueue \in Nat /\ MaxFetches \in Nat

VARIABLES now,
          ttl,      \* the TTL of the configuration
          mem,      \* _mem, the entries
          recent,   \* _mem, the order of their keys
          rows,     \* the table resp_cache
          queue,    \* statements the writer has not committed
          fetching, \* requests that missed and wait for a backend, per key
          answer,   \* what the last lookup replayed, the empty set for nothing
          gap       \* history: statements were lost since the last store

vars == <<now, ttl, mem, recent, rows, queue, fetching, answer, gap>>

Entry == [key : Keys, body : Nat, created : Nat, ttl : TTLs]
Row   == [entry : Entry, used : Nat]  \* used is last_access

Statement == [do : {"insert"}, key : Keys, row : Row] \union [do : {"bump"}, key : Keys, used : Nat]
               \union [do : {"delete"}, key : Keys] \union [do : {"trim"}]

Init ==
  /\ now = 1 /\ ttl \in TTLs
  /\ mem = {} /\ recent = <<>> /\ rows = {} /\ queue = <<>>
  /\ fetching = [k \in Keys |-> 0]
  /\ answer = {} /\ gap = FALSE

-----------------------------------------------------------------------------
(* Statements. *)

Insert(e)   == [do |-> "insert", key |-> e.key, row |-> [entry |-> e, used |-> now]]
Bump(k)     == [do |-> "bump", key |-> k, used |-> now]
Delete(k)   == [do |-> "delete", key |-> k]
Trim        == [do |-> "trim"]

Of(k, set)   == {r \in set : r.entry.key = k}
Without(k)   == {r \in rows : r.entry.key # k}

\* DELETE ... ORDER BY last_access ASC LIMIT excess: equal times in any order.
Trimmed(kept) ==
  /\ kept \subseteq rows
  /\ Cardinality(kept) = IF Cardinality(rows) > MaxEntries THEN MaxEntries ELSE Cardinality(rows)
  /\ \A r \in rows \ kept, s \in kept : r.used <= s.used

\* What the table may be after a statement.
After(q) ==
  CASE q.do = "insert" -> {Without(q.key) \union {q.row}}
    [] q.do = "bump"   -> {Without(q.key) \union {[r EXCEPT !.used = q.used] : r \in Of(q.key, rows)}}
    [] q.do = "delete" -> {Without(q.key)}
    [] q.do = "trim"   -> {kept \in SUBSET rows : Trimmed(kept)}

-----------------------------------------------------------------------------
(* The memory. *)

\* A key is in the order at most once.
Drop(k, s) ==
  IF \E i \in DOMAIN s : s[i] = k
  THEN LET at == CHOOSE i \in DOMAIN s : s[i] = k
       IN [i \in 1 .. (Len(s) - 1) |-> IF i < at THEN s[i] ELSE s[i + 1]]
  ELSE s

\* Mutant: the memory holds one entry too many.
PutOver(e) ==
  LET order == Append(Drop(e.key, recent), e.key)
      over  == Len(order) > MemCapacity + 1
  IN /\ recent' = IF over THEN Tail(order) ELSE order
     /\ mem' = {m \in mem : m.key # e.key /\ ~(over /\ m.key = Head(order))} \union {e}

\* _mem_put(): the entry becomes the newest, the oldest makes room.
Put(e) ==
  LET order == Append(Drop(e.key, recent), e.key)
      over  == Len(order) > MemCapacity
  IN /\ recent' = IF over THEN Tail(order) ELSE order
     /\ mem' = {m \in mem : m.key # e.key /\ ~(over /\ m.key = Head(order))} \union {e}

Held(k) == {m \in mem : m.key = k}

\* The TTL an entry lives for: its own and today's, whichever is shorter.
Effective(e) == IF e.ttl = 0 \/ ttl < e.ttl THEN ttl ELSE e.ttl

Expired(e) == Effective(e) > 0 /\ now - e.created > Effective(e)

-----------------------------------------------------------------------------
(* lookup(). *)

Enqueue(statements) ==
  /\ Len(queue) + Len(statements) <= MaxQueue
  /\ queue' = queue \o statements

Replay(e) ==
  /\ answer' = {e}
  /\ Enqueue(<<Bump(e.key)>>)
  /\ UNCHANGED fetching

\* A miss: the request goes on to its backends.
Miss(k) ==
  /\ fetching[k] < MaxFetches
  /\ fetching' = [fetching EXCEPT ![k] = @ + 1]
  /\ answer' = {}

FromMemory(e) ==
  \/ /\ ~Expired(e)
     /\ Replay(e)
     /\ recent' = Append(Drop(e.key, recent), e.key) /\ UNCHANGED mem
  \/ /\ Expired(e)
     /\ Miss(e.key) /\ Enqueue(<<Delete(e.key)>>)
     /\ mem' = mem \ {e} /\ recent' = Drop(e.key, recent)

\* Mutant: an entry read from the table starts its life again.
FromTableAnew(e) ==
  \/ ~Expired(e) /\ Put([e EXCEPT !.created = now]) /\ Replay(e)
  \/ Expired(e) /\ Miss(e.key) /\ Enqueue(<<Delete(e.key)>>) /\ UNCHANGED <<mem, recent>>

FromTable(e) ==
  \/ ~Expired(e) /\ Put(e) /\ Replay(e)
  \/ Expired(e) /\ Miss(e.key) /\ Enqueue(<<Delete(e.key)>>) /\ UNCHANGED <<mem, recent>>

Lookup(k) ==
  /\ \/ \E e \in Held(k) : FromMemory(e)
     \/ Held(k) = {} /\ \E r \in Of(k, rows) : FromTable(r.entry)
     \* no row, or the table cannot be read
     \/ Held(k) = {} /\ Miss(k) /\ UNCHANGED <<mem, recent, queue>>
  /\ UNCHANGED <<now, ttl, rows, gap>>

-----------------------------------------------------------------------------
(* store(), once the backend's response is complete. *)

\* Mutant: the table is trimmed before it grows.
StoredTrimFirst(e) == <<Trim, Insert(e)>>

Stored(e) == <<Insert(e), Trim>>

Store(k) ==
  /\ fetching[k] > 0
  /\ fetching' = [fetching EXCEPT ![k] = @ - 1]
  /\ LET e == [key |-> k, body |-> now, created |-> now, ttl |-> ttl]
     IN Put(e) /\ Enqueue(Stored(e))
  /\ answer' = {} /\ gap' = FALSE
  /\ UNCHANGED <<now, ttl, rows>>

\* The backends fail, the client goes, or the answer is not one to keep.
Abandon(k) ==
  /\ fetching[k] > 0
  /\ fetching' = [fetching EXCEPT ![k] = @ - 1]
  /\ answer' = {}
  /\ UNCHANGED <<now, ttl, mem, recent, rows, queue, gap>>

\* The writer runs the oldest statement, or fails to and goes on with the next.
Write ==
  /\ queue # <<>> /\ queue' = Tail(queue)
  /\ \/ rows' \in After(Head(queue)) /\ UNCHANGED gap
     \/ gap' = TRUE /\ UNCHANGED rows
  /\ answer' = {}
  /\ UNCHANGED <<now, ttl, mem, recent, fetching>>

\* clear(): DELETE /admin/cache or /admin/usage.  In the supervisor, where the
\* dashboard's request ends, it empties the table but not the worker's memory;
\* in a worker run by itself, both.
Clear ==
  /\ rows' = {} \/ UNCHANGED rows  \* the table may be locked
  /\ \/ mem' = {} /\ recent' = <<>>
     \/ UNCHANGED <<mem, recent>>
  /\ answer' = {}
  /\ UNCHANGED <<now, ttl, queue, fetching, gap>>

\* The worker ends and another starts, which opens the table it left.
Restart ==
  /\ mem' = {} /\ recent' = <<>> /\ queue' = <<>>
  /\ gap' = (gap \/ queue # <<>>)
  /\ fetching' = [k \in Keys |-> 0] /\ answer' = {}
  /\ UNCHANGED <<now, ttl, rows>>

Configure ==
  /\ ttl' \in TTLs
  /\ answer' = {}
  /\ UNCHANGED <<now, mem, recent, rows, queue, fetching, gap>>

Tick ==
  /\ now < MaxTime /\ now' = now + 1
  /\ answer' = {}
  /\ UNCHANGED <<ttl, mem, recent, rows, queue, fetching, gap>>

Next ==
  \/ \E k \in Keys : Lookup(k) \/ Store(k) \/ Abandon(k)
  \/ Write \/ Clear \/ Restart \/ Configure \/ Tick

Spec == Init /\ [][Next]_vars

-----------------------------------------------------------------------------
(* What the cache promises. *)

Order == {recent[i] : i \in DOMAIN recent}

TypeOK ==
  /\ now \in Nat /\ ttl \in TTLs /\ gap \in BOOLEAN
  /\ mem \subseteq Entry /\ rows \subseteq Row /\ answer \subseteq Entry
  /\ Order = {m.key : m \in mem}
  /\ Cardinality(mem) = Len(recent) /\ Len(recent) <= MemCapacity
  /\ \A r, s \in rows : r.entry.key = s.entry.key => r = s
  /\ queue \in Seq(Statement) /\ fetching \in [Keys -> 0 .. MaxFetches]

\* No response older than the TTL in force is replayed: not after it went from
\* memory to the table and back, was used in between, was cleared in the other
\* process, or outlived a restart or an edit of the TTL (respcache.py:18: "an
\* entry requested at least once per TTL window can never outlive its TTL").
ReplayWithinTTL == \A e \in answer : ttl > 0 => now - e.body <= ttl

\* When the writer has caught up, and nothing was lost on the way, the table is
\* within its limit, however stores, hits, expiries and clears were interleaved.
TableIsBounded == queue = <<>> /\ ~gap => Cardinality(rows) <= MaxEntries
=============================================================================
