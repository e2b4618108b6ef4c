-------------------------- MODULE BackgroundWriter --------------------------
(***************************************************************************)
(* dbwriter.py: INSERTs of usage rows, log lines and cached responses are  *)
(* queued by the threads that make them and committed in batches by one    *)
(* worker thread.  A step is what happens between two points where another *)
(* thread can interfere: enqueue() tests `_running' and then puts, stop()  *)
(* clears it and then puts the sentinel, and the worker that timed out on  *)
(* an empty queue flushes before it looks at `_running'.                   *)
(*                                                                         *)
(* start() is called once: set_db_path() makes a new writer instead of     *)
(* restarting one.  The calls of one row's enqueue() are told apart by the *)
(* row.                                                                    *)
(***************************************************************************)
EXTENDS Integers, Sequences

CONSTANTS Rows,
          OnLoop,         \* rows made by the thread that calls stop(), the event
                          \* loop; the others come from alert threads
          Bad,            \* rows whose INSERT the database refuses
          BatchSize,      \* _BATCH_SIZE
          ConnectMayFail, \* sqlite3.connect() may raise (no data/ directory yet)
          MaxQueue        \* bound on flush sentinels, for finite checking

Stop  == "stop"           \* the None sentinel
Flush == "flush"          \* the __flush__ sentinel

ASSUME WriterAssumption ==
  /\ OnLoop \subseteq Rows /\ Bad \subseteq Rows /\ Stop \notin Rows /\ Flush \notin Rows
  /\ BatchSize \in Nat \ {0} /\ ConnectMayFail \in BOOLEAN /\ MaxQueue \in Nat

VARIABLES running,  \* _running
          queue,    \* _queue
          worker,   \* where the worker thread is, or how it ended
          batch,    \* its local batch
          table,    \* committed copies of each row
          caller,   \* progress of the enqueue() of each row
          stopper   \* progress of stop(), or "killed" with the process

vars == <<running, queue, worker, batch, table, caller, stopper>>

\* "dry": timed out on an empty queue, about to look at _running.  The thread
\* ends on the sentinel ("drained"), on finding _running false ("left"), on a
\* failed connect ("dead") or with the process ("killed").
Ended == {"drained", "left", "dead", "killed"}

Items == Rows \union {Stop, Flush}

\* What is in the queue or in a batch.
In(s) == {s[i] : i \in DOMAIN s}

Init ==
  /\ running = FALSE
  /\ queue = <<>>
  /\ worker = "unstarted"
  /\ batch = <<>>
  /\ table = [r \in Rows |-> 0]
  /\ caller = [r \in Rows |-> "idle"]
  /\ stopper = "idle"

-----------------------------------------------------------------------------
\* The event loop is inside stop(): it makes no rows meanwhile.
Blocked(r) == r \in OnLoop /\ stopper \in {"signalling", "joining"}

Start ==
  /\ worker = "unstarted" /\ stopper = "idle"
  /\ running' = TRUE
  /\ worker' = "starting"
  /\ UNCHANGED <<queue, batch, table, caller, stopper>>

\* enqueue(): `if self._running'.
Check(r) ==
  /\ caller[r] = "idle" /\ stopper # "killed" /\ ~Blocked(r)
  /\ caller' = [caller EXCEPT ![r] = IF running THEN "putting" ELSE "writing"]
  /\ UNCHANGED <<running, queue, worker, batch, table, stopper>>

Put(r) ==
  /\ caller[r] = "putting" /\ stopper # "killed"
  /\ queue' = Append(queue, r)
  /\ caller' = [caller EXCEPT ![r] = "queued"]
  /\ UNCHANGED <<running, worker, batch, table, stopper>>

\* _write_sync(): the caller's own connection; an error is the caller's.
WriteSync(r) ==
  /\ caller[r] = "writing" /\ stopper # "killed"
  /\ IF r \in Bad
     THEN /\ caller' = [caller EXCEPT ![r] = "raised"]
          /\ UNCHANGED table
     ELSE /\ caller' = [caller EXCEPT ![r] = "written"]
          /\ table' = [table EXCEPT ![r] = @ + 1]
  /\ UNCHANGED <<running, queue, worker, batch, stopper>>

\* flush()
PutFlush ==
  /\ Len(queue) < MaxQueue /\ stopper # "killed"
  /\ queue' = Append(queue, Flush)
  /\ UNCHANGED <<running, worker, batch, table, caller, stopper>>

\* stop(), on the event loop, which is not in the middle of an enqueue().
Signal ==
  /\ running /\ stopper = "idle"
  /\ \A r \in OnLoop : caller[r] \notin {"putting", "writing"}
  /\ running' = FALSE
  /\ stopper' = "signalling"
  /\ UNCHANGED <<queue, worker, batch, table, caller>>

PutStop ==
  /\ stopper = "signalling"
  /\ queue' = Append(queue, Stop)
  /\ stopper' = "joining"
  /\ UNCHANGED <<running, worker, batch, table, caller>>

\* join(timeout) returns, with the thread ended or not.
Join ==
  /\ stopper = "joining"
  /\ stopper' = "stopped"
  /\ UNCHANGED <<running, queue, worker, batch, table, caller>>

\* The process ends: killed by the supervisor or by a crash at any moment, or
\* on its own after stop(), taking the daemon thread with it.
Kill ==
  /\ stopper # "killed"
  /\ stopper' = "killed"
  /\ worker' = IF worker \in Ended THEN worker ELSE "killed"
  /\ UNCHANGED <<running, queue, batch, table, caller>>

-----------------------------------------------------------------------------
\* The worker thread, _run().
Connect ==
  /\ worker = "starting"
  /\ worker' \in IF ConnectMayFail THEN {"waiting", "dead"} ELSE {"waiting"}
  /\ UNCHANGED <<running, queue, batch, table, caller, stopper>>

CommittedNoRetry(b) ==  \* mutant: a bad row loses the whole batch
  [r \in Rows |-> IF In(b) \intersect Bad = {} /\ r \in In(b) THEN table[r] + 1
                  ELSE table[r]]

\* _flush(): the batch is one transaction; if a row fails it is rolled back and
\* its rows are tried one by one, so only the bad ones are lost.
Committed(b) == [r \in Rows |-> IF r \in In(b) \ Bad THEN table[r] + 1 ELSE table[r]]

KeepOneMore(r) ==  \* mutant: the batch is flushed one row late
  LET b == Append(batch, r)
  IN  IF Len(b) > BatchSize
      THEN batch' = <<>> /\ table' = Committed(b)
      ELSE batch' = b /\ UNCHANGED table

\* A row joins the batch, which is flushed when it is full.
Keep(r) ==
  LET b == Append(batch, r)
  IN  IF Len(b) >= BatchSize
      THEN batch' = <<>> /\ table' = Committed(b)
      ELSE batch' = b /\ UNCHANGED table

FlushBatch == batch' = <<>> /\ table' = Committed(batch)

TakeNoFinalFlush ==  \* mutant: the batch is not flushed on the way out
  /\ worker = "waiting" /\ queue # <<>>
  /\ queue' = Tail(queue)
  /\ CASE Head(queue) = Stop  -> worker' = "drained" /\ UNCHANGED <<batch, table>>
       [] Head(queue) = Flush -> FlushBatch /\ UNCHANGED worker
       [] OTHER               -> Keep(Head(queue)) /\ UNCHANGED worker
  /\ UNCHANGED <<running, caller, stopper>>

\* queue.get() returns an item.  The sentinel ends the thread, after the final
\* flush of what it holds.
Take ==
  /\ worker = "waiting" /\ queue # <<>>
  /\ queue' = Tail(queue)
  /\ CASE Head(queue) = Stop  -> FlushBatch /\ worker' = "drained"
       [] Head(queue) = Flush -> FlushBatch /\ UNCHANGED worker
       [] OTHER               -> Keep(Head(queue)) /\ UNCHANGED worker
  /\ UNCHANGED <<running, caller, stopper>>

RunDryIdle ==  \* mutant: a timeout does not flush
  /\ worker = "waiting" /\ queue = <<>>
  /\ worker' = "dry"
  /\ UNCHANGED <<running, queue, batch, table, caller, stopper>>

\* queue.get() times out on an empty queue: the batch is flushed.
RunDry ==
  /\ worker = "waiting" /\ queue = <<>>
  /\ worker' = "dry"
  /\ FlushBatch
  /\ UNCHANGED <<running, queue, caller, stopper>>

\* `if not self._running: break', whatever has been queued since the timeout.
Recheck ==
  /\ worker = "dry"
  /\ worker' = IF running THEN "waiting" ELSE "left"
  /\ UNCHANGED <<running, queue, batch, table, caller, stopper>>

WorkerStep == Connect \/ Take \/ RunDry \/ Recheck

Next ==
  \/ Start \/ Signal \/ PutStop \/ Join \/ Kill
  \/ \E r \in Rows : Check(r) \/ Put(r) \/ WriteSync(r)
  \/ PutFlush
  \/ WorkerStep

\* The operating system schedules the worker thread.
Spec == Init /\ [][Next]_vars /\ WF_vars(WorkerStep)

-----------------------------------------------------------------------------
Workers == {"unstarted", "starting", "waiting", "dry"} \union Ended

\* A batch at rest is never full.
TypeOK ==
  /\ running \in BOOLEAN
  /\ queue \in Seq(Items)
  /\ worker \in Workers
  /\ batch \in Seq(Rows) /\ Len(batch) < BatchSize
  /\ table \in [Rows -> Nat]
  /\ caller \in [Rows -> {"idle", "putting", "writing", "queued", "written", "raised"}]
  /\ stopper \in {"idle", "signalling", "joining", "stopped", "killed"}

\* A thread that ended on the stop sentinel left nothing behind: it holds no
\* row, and none of the rows the event loop had enqueued before it called
\* stop() is still in the queue, however other threads' rows and flushes came
\* between ("The sentinel guarantees a clean exit after drain").
SentinelDrains ==
  worker = "drained" => batch = <<>> /\ In(queue) \intersect OnLoop = {}

\* Where a row has got to.  A row that is neither held, nor stored, nor refused
\* has vanished; no action of WriteBehind leads to the last two.
Fate(r) ==
  LET held == r \in In(batch) \union In(queue)
  IN  IF table[r] > 1 \/ (table[r] = 1 /\ held) THEN "duplicated"
      ELSE IF table[r] = 1 THEN "stored"
      ELSE IF caller[r] \in {"idle", "putting", "writing"} THEN "new"
      ELSE IF caller[r] = "raised" THEN "refused"
      ELSE IF held THEN IF worker \in Ended THEN "abandoned" ELSE "waiting"
      ELSE IF r \in Bad THEN "refused"
      ELSE "vanished"

\* Every row has one fate: through batching, flush sentinels, rollback and retry
\* of a failed batch, the synchronous path and the end of the thread, no row is
\* stored twice, and none disappears while the thread lives.
Promise == INSTANCE WriteBehind WITH
  fate <- [r \in Rows |-> Fate(r)],
  up   <- worker \notin Ended
EveryRowHasOneFate == Promise!Spec

\* A row in the queue is disposed of without waiting for the batch to fill, for
\* another row, or for stop().
RowsSettle ==
  \A r \in Rows : caller[r] = "queued" /\ worker \notin Ended
                    ~> Fate(r) # "waiting"
=============================================================================
