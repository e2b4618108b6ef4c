----------------------- MODULE BackgroundWriterProofs -----------------------
(***************************************************************************)
(* Proofs about BackgroundWriter, for any rows, batch size and threads.    *)
(*                                                                         *)
(* The inductive invariant says where each row is.  A row is at one place  *)
(* of the queue or in the batch, never in both, and then it has no copy in *)
(* the table; a queued row that is nowhere has reached the table or is one *)
(* the database refuses.  Behind the sentinel there is no row of the event *)
(* loop, because stop() runs on it.                                        *)
(***************************************************************************)
EXTENDS BackgroundWriter, TLAPS

Held == In(batch) \union In(queue)

\* No row is twice in the queue, nor both in the queue and in the batch.
Apart ==
  /\ \A i, j \in DOMAIN queue : queue[i] = queue[j] /\ queue[i] \in Rows => i = j
  /\ In(batch) \intersect In(queue) = {}

\* What the progress of enqueue() says of the table.
Accounted ==
  \A r \in Rows :
    /\ r \in Held => caller[r] = "queued" /\ table[r] = 0
    /\ caller[r] \in {"idle", "putting", "writing", "raised"} => table[r] = 0
    /\ caller[r] = "written" => table[r] = 1
    /\ table[r] \in {0, 1}
    /\ caller[r] = "queued" => r \in Held \/ table[r] = 1 \/ r \in Bad

StopIsLast ==
  /\ stopper \in {"signalling", "joining", "stopped"} =>
       ~running /\ \A r \in OnLoop : caller[r] # "putting"
  /\ Stop \in In(queue) \/ worker = "drained" => stopper \in {"joining", "stopped", "killed"}
  /\ \A i, j \in DOMAIN queue : i < j /\ queue[i] = Stop => queue[j] \notin OnLoop

IInv == TypeOK /\ Apart /\ Accounted /\ StopIsLast /\ SentinelDrains

-----------------------------------------------------------------------------
\* What is in a queue that got one more.
LEMMA InAppend ==
  ASSUME NEW S, NEW s \in Seq(S), NEW x \in S
  PROVE  In(Append(s, x)) = In(s) \union {x}
<1>1. /\ DOMAIN Append(s, x) = 1..(Len(s) + 1) /\ Append(s, x)[Len(s) + 1] = x
      /\ \A i \in 1..Len(s) : Append(s, x)[i] = s[i]
  OBVIOUS
<1>2. DOMAIN s = 1..Len(s) /\ Len(s) \in Nat
  OBVIOUS
<1>3. 1..(Len(s) + 1) = 1..Len(s) \union {Len(s) + 1}
  BY <1>2
<1>4. QED
  BY <1>1, <1>2, <1>3 DEF In

\* What is in a queue is its head and the rest of it.
LEMMA InTail ==
  ASSUME NEW S, NEW s \in Seq(S), s # <<>>
  PROVE  /\ In(s) = {Head(s)} \union In(Tail(s))
         /\ Head(s) \in S /\ Tail(s) \in Seq(S)
         /\ DOMAIN Tail(s) = 1..(Len(s) - 1) /\ DOMAIN s = 1..Len(s) /\ Len(s) \in Nat \ {0}
         /\ \A i \in 1..(Len(s) - 1) : Tail(s)[i] = s[i + 1]
<1>1. /\ DOMAIN Tail(s) = 1..(Len(s) - 1) /\ DOMAIN s = 1..Len(s) /\ Len(s) \in Nat \ {0}
      /\ \A i \in 1..(Len(s) - 1) : Tail(s)[i] = s[i + 1]
      /\ Head(s) = s[1] /\ Head(s) \in S /\ Tail(s) \in Seq(S)
  OBVIOUS
<1>2. ASSUME NEW x \in In(s) PROVE x \in {Head(s)} \union In(Tail(s))
  <2>1. PICK i \in 1..Len(s) : s[i] = x
    BY <1>1 DEF In
  <2>2. CASE i = 1
    BY <1>1, <2>1, <2>2
  <2>3. CASE i # 1
    <3>1. i - 1 \in 1..(Len(s) - 1) /\ (i - 1) + 1 = i
      BY <1>1, <2>3
    <3>2. Tail(s)[i - 1] = x
      BY <1>1, <2>1, <3>1
    <3>3. QED
      BY <1>1, <3>1, <3>2 DEF In
  <2>4. QED
    BY <2>2, <2>3
<1>3. ASSUME NEW x \in {Head(s)} \union In(Tail(s)) PROVE x \in In(s)
  <2>1. CASE x = Head(s)
    BY <1>1, <2>1 DEF In
  <2>2. CASE x \in In(Tail(s))
    <3>1. PICK i \in 1..(Len(s) - 1) : Tail(s)[i] = x
      BY <1>1, <2>2 DEF In
    <3>2. i + 1 \in 1..Len(s) /\ s[i + 1] = x
      BY <1>1, <3>1
    <3>3. QED
      BY <1>1, <3>2 DEF In
  <2>3. QED
    BY <2>1, <2>2
<1>4. QED
  BY <1>1, <1>2, <1>3

\* Nothing is in an empty queue.
LEMMA InEmpty == In(<<>>) = {}
  BY DEF In

-----------------------------------------------------------------------------
\* Before start() no row is anywhere and nothing is queued.
LEMMA InitIInv == Init => IInv
<1> SUFFICES ASSUME Init PROVE IInv
  OBVIOUS
<1>1. TypeOK
  <2>1. <<>> \in Seq(Items) /\ <<>> \in Seq(Rows) /\ Len(<<>>) < BatchSize
    BY WriterAssumption
  <2>2. QED
    BY <2>1 DEF Init, TypeOK, Workers
<1>2. Held = {} /\ In(queue) = {}
  BY InEmpty DEF Init, Held
<1>3. Apart /\ StopIsLast
  BY <1>2 DEF Init, Apart, StopIsLast
<1>4. Accounted
  BY <1>2 DEF Init, Accounted
<1>5. SentinelDrains
  BY DEF Init, SentinelDrains
<1>6. QED
  BY <1>1, <1>3, <1>4, <1>5 DEF IInv

-----------------------------------------------------------------------------
\* Handing a row, a flush or the sentinel to the queue keeps rows apart when
\* the row was not held before, and keeps the sentinel last when no row of the
\* event loop can come behind it.
LEMMA AppendStep ==
  ASSUME IInv, NEW x \in Items, x \notin Rows \/ x \notin Held,
         x \notin OnLoop \/ Stop \notin In(queue)
  PROVE  LET q == Append(queue, x)
         IN  /\ q \in Seq(Items)
             /\ In(q) = In(queue) \union {x}
             /\ \A i, j \in DOMAIN q : q[i] = q[j] /\ q[i] \in Rows => i = j
             /\ \A i, j \in DOMAIN q : i < j /\ q[i] = Stop => q[j] \notin OnLoop
<1> DEFINE q == Append(queue, x)
           n == Len(queue)
<1>1. queue \in Seq(Items) /\ n \in Nat /\ DOMAIN queue = 1..n
  BY DEF IInv, TypeOK
<1>2. q \in Seq(Items) /\ DOMAIN q = 1..(n + 1) /\ q[n + 1] = x
      /\ \A i \in 1..n : q[i] = queue[i] /\ queue[i] \in In(queue)
  BY <1>1 DEF In
<1>3. In(q) = In(queue) \union {x}
  BY <1>1, InAppend
<1> HIDE DEF q, n
<1>4. \A i \in 1..(n + 1) : i \in 1..n \/ i = n + 1
  BY <1>1
<1>5. ASSUME NEW i \in DOMAIN q, NEW j \in DOMAIN q, q[i] = q[j], q[i] \in Rows
      PROVE  i = j
  <2>1. CASE i \in 1..n /\ j \in 1..n
    BY <1>1, <1>2, <1>5, <2>1 DEF IInv, Apart
  <2>2. CASE (i = n + 1) # (j = n + 1)
    BY <1>1, <1>2, <1>4, <1>5, <2>2 DEF Held
  <2>3. QED
    BY <1>2, <1>4, <2>1, <2>2
<1>6. ASSUME NEW i \in DOMAIN q, NEW j \in DOMAIN q, i < j, q[i] = Stop
      PROVE  q[j] \notin OnLoop
  <2>1. i \in 1..n
    BY <1>1, <1>2, <1>6
  <2>2. CASE j \in 1..n
    BY <1>1, <1>2, <1>6, <2>1, <2>2 DEF IInv, StopIsLast
  <2>3. CASE j = n + 1
    BY <1>2, <1>6, <2>1, <2>3
  <2>4. QED
    BY <1>2, <1>4, <2>2, <2>3
<1>7. QED
  BY <1>2, <1>3, <1>5, <1>6 DEF q

\* Taking the head of the queue.
LEMMA TailStep ==
  ASSUME IInv, queue # <<>>
  PROVE  LET q == Tail(queue)
         IN  /\ q \in Seq(Items) /\ Head(queue) \in Items
             /\ In(queue) = {Head(queue)} \union In(q)
             /\ Head(queue) \in Rows => Head(queue) \notin In(q)
             /\ Head(queue) = Stop => In(q) \intersect OnLoop = {}
             /\ \A i, j \in DOMAIN q : q[i] = q[j] /\ q[i] \in Rows => i = j
             /\ \A i, j \in DOMAIN q : i < j /\ q[i] = Stop => q[j] \notin OnLoop
<1> DEFINE q == Tail(queue)
           n == Len(queue)
<1>1. /\ q \in Seq(Items) /\ Head(queue) \in Items /\ Head(queue) = queue[1]
      /\ In(queue) = {Head(queue)} \union In(q)
      /\ DOMAIN q = 1..(n - 1) /\ DOMAIN queue = 1..n /\ n \in Nat \ {0}
      /\ \A i \in 1..(n - 1) : q[i] = queue[i + 1]
  <2>1. queue \in Seq(Items)
    BY DEF IInv, TypeOK
  <2>2. Head(queue) = queue[1]
    BY <2>1
  <2>3. QED
    BY <2>1, <2>2, InTail
<1> HIDE DEF q, n
<1>2. /\ \A i \in 1..(n - 1) : i + 1 \in 1..n /\ 1 < i + 1 /\ 1 \in 1..n
      /\ \A i, j \in 1..(n - 1) : /\ (i + 1 = j + 1) => i = j
                                  /\ i < j => i + 1 < j + 1
  BY <1>1
<1>3. /\ \A i, j \in 1..n : queue[i] = queue[j] /\ queue[i] \in Rows => i = j
      /\ \A i, j \in 1..n : i < j /\ queue[i] = Stop => queue[j] \notin OnLoop
  BY <1>1 DEF IInv, Apart, StopIsLast
<1>4. Head(queue) \in Rows => Head(queue) \notin In(q)
  <2>1. SUFFICES ASSUME Head(queue) \in Rows, NEW i \in 1..(n - 1), q[i] = Head(queue)
                 PROVE  FALSE
    BY <1>1 DEF In
  <2>2. QED
    BY <1>1, <1>2, <1>3, <2>1
<1>5. Head(queue) = Stop => In(q) \intersect OnLoop = {}
  <2>1. SUFFICES ASSUME Head(queue) = Stop, NEW i \in 1..(n - 1)
                 PROVE  q[i] \notin OnLoop
    BY <1>1 DEF In
  <2>2. QED
    BY <1>1, <1>2, <1>3, <2>1
<1>6. /\ \A i, j \in DOMAIN q : q[i] = q[j] /\ q[i] \in Rows => i = j
      /\ \A i, j \in DOMAIN q : i < j /\ q[i] = Stop => q[j] \notin OnLoop
  BY <1>1, <1>2, <1>3
<1>7. QED
  BY <1>1, <1>4, <1>5, <1>6 DEF q

\* The conjuncts of TypeOK and the others, from what a step leaves as it was.
LEMMA WorkerStepKeepsIInv ==
  ASSUME IInv, WorkerStep
  PROVE  IInv'
<1>0. /\ batch \in Seq(Rows) /\ Len(batch) < BatchSize /\ queue \in Seq(Items)
      /\ table \in [Rows -> Nat] /\ Bad \subseteq Rows /\ BatchSize \in Nat \ {0}
      /\ Stop \notin Rows /\ Flush \notin Rows /\ OnLoop \subseteq Rows
  BY WriterAssumption DEF IInv, TypeOK
<1>1. CASE Connect \/ Recheck
  <2>1. /\ queue' = queue /\ batch' = batch /\ table' = table /\ caller' = caller
        /\ stopper' = stopper /\ running' = running
        /\ worker' \in {"waiting", "dead", "left"}
    BY <1>1 DEF Connect, Recheck
  <2>2. QED
    BY <2>1 DEF IInv, TypeOK, Workers, Ended, Apart, Accounted, Held, StopIsLast,
                SentinelDrains
<1>2. ASSUME batch' = <<>>, table' = Committed(batch)
      PROVE  /\ batch' \in Seq(Rows) /\ Len(batch') < BatchSize /\ In(batch') = {}
             /\ table' \in [Rows -> Nat]
             /\ \A r \in Rows : table'[r] = IF r \in In(batch) \ Bad THEN table[r] + 1
                                            ELSE table[r]
  BY <1>0, <1>2, InEmpty DEF Committed
<1>3. CASE RunDry
  <2>1. /\ queue' = queue /\ batch' = <<>> /\ table' = Committed(batch)
        /\ caller' = caller /\ stopper' = stopper /\ running' = running
        /\ worker' = "dry"
    BY <1>3 DEF RunDry, FlushBatch
  <2>2. TypeOK' /\ Apart' /\ StopIsLast' /\ SentinelDrains'
    BY <1>2, <2>1 DEF IInv, TypeOK, Workers, Apart, StopIsLast, SentinelDrains
  <2>3. Accounted'
    BY <1>2, <2>1 DEF IInv, Accounted, Held, Apart
  <2>4. QED
    BY <2>2, <2>3 DEF IInv
<1>4. CASE Take
  <2>1. /\ worker = "waiting" /\ queue # <<>> /\ queue' = Tail(queue)
        /\ caller' = caller /\ stopper' = stopper /\ running' = running
    BY <1>4 DEF Take
  <2> DEFINE h == Head(queue)
  <2>2. /\ queue' \in Seq(Items) /\ h \in Items
        /\ In(queue) = {h} \union In(queue')
        /\ h \in Rows => h \notin In(queue')
        /\ h = Stop => In(queue') \intersect OnLoop = {}
        /\ \A i, j \in DOMAIN queue' : queue'[i] = queue'[j] /\ queue'[i] \in Rows => i = j
        /\ \A i, j \in DOMAIN queue' : i < j /\ queue'[i] = Stop => queue'[j] \notin OnLoop
    BY <2>1, TailStep
  <2>3. CASE h \notin Rows
    <3>1. /\ batch' = <<>> /\ table' = Committed(batch)
          /\ worker' \in {"waiting", "drained"} /\ (worker' = "drained" => h = Stop)
      BY <1>4, <2>1, <2>2, <2>3 DEF Take, Items, FlushBatch, Stop, Flush
    <3>2. TypeOK' /\ Apart' /\ SentinelDrains'
      BY <1>2, <2>1, <2>2, <3>1
      DEF IInv, TypeOK, Workers, Ended, Apart, SentinelDrains
    <3>3. StopIsLast'
      BY <2>1, <2>2, <3>1 DEF IInv, StopIsLast
    <3>4. Accounted'
      BY <1>2, <2>1, <2>2, <2>3, <3>1 DEF IInv, Accounted, Held, Apart
    <3>5. QED
      BY <3>2, <3>3, <3>4 DEF IInv
  <2>4. CASE h \in Rows
    <3>1. worker' = worker /\ Keep(h)
      BY <1>0, <1>4, <2>1, <2>4 DEF Take
    <3> DEFINE b == Append(batch, h)
    <3>2. b \in Seq(Rows) /\ Len(b) = Len(batch) + 1 /\ In(b) = In(batch) \union {h}
      BY <1>0, <2>4, InAppend
    <3>3. \A r \in Rows : r \in Held <=> r \in In(b) \union In(queue')
      BY <2>2, <3>2 DEF Held
    <3>4. worker # "drained" /\ (Stop \in In(queue') => Stop \in In(queue))
      BY <2>1, <2>2
    <3>5. StopIsLast' /\ SentinelDrains'
      BY <2>1, <2>2, <3>1, <3>4 DEF IInv, StopIsLast, SentinelDrains
    <3>6. CASE Len(b) >= BatchSize
      <4>1. batch' = <<>> /\ table' = Committed(b)
        BY <3>1, <3>6 DEF Keep
      <4>2. /\ table' \in [Rows -> Nat] /\ In(batch') = {} /\ batch' \in Seq(Rows)
            /\ Len(batch') < BatchSize
            /\ \A r \in Rows : table'[r] = IF r \in In(b) \ Bad THEN table[r] + 1
                                           ELSE table[r]
        BY <1>0, <4>1, InEmpty DEF Committed
      <4>3. TypeOK' /\ Apart'
        BY <2>1, <2>2, <3>1, <4>2 DEF IInv, TypeOK, Apart
      <4>4. Accounted'
        BY <2>1, <2>2, <2>4, <3>2, <3>3, <4>2 DEF IInv, Accounted, Held, Apart
      <4>5. QED
        BY <3>5, <4>3, <4>4 DEF IInv
    <3>7. CASE ~(Len(b) >= BatchSize)
      <4>1. batch' = b /\ table' = table
        BY <3>1, <3>7 DEF Keep
      <4>2. Len(batch') < BatchSize
        BY <1>0, <3>2, <3>7, <4>1
      <4>3. TypeOK' /\ Apart'
        BY <2>1, <2>2, <3>1, <3>2, <4>1, <4>2 DEF IInv, TypeOK, Apart
      <4>4. Accounted'
        BY <2>1, <3>3, <4>1 DEF IInv, Accounted, Held
      <4>5. QED
        BY <3>5, <4>3, <4>4 DEF IInv
    <3>8. QED
      BY <3>6, <3>7
  <2>5. QED
    BY <2>3, <2>4
<1>5. QED
  BY <1>1, <1>3, <1>4 DEF WorkerStep

\* The steps of the callers, of stop() and of the process.
LEMMA NextIInv == IInv /\ [Next]_vars => IInv'
<1> SUFFICES ASSUME IInv, [Next]_vars PROVE IInv'
  OBVIOUS
<1>0. /\ queue \in Seq(Items) /\ table \in [Rows -> Nat] /\ OnLoop \subseteq Rows
      /\ Stop \notin Rows /\ Flush \notin Rows
      /\ caller \in [Rows -> {"idle", "putting", "writing", "queued", "written", "raised"}]
  BY WriterAssumption DEF IInv, TypeOK
<1>1. CASE Start
  <2>1. /\ queue' = queue /\ batch' = batch /\ table' = table /\ caller' = caller
        /\ stopper' = stopper /\ running' = TRUE /\ worker' = "starting"
        /\ stopper = "idle"
    BY <1>1 DEF Start
  <2>2. TypeOK' /\ Apart' /\ SentinelDrains'
    BY <2>1 DEF IInv, TypeOK, Workers, Apart, SentinelDrains
  <2>3. Accounted' /\ StopIsLast'
    BY <2>1 DEF IInv, Accounted, Held, StopIsLast
  <2>4. QED
    BY <2>2, <2>3 DEF IInv
<1>2. CASE Signal \/ Join
  <2>1. /\ queue' = queue /\ batch' = batch /\ table' = table /\ caller' = caller
        /\ worker' = worker
        /\ \/ /\ stopper = "idle" /\ stopper' = "signalling" /\ running' = FALSE
              /\ \A r \in OnLoop : caller[r] # "putting"
           \/ stopper = "joining" /\ stopper' = "stopped" /\ running' = running
    BY <1>2 DEF Signal, Join
  <2>2. TypeOK' /\ Apart' /\ SentinelDrains'
    BY <2>1 DEF IInv, TypeOK, Apart, SentinelDrains
  <2>3. Accounted' /\ StopIsLast'
    BY <2>1 DEF IInv, Accounted, Held, StopIsLast
  <2>4. QED
    BY <2>2, <2>3 DEF IInv
<1>3. CASE PutStop
  <2>1. Stop \in Items /\ Stop \notin OnLoop /\ Stop \notin Rows
    BY <1>0 DEF Items
  <2>2. /\ queue' \in Seq(Items) /\ In(queue') = In(queue) \union {Stop}
        /\ \A i, j \in DOMAIN queue' : queue'[i] = queue'[j] /\ queue'[i] \in Rows => i = j
        /\ \A i, j \in DOMAIN queue' : i < j /\ queue'[i] = Stop => queue'[j] \notin OnLoop
    BY <1>3, <2>1, AppendStep DEF PutStop
  <2>3. \A r \in Rows : (r \in Held)' <=> r \in Held
    BY <1>3, <2>1, <2>2 DEF PutStop, Held
  <2>4. In(batch) \subseteq Rows
    BY DEF IInv, TypeOK, In
  <2>5. TypeOK' /\ Apart'
    BY <1>3, <2>1, <2>2, <2>4 DEF PutStop, IInv, TypeOK, Apart
  <2>6. Accounted'
    BY <1>3, <2>3 DEF PutStop, IInv, Accounted
  <2>7. StopIsLast' /\ SentinelDrains'
    BY <1>3, <2>1, <2>2 DEF PutStop, IInv, StopIsLast, SentinelDrains
  <2>8. QED
    BY <2>5, <2>6, <2>7 DEF IInv
<1>4. CASE Kill
  <2>1. worker' \in Workers /\ (worker' = "drained" => worker = "drained")
    BY <1>4 DEF Kill, IInv, TypeOK, Workers, Ended
  <2>2. QED
    BY <1>4, <2>1 DEF Kill, IInv, TypeOK, Apart, Accounted, Held, StopIsLast, SentinelDrains
<1>5. ASSUME NEW r \in Rows, Check(r)
      PROVE  IInv'
  <2>1. /\ queue' = queue /\ batch' = batch /\ table' = table /\ worker' = worker
        /\ running' = running /\ stopper' = stopper
        /\ caller[r] = "idle"
        /\ caller' = [caller EXCEPT ![r] = IF running THEN "putting" ELSE "writing"]
    BY <1>5 DEF Check
  <2>2. TypeOK' /\ Apart' /\ SentinelDrains'
    BY <1>0, <2>1 DEF IInv, TypeOK, Apart, SentinelDrains
  <2>3. Accounted'
    BY <1>0, <2>1 DEF IInv, Accounted, Held
  <2>4. StopIsLast'
    BY <1>0, <2>1 DEF IInv, StopIsLast
  <2>5. QED
    BY <2>2, <2>3, <2>4 DEF IInv
<1>6. ASSUME NEW r \in Rows, Put(r)
      PROVE  IInv'
  <2>1. /\ batch' = batch /\ table' = table /\ worker' = worker
        /\ running' = running /\ stopper' = stopper
        /\ caller[r] = "putting" /\ stopper # "killed"
        /\ queue' = Append(queue, r)
        /\ caller' = [caller EXCEPT ![r] = "queued"]
    BY <1>6 DEF Put
  <2>2. r \notin Held /\ r \in Items /\ r # Stop
    BY <1>0, <2>1 DEF IInv, Accounted, Items
  <2>3. r \in OnLoop => Stop \notin In(queue) /\ worker # "drained"
    BY <2>1 DEF IInv, StopIsLast
  <2>4. /\ queue' \in Seq(Items) /\ In(queue') = In(queue) \union {r}
        /\ \A i, j \in DOMAIN queue' : queue'[i] = queue'[j] /\ queue'[i] \in Rows => i = j
        /\ \A i, j \in DOMAIN queue' : i < j /\ queue'[i] = Stop => queue'[j] \notin OnLoop
    BY <2>1, <2>2, <2>3, AppendStep
  <2>5. TypeOK' /\ Apart'
    BY <1>0, <2>1, <2>2, <2>4 DEF IInv, TypeOK, Apart, Held
  <2>6. Accounted'
    BY <1>0, <2>1, <2>4 DEF IInv, Accounted, Held
  <2>7. StopIsLast' /\ SentinelDrains'
    BY <1>0, <2>1, <2>2, <2>3, <2>4 DEF IInv, StopIsLast, SentinelDrains
  <2>8. QED
    BY <2>5, <2>6, <2>7 DEF IInv
<1>7. ASSUME NEW r \in Rows, WriteSync(r)
      PROVE  IInv'
  <2>1. /\ queue' = queue /\ batch' = batch /\ worker' = worker
        /\ running' = running /\ stopper' = stopper
        /\ caller[r] = "writing" /\ table[r] = 0 /\ r \notin Held
        /\ \/ table' = table /\ caller' = [caller EXCEPT ![r] = "raised"]
           \/ /\ table' = [table EXCEPT ![r] = table[r] + 1]
              /\ caller' = [caller EXCEPT ![r] = "written"]
    BY <1>7 DEF WriteSync, IInv, Accounted
  <2>2. /\ \A x \in OnLoop : caller'[x] = "putting" => caller[x] = "putting"
        /\ table' \in [Rows -> Nat]
        /\ caller' \in [Rows -> {"idle", "putting", "writing", "queued", "written", "raised"}]
    BY <1>0, <2>1
  <2>3. TypeOK' /\ Apart' /\ SentinelDrains'
    BY <2>1, <2>2 DEF IInv, TypeOK, Apart, SentinelDrains
  <2>5. StopIsLast'
    BY <2>1, <2>2 DEF IInv, StopIsLast
  <2>6. Accounted'
    BY <1>0, <2>1 DEF IInv, Accounted, Held
  <2>4. QED
    BY <2>3, <2>5, <2>6 DEF IInv
<1>8. CASE PutFlush
  <2>1. Flush \in Items /\ Flush \notin OnLoop /\ Flush \notin Rows
    BY <1>0 DEF Items
  <2>9. Flush # Stop
    BY DEF Flush, Stop
  <2>2. /\ queue' \in Seq(Items) /\ In(queue') = In(queue) \union {Flush}
        /\ \A i, j \in DOMAIN queue' : queue'[i] = queue'[j] /\ queue'[i] \in Rows => i = j
        /\ \A i, j \in DOMAIN queue' : i < j /\ queue'[i] = Stop => queue'[j] \notin OnLoop
    BY <1>8, <2>1, AppendStep DEF PutFlush
  <2>3. In(batch) \subseteq Rows
    BY DEF IInv, TypeOK, In
  <2>4. \A r \in Rows : (r \in Held)' <=> r \in Held
    BY <1>8, <2>1, <2>2 DEF PutFlush, Held
  <2>5. TypeOK' /\ Apart'
    BY <1>8, <2>1, <2>2, <2>3 DEF PutFlush, IInv, TypeOK, Apart
  <2>6. Accounted'
    BY <1>8, <2>4 DEF PutFlush, IInv, Accounted
  <2>7. StopIsLast' /\ SentinelDrains'
    BY <1>8, <2>9, <2>1, <2>2 DEF PutFlush, IInv, StopIsLast, SentinelDrains
  <2>8. QED
    BY <2>5, <2>6, <2>7 DEF IInv
<1>9. CASE UNCHANGED vars
  BY <1>9 DEF vars, IInv, TypeOK, Apart, Accounted, Held, StopIsLast, SentinelDrains
<1>10. QED
  BY <1>1, <1>2, <1>3, <1>4, <1>5, <1>6, <1>7, <1>8, <1>9, WorkerStepKeepsIInv DEF Next

\* Where rows and the sentinel may be, in every reachable state.
THEOREM WriterInvariant == Spec => []IInv
  BY InitIInv, NextIInv, PTL DEF Spec

\* Types, and the batch that is flushed before it exceeds its size.
THEOREM WriterTypes == Spec => []TypeOK
<1>1. IInv => TypeOK
  BY DEF IInv
<1>2. QED
  BY WriterInvariant, <1>1, PTL

\* A worker that ends on the sentinel has written all the event loop gave it
\* before stop(), whatever other threads and flush sentinels put in between.
THEOREM SentinelDrainsAlways == Spec => []SentinelDrains
<1>1. IInv => SentinelDrains
  BY DEF IInv
<1>2. QED
  BY WriterInvariant, <1>1, PTL

-----------------------------------------------------------------------------
\* The fate of a row, from the progress of its enqueue() and where it is.
Where(r) ==
  IF caller[r] \in {"idle", "putting", "writing"} THEN "new"
  ELSE IF caller[r] = "raised" THEN "refused"
  ELSE IF caller[r] = "written" THEN "stored"
  ELSE IF r \in Held THEN IF worker \in Ended THEN "abandoned" ELSE "waiting"
  ELSE IF table[r] = 1 THEN "stored" ELSE "refused"

FatesAreKnown == \A r \in Rows : Fate(r) = Where(r)

\* By the invariant, where a row is follows from its caller and its places.
LEMMA FatesKnown == IInv => FatesAreKnown
<1> SUFFICES ASSUME IInv, NEW r \in Rows PROVE Fate(r) = Where(r)
  BY DEF FatesAreKnown
<1>1. /\ r \in Held => caller[r] = "queued" /\ table[r] = 0
      /\ caller[r] \in {"idle", "putting", "writing", "raised"} => table[r] = 0
      /\ caller[r] = "written" => table[r] = 1
      /\ table[r] \in {0, 1}
      /\ caller[r] = "queued" => r \in Held \/ table[r] = 1 \/ r \in Bad
      /\ caller[r] \in {"idle", "putting", "writing", "queued", "written", "raised"}
      /\ Held = In(batch) \union In(queue)
  BY DEF IInv, TypeOK, Accounted, Held
<1>2. CASE table[r] = 1
  BY <1>1, <1>2 DEF Fate, Where
<1>3. CASE table[r] = 0
  BY <1>1, <1>3 DEF Fate, Where
<1>4. QED
  BY <1>1, <1>2, <1>3

\* The same in the next state.
LEMMA FatesKnownNext == IInv' => FatesAreKnown'
  BY FatesKnown, PTL

F  == [r \in Rows |-> Fate(r)]
Up == worker \notin Ended

\* To begin with every row is new.
LEMMA InitPromise == Init => Promise!Init
<1> SUFFICES ASSUME Init PROVE Promise!Init
  OBVIOUS
<1>1. \A r \in Rows : Fate(r) = Where(r)
  BY InitIInv, FatesKnown DEF FatesAreKnown
<1>2. \A r \in Rows : Where(r) = "new"
  BY DEF Init, Where
<1>3. worker \notin Ended
  BY DEF Init, Ended
<1>4. QED
  BY <1>1, <1>2, <1>3 DEF Promise!Init

\* The rows S leave the batch and the queue for the table, or are refused; the
\* worker may end in the same step.
LEMMA SettleStep ==
  ASSUME IInv, IInv', NEW S \in SUBSET Rows, S \subseteq Held, Up, caller' = caller,
         \A r \in Rows : (r \in Held)' <=> r \in Held \ S,
         \A r \in Rows : table'[r] = IF r \in S \ Bad THEN table[r] + 1 ELSE table[r]
  PROVE  Promise!Settle(S)
<1>1. /\ \A r \in Rows : F[r] = Where(r) /\ F'[r] = Where(r)'
      /\ F' = [r \in Rows |-> F'[r]]
  BY FatesKnown, FatesKnownNext DEF FatesAreKnown, F
<1>2. /\ \A r \in Rows : r \in Held => caller[r] = "queued" /\ table[r] = 0
      /\ \A r \in Rows : table[r] \in {0, 1}
  BY DEF IInv, Accounted
<1>3. ASSUME NEW r \in S PROVE F[r] = "waiting" /\ F'[r] = Promise!Verdict(r)
  <2>1. Where(r) = "waiting"
    BY <1>2, <1>3 DEF Where, Up
  <2>2. Where(r)' = IF r \in Bad THEN "refused" ELSE "stored"
    BY <1>2, <1>3 DEF Where
  <2>3. QED
    BY <1>1, <2>1, <2>2 DEF Promise!Verdict
<1>4. ASSUME NEW r \in Rows \ S
      PROVE  F'[r] = IF ~Up' /\ F[r] = "waiting" THEN "abandoned" ELSE F[r]
  <2>1. Where(r)' = IF ~Up' /\ Where(r) = "waiting" THEN "abandoned" ELSE Where(r)
    BY <1>2 DEF Where, Up
  <2>2. QED
    BY <1>1, <2>1
<1>5. Up' \in BOOLEAN
  BY DEF Up
<1>6. F' = [r \in Rows |-> IF r \in S THEN Promise!Verdict(r)
                           ELSE IF ~Up' /\ F[r] = "waiting" THEN "abandoned" ELSE F[r]]
  BY <1>1, <1>3, <1>4
<1>7. CASE Up'
  <2>1. F' = [r \in Rows |-> IF r \in S THEN Promise!Verdict(r) ELSE F[r]]
    BY <1>6, <1>7
  <2>2. QED
    BY <1>3, <1>7, <2>1 DEF Promise!Settle, F, Up
<1>8. CASE ~Up'
  <2>1. F' = [r \in Rows |-> IF r \in S THEN Promise!Verdict(r)
                             ELSE IF F[r] = "waiting" THEN "abandoned" ELSE F[r]]
    BY <1>6, <1>8
  <2>2. QED
    BY <1>3, <1>8, <2>1 DEF Promise!Settle, F, Up
<1>9. QED
  BY <1>7, <1>8

\* Every step is a stutter, hands over a row, writes one through, or settles
\* a batch.
LEMMA StepPromise ==
  ASSUME IInv, IInv', [Next]_vars
  PROVE  [Promise!Next]_<<F, Up>>
<1>1. /\ \A r \in Rows : F[r] = Where(r) /\ F'[r] = Where(r)'
      /\ F = [r \in Rows |-> F[r]] /\ F' = [r \in Rows |-> F'[r]]
  BY FatesKnown, FatesKnownNext DEF FatesAreKnown, F
<1>2. ASSUME \A r \in Rows : Where(r)' = Where(r), Up' = Up
      PROVE  UNCHANGED <<F, Up>>
  <2>1. F' = F
    BY <1>1, <1>2
  <2>2. QED
    BY <1>2, <2>1
<1>3. /\ \A r \in Rows : r \in Held => caller[r] = "queued" /\ table[r] = 0
      /\ \A r \in Rows : caller[r] \in {"idle", "putting", "writing"} => table[r] = 0
      /\ \A r \in Rows : table[r] \in {0, 1}
      /\ \A r \in Rows : caller[r] = "queued" => r \in Held \/ table[r] = 1 \/ r \in Bad
      /\ table \in [Rows -> Nat]
      /\ caller \in [Rows -> {"idle", "putting", "writing", "queued", "written", "raised"}]
  BY DEF IInv, TypeOK, Accounted
<1>4. ASSUME NEW r \in Rows, Check(r)
      PROVE  UNCHANGED <<F, Up>>
  <2>1. \A x \in Rows : Where(x)' = Where(x)
    BY <1>3, <1>4 DEF Check, Where, Held
  <2>2. QED
    BY <1>2, <1>4, <2>1 DEF Check, Up
<1>5. ASSUME NEW r \in Rows, Put(r)
      PROVE  Promise!Accept(r)
  <2>1. /\ In(queue') = In(queue) \union {r} /\ batch' = batch /\ table' = table
        /\ worker' = worker /\ caller[r] = "putting"
        /\ caller' = [caller EXCEPT ![r] = "queued"]
    <3>1. queue \in Seq(Items) /\ r \in Items
      BY DEF IInv, TypeOK, Items
    <3>2. QED
      BY <1>5, <3>1, InAppend DEF Put
  <2>2. Where(r) = "new" /\ Where(r)' = IF Up THEN "waiting" ELSE "abandoned"
    BY <1>3, <2>1 DEF Where, Held, Up
  <2>3. \A x \in Rows \ {r} : Where(x)' = Where(x)
    BY <1>3, <2>1 DEF Where, Held
  <2>4. F[r] = "new" /\ F' = [F EXCEPT ![r] = IF Up THEN "waiting" ELSE "abandoned"]
    BY <1>1, <2>2, <2>3
  <2>5. Up' = Up
    BY <2>1 DEF Up
  <2>6. QED
    BY <2>4, <2>5 DEF Promise!Accept, F, Up
<1>6. ASSUME NEW r \in Rows, WriteSync(r)
      PROVE  Promise!WriteThrough(r)
  <2>1. /\ queue' = queue /\ batch' = batch /\ worker' = worker
        /\ caller[r] = "writing" /\ table[r] = 0 /\ r \notin Held
        /\ r \in Bad => table' = table /\ caller' = [caller EXCEPT ![r] = "raised"]
        /\ r \notin Bad => /\ table' = [table EXCEPT ![r] = table[r] + 1]
                           /\ caller' = [caller EXCEPT ![r] = "written"]
    BY <1>3, <1>6 DEF WriteSync
  <2>2. Where(r) = "new" /\ Where(r)' = IF r \in Bad THEN "refused" ELSE "stored"
    BY <1>3, <2>1 DEF Where
  <2>3. \A x \in Rows \ {r} : Where(x)' = Where(x)
    BY <1>3, <2>1 DEF Where, Held
  <2>4. F[r] = "new" /\ F' = [F EXCEPT ![r] = IF r \in Bad THEN "refused" ELSE "stored"]
    BY <1>1, <2>2, <2>3
  <2>5. Up' = Up
    BY <2>1 DEF Up
  <2>6. QED
    BY <2>4, <2>5 DEF Promise!WriteThrough, Promise!Verdict, F, Up
<1>7. ASSUME Start \/ Signal \/ Join
      PROVE  UNCHANGED <<F, Up>>
  <2>1. /\ queue' = queue /\ batch' = batch /\ table' = table /\ caller' = caller
        /\ Up' = Up
    BY <1>7 DEF Start, Signal, Join, Up, Ended
  <2>2. \A r \in Rows : Where(r)' = Where(r)
    BY <2>1 DEF Where, Held, Up
  <2>3. QED
    BY <1>2, <2>1, <2>2
<1>8. ASSUME PutStop \/ PutFlush
      PROVE  UNCHANGED <<F, Up>>
  <2>1. queue \in Seq(Items) /\ Stop \in Items \ Rows /\ Flush \in Items \ Rows
    BY WriterAssumption DEF IInv, TypeOK, Items
  <2>2. /\ In(queue') = In(queue) \union {Stop} \/ In(queue') = In(queue) \union {Flush}
        /\ batch' = batch /\ table' = table /\ caller' = caller /\ worker' = worker
    <3>1. /\ In(Append(queue, Stop)) = In(queue) \union {Stop}
          /\ In(Append(queue, Flush)) = In(queue) \union {Flush}
      BY <2>1, InAppend
    <3>2. QED
      BY <1>8, <3>1 DEF PutStop, PutFlush
  <2>3. \A r \in Rows : Where(r)' = Where(r)
    BY <2>1, <2>2 DEF Where, Held
  <2>4. QED
    BY <1>2, <2>2, <2>3 DEF Up
<1>9. ASSUME Kill \/ Connect \/ Recheck
      PROVE  Promise!Settle({}) \/ UNCHANGED <<F, Up>>
  <2>1. /\ queue' = queue /\ batch' = batch /\ table' = table /\ caller' = caller
        /\ Up' => Up
        /\ Up \/ Up' = Up
    BY <1>9 DEF Kill, Connect, Recheck, Up, Ended
  <2>2. CASE Up
    <3>1. \A r \in Rows : (r \in Held)' <=> r \in Held \ {}
      BY <2>1 DEF Held
    <3>2. QED
      BY <2>1, <2>2, <3>1, SettleStep
  <2>3. CASE Up' = Up
    <3>1. \A r \in Rows : Where(r)' = Where(r)
      BY <2>1, <2>3 DEF Where, Held, Up
    <3>2. QED
      BY <1>2, <2>3, <3>1
  <2>4. QED
    BY <2>1, <2>2, <2>3
<1>10. /\ In(batch) \subseteq Rows /\ In(batch) \intersect In(queue) = {}
       /\ queue \in Seq(Items) /\ batch \in Seq(Rows)
  <2>1. queue \in Seq(Items) /\ batch \in Seq(Rows) /\ In(batch) \intersect In(queue) = {}
    BY DEF IInv, TypeOK, Apart
  <2>2. In(batch) \subseteq Rows
    BY <2>1 DEF In
  <2>3. QED
    BY <2>1, <2>2
<1>11. ASSUME RunDry
       PROVE  Promise!Settle(In(batch))
  <2>1. /\ queue' = queue /\ In(batch') = {} /\ table' = Committed(batch)
        /\ caller' = caller /\ Up
    BY <1>11, InEmpty DEF RunDry, FlushBatch, Up, Ended
  <2>2. \A r \in Rows : (r \in Held)' <=> r \in Held \ In(batch)
    BY <1>10, <2>1 DEF Held
  <2>3. In(batch) \subseteq Held
    BY DEF Held
  <2>4. QED
    BY <1>10, <2>1, <2>2, <2>3, SettleStep DEF Committed
<1>12. ASSUME Take
       PROVE  \/ \E S \in SUBSET Rows : Promise!Settle(S)
              \/ UNCHANGED <<F, Up>>
  <2> DEFINE h == Head(queue)
  <2>1. /\ queue # <<>> /\ caller' = caller /\ Up /\ queue' = Tail(queue)
    BY <1>12 DEF Take, Up, Ended
  <2>2. /\ In(queue) = {h} \union In(queue') /\ h \in Items
        /\ h \in Rows => h \notin In(queue')
    BY <2>1, TailStep
  <2>3. CASE h \notin Rows
    <3>1. In(batch') = {} /\ table' = Committed(batch)
      BY <1>12, <2>1, <2>2, <2>3, InEmpty DEF Take, Items, FlushBatch, Stop, Flush
    <3>2. \A r \in Rows : (r \in Held)' <=> r \in Held \ In(batch)
      BY <1>10, <2>2, <2>3, <3>1 DEF Held
    <3>3. In(batch) \subseteq Held
      BY DEF Held
    <3>4. Promise!Settle(In(batch))
      BY <1>10, <2>1, <3>1, <3>2, <3>3, SettleStep DEF Committed
    <3>5. QED
      BY <1>10, <3>4
  <2>4. CASE h \in Rows
    <3>1. worker' = worker /\ Keep(h)
      BY <1>12, <2>4, WriterAssumption DEF Take
    <3> DEFINE b == Append(batch, h)
    <3>2. In(b) = In(batch) \union {h} /\ In(b) \subseteq Rows /\ In(b) \subseteq Held
      BY <1>10, <2>2, <2>4, InAppend DEF Held
    <3>3. CASE Len(b) >= BatchSize
      <4>1. In(batch') = {} /\ table' = Committed(b)
        BY <3>1, <3>3, InEmpty DEF Keep
      <4>2. \A r \in Rows : (r \in Held)' <=> r \in Held \ In(b)
        BY <1>10, <2>2, <2>4, <3>2, <4>1 DEF Held
      <4>3. Promise!Settle(In(b))
        BY <2>1, <3>2, <4>1, <4>2, SettleStep DEF Committed
      <4>4. QED
        BY <3>2, <4>3
    <3>4. CASE ~(Len(b) >= BatchSize)
      <4>1. batch' = b /\ table' = table
        BY <3>1, <3>4 DEF Keep
      <4>2. \A r \in Rows : (r \in Held)' <=> r \in Held
        BY <2>2, <3>2, <4>1 DEF Held
      <4>3. \A r \in Rows : Where(r)' = Where(r)
        BY <2>1, <3>1, <4>1, <4>2 DEF Where
      <4>4. QED
        BY <1>2, <3>1, <4>3 DEF Up
    <3>5. QED
      BY <3>3, <3>4
  <2>5. QED
    BY <2>3, <2>4
<1>13. ASSUME UNCHANGED vars
       PROVE  UNCHANGED <<F, Up>>
  <2>1. \A r \in Rows : Where(r)' = Where(r)
    BY <1>13 DEF vars, Where, Held
  <2>2. QED
    BY <1>2, <1>13, <2>1 DEF vars, Up
<1>14. QED
  BY <1>4, <1>5, <1>6, <1>7, <1>8, <1>9, <1>11, <1>12, <1>13, <1>10
  DEF Next, WorkerStep, Promise!Next

\* BackgroundWriter implements WriteBehind: every row has one fate.
THEOREM EveryRowHasOneFateAlways == Spec => EveryRowHasOneFate
<1>1. IInv /\ IInv' /\ [Next]_vars => [Promise!Next]_<<F, Up>>
  BY StepPromise
<1>2. QED
  BY <1>1, InitPromise, WriterInvariant, PTL
  DEF Spec, EveryRowHasOneFate, Promise!Spec, F, Up
=============================================================================
