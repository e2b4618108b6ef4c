------------------------ MODULE SupervisorLifeProofs ------------------------
(***************************************************************************)
(* For any number of processes, commands and requests: the supervisor      *)
(* never has two workers, its state is well typed, and a reset that it     *)
(* acknowledges was done where the circuits are, unless its call failed at *)
(* a worker that lives.  The first needs only the process side of the      *)
(* state, which the steps of requests leave alone; the last relates what a *)
(* request was told to the processes it went past.                         *)
(***************************************************************************)
EXTENDS SupervisorLife, TLAPS

Conditions == {"unborn", "booting", "serving", "draining", "dead"}

\* Who holds the port serves; a stop in progress is of a process there is; and a
\* supervisor that is gone holds none.
ProcInv ==
  /\ worker \in [Pids -> Conditions]
  /\ port \in Pids \union {None} /\ proc \in Pids \union {None}
  /\ orphaned \in BOOLEAN
  /\ port # None => worker[port] = "serving"
  /\ loop = "exiting" => proc # None
  /\ loop = "gone" => proc = None

IInv == ProcInv /\ NoSpareWorker

\* Circuits are open only in processes that live; who serves has the port, and the
\* supervisor's own worker drains only while a stop waits for it.
CircuitInv ==
  /\ \A p \in tripped : worker[p] \in {"serving", "draining"}
  /\ \A p \in Pids : worker[p] = "serving" => port = p
  /\ proc # None /\ worker[proc] = "draining" => loop = "exiting"

\* What a request has before it is over.  A reset past its check, while circuits are
\* open in the supervisor's worker, waits for the answer of that very worker, or is
\* over: without an acknowledgement, unless its call was given up.
RequestInv ==
  \A r \in Requests :
    /\ at[r] \in {"new", "body"} => truth[r] = "none"
    /\ at[r] = "working" /\ truth[r] = "ok" => left[r] > 0
    /\ Kind[r] = "reset" /\ at[r] # "done" => reply[r] = "none"
    /\ Kind[r] = "reset" /\ at[r] \notin {"new", "body"} /\ proc \in tripped =>
         \/ at[r] = "working" /\ who[r] = proc /\ truth[r] = "none"
         \/ at[r] = "done" /\ (reply[r] = "ok" => r \in dropped)

FullInv == IInv /\ TypeOK /\ CircuitInv /\ RequestInv

-----------------------------------------------------------------------------
\* No process is running when the supervisor starts, so nothing is spare.
LEMMA InitSafe == Init => IInv
<1> SUFFICES ASSUME Init PROVE IInv
  OBVIOUS
<1>1. /\ worker = [p \in Pids |-> "unborn"] /\ port = None /\ proc = None
      /\ loop = "gone" /\ orphaned = FALSE
  BY DEF Init
<1>2. \A p \in Pids : worker[p] = "unborn"
  BY <1>1
<1> QED
  BY <1>1, <1>2 DEF IInv, ProcInv, NoSpareWorker, Alive, Conditions

\* What a step of the requests leaves alone is all the invariant speaks of.
LEMMA RequestsKeepIt == IInv /\ UNCHANGED procVars => IInv'
  BY DEF IInv, ProcInv, NoSpareWorker, Alive, procVars

\* A worker that binds the port, or finds it taken and dies.
LEMMA BindKeepsIt == ASSUME NEW p \in Pids, IInv, Bind(p) PROVE IInv'
  BY LifeAssumption DEF Bind, IInv, ProcInv, NoSpareWorker, Alive, Conditions, None

\* A worker that ends, by itself or by a crash, gives the port up.
LEMMA EndKeepsIt ==
  ASSUME NEW p \in Pids, IInv, Alive(p), Ended(p),
         UNCHANGED <<proc, loop, orphaned>>
  PROVE  IInv'
  BY LifeAssumption DEF Ended, IInv, ProcInv, NoSpareWorker, Alive, Conditions, None

\* A process is spawned only where none runs.
LEMMA SpawnKeepsIt ==
  ASSUME IInv, ~Running, Spawn, UNCHANGED orphaned
  PROVE  IInv'
<1>1. PICK p \in Fresh : /\ proc' = p
                         /\ worker' = [worker EXCEPT ![p] = "booting"]
                         /\ loop' = "readying" /\ UNCHANGED port
  BY DEF Spawn
<1>2. p \in Pids /\ worker[p] = "unborn"
  BY DEF Fresh
<1>3. p # None
  BY <1>2, LifeAssumption
<1>4. ProcInv'
  BY <1>1, <1>2, <1>3 DEF IInv, ProcInv, Conditions, None
<1>5. ASSUME ~orphaned' PROVE port = None /\ \A q \in Pids : ~Alive(q)
  BY <1>5, LifeAssumption DEF IInv, ProcInv, NoSpareWorker, Running, Alive, None
<1>6. NoSpareWorker'
  BY <1>1, <1>2, <1>5 DEF NoSpareWorker, IInv, ProcInv, Alive, None
<1> QED BY <1>4, <1>6 DEF IInv

\* Terminating the worker takes the port from it and nothing else.
LEMMA TerminateKeepsIt ==
  ASSUME IInv, Running, Terminate(proc), UNCHANGED <<proc, orphaned>>
  PROVE  IInv'
  BY LifeAssumption
  DEF Terminate, Running, IInv, ProcInv, NoSpareWorker, Alive, Conditions, None

\* Once the process has ended, or was killed, at most its successor is there.
LEMMA AfterExitKeepsIt ==
  ASSUME IInv, loop = "exiting", AfterExit, UNCHANGED orphaned
  PROVE  IInv'
<1> DEFINE next == IF goal = "restart" THEN Fresh ELSE {}
<1>1. proc \in Pids /\ proc # None
  BY DEF IInv, ProcInv
<1>2. \A p \in next : p \in Pids /\ p # None /\ worker[p] = "unborn"
  BY LifeAssumption DEF Fresh
<1>3. \A p, q \in next : p = q
  <2> SUFFICES ASSUME NEW p \in Fresh, NEW q \in Fresh PROVE p = q
    OBVIOUS
  <2>1. p \in Nat /\ q \in Nat
    BY LifeAssumption DEF Fresh
  <2> QED BY <2>1 DEF Fresh
<1>4. CASE next = {}
  <2>1. /\ proc' = None
        /\ worker' = [p \in Pids |-> IF p = proc THEN "dead" ELSE worker[p]]
        /\ port' = IF port = proc THEN None ELSE port
        /\ loop' \in {"gone", "free"}
    BY <1>4 DEF AfterExit, None
  <2> QED BY <2>1, <1>1 DEF IInv, ProcInv, NoSpareWorker, Alive, Conditions, None
<1>5. CASE next # {}
  <2>1. PICK n \in next : TRUE
    BY <1>5
  <2>2. next = {n}
    BY <1>3, <2>1
  <2>3. proc' = n /\ loop' = "readying"
    BY <1>5, <2>2 DEF AfterExit
  <2>4. n \in Pids /\ n # None /\ worker[n] = "unborn"
    BY <1>2, <2>1
  <2>5. \A p \in Pids : worker'[p] = IF p = proc THEN "dead"
                                     ELSE IF p = n THEN "booting" ELSE worker[p]
    BY <2>2, <1>1, <2>4 DEF AfterExit
  <2>6. worker' = [p \in Pids |-> worker'[p]]
    BY DEF AfterExit
  <2>7. port' = IF port = proc THEN None ELSE port
    BY DEF AfterExit
  <2>8. worker' \in [Pids -> Conditions]
    <3>1. \A p \in Pids : worker'[p] \in Conditions
      BY <2>5 DEF IInv, ProcInv, Conditions
    <3> QED BY <3>1, <2>6
  <2>9. ProcInv'
    BY <2>3, <2>4, <2>5, <2>7, <2>8, <1>1 DEF IInv, ProcInv, None
  <2>10. NoSpareWorker'
    BY <2>3, <2>4, <2>5, <2>7, <1>1 DEF IInv, ProcInv, NoSpareWorker, Alive, None
  <2> QED BY <2>9, <2>10 DEF IInv
<1> QED BY <1>4, <1>5

\* A killed supervisor leaves an orphan only if it had a worker.
LEMMA KillKeepsIt == IInv /\ SupervisorKilled => IInv'
  BY LifeAssumption
  DEF SupervisorKilled, Running, IInv, ProcInv, NoSpareWorker, Alive, Conditions, None

\* One case per action; those of the requests change nothing the invariant reads.
LEMMA NextSafe == IInv /\ [Next]_vars => IInv'
<1> SUFFICES ASSUME IInv, [Next]_vars PROVE IInv'
  OBVIOUS
<1>1. ASSUME NEW p \in Pids, Bind(p) PROVE IInv'
  BY <1>1, BindKeepsIt
<1>2. ASSUME NEW p \in Pids, Crash(p) \/ Exit(p) PROVE IInv'
  <2>1. Alive(p) /\ Ended(p) /\ UNCHANGED <<proc, loop, orphaned>>
    BY <1>2, LifeAssumption DEF Crash, Exit, Alive, None
  <2> QED BY <2>1, EndKeepsIt
<1>3. ASSUME NEW p \in Pids, Trip(p) PROVE IInv'
  BY <1>3, RequestsKeepIt DEF Trip
<1>4. ASSUME Launch PROVE IInv'
  <2>1. ~Running
    BY <1>4 DEF Launch, IInv, ProcInv, Running, Alive
  <2> QED BY <1>4, <2>1, SpawnKeepsIt DEF Launch
<1>5. ASSUME Poll PROVE IInv'
  BY <1>5 DEF Poll, IInv, ProcInv, NoSpareWorker, Alive
<1>6. ASSUME AwaitExit PROVE IInv'
  <2>1. CASE Alive(proc) /\ patience > 0
    BY <1>6, <2>1 DEF AwaitExit, IInv, ProcInv, NoSpareWorker, Alive
  <2>2. CASE ~(Alive(proc) /\ patience > 0)
    BY <1>6, <2>2, AfterExitKeepsIt DEF AwaitExit
  <2> QED BY <2>1, <2>2
<1>7. ASSUME NEW c \in {"start", "stop", "restart", "quit"}, Command(c) PROVE IInv'
  <2>1. CASE Running /\ c = "start"
    BY <1>7, <2>1 DEF Command, IInv, ProcInv, NoSpareWorker, Alive
  <2>2. CASE Running /\ c # "start"
    BY <1>7, <2>2, TerminateKeepsIt DEF Command
  <2>3. CASE ~Running /\ c \in {"start", "restart"}
    BY <1>7, <2>3, SpawnKeepsIt DEF Command
  <2>4. CASE ~Running /\ c \in {"stop", "quit"}
    BY <1>7, <2>4, LifeAssumption
    DEF Command, Running, IInv, ProcInv, NoSpareWorker, Alive, None
  <2> QED BY <2>1, <2>2, <2>3, <2>4
<1>8. ASSUME NEW r \in Requests,
             \/ Check(r) \/ Send(r) \/ Read(r) \/ Lost(r) \/ GiveUp(r) \/ HangUp(r)
             \/ Write(r) \/ \E s \in {"ok", "error"} : Answer(r, s)
      PROVE IInv'
  <2>1. UNCHANGED procVars
    BY <1>8 DEF Check, Send, Read, Lost, GiveUp, HangUp, Write, Answer
  <2> QED BY <2>1, RequestsKeepIt
<1>9. CASE UNCHANGED vars
  BY <1>9, RequestsKeepIt DEF vars, procVars
<1> QED
  BY <1>1, <1>2, <1>3, <1>4, <1>5, <1>6, <1>7, <1>8, <1>9, KillKeepsIt DEF Next, WorkerStep

\* While no supervisor has been killed over a worker, the process the supervisor
\* holds is the only one there is, and the port is nobody else's: the property
\* NoSpareWorker of start(), stop() and restart() for any number of processes.
THEOREM OneWorker == Spec => []NoSpareWorker
<1>1. Spec => []IInv
  BY InitSafe, NextSafe, PTL DEF Spec
<1>2. IInv => NoSpareWorker
  BY DEF IInv
<1> QED BY <1>1, <1>2, PTL

-----------------------------------------------------------------------------
\* The two halves of TypeOK: the processes, and the requests.
ProcTypes ==
  /\ worker \in [Pids -> Conditions]
  /\ port \in Pids \union {None} /\ proc \in Pids \union {None} /\ tripped \subseteq Pids
  /\ loop \in Loops /\ goal \in {"none", "start", "stop", "restart", "quit"}
  /\ patience \in Nat /\ commands \in 0..MaxCommands /\ orphaned \in BOOLEAN

ReqTypes ==
  /\ at \in [Requests -> {"new", "body", "working", "written", "done"}]
  /\ who \in [Requests -> Pids \union {None}]
  /\ left \in [Requests -> 0..Chunks] /\ pending \in [Requests -> 0..Buffer]
  /\ truth \in [Requests -> Statuses] /\ reply \in [Requests -> Replies]
  /\ stale \in [Requests -> SUBSET Pids] /\ dropped \subseteq Requests

\* TypeOK is its two halves.
LEMMA TypeHalves == /\ TypeOK <=> ProcTypes /\ ReqTypes
                    /\ TypeOK' <=> ProcTypes' /\ ReqTypes'
  BY DEF TypeOK, ProcTypes, ReqTypes, Conditions

\* A request that ends keeps its form.
LEMMA DoneTypes ==
  ASSUME ReqTypes, NEW r \in Requests, NEW s \in Replies, Done(r, s)
  PROVE  /\ at' \in [Requests -> {"new", "body", "working", "written", "done"}]
         /\ who' \in [Requests -> Pids \union {None}]
         /\ left' \in [Requests -> 0..Chunks] /\ pending' \in [Requests -> 0..Buffer]
         /\ reply' \in [Requests -> Replies]
<1>1. 0 \in 0..Chunks /\ 0 \in 0..Buffer
  BY LifeAssumption
<1> QED BY <1>1 DEF ReqTypes, Done

\* The steps of the requests keep the requests in form.  A stream has a piece left
\* for as long as its worker is at it.
LEMMA RequestTypes ==
  ASSUME FullInv, NEW r \in Requests,
         \/ Check(r) \/ Send(r) \/ Read(r) \/ Lost(r) \/ GiveUp(r) \/ HangUp(r)
         \/ Write(r) \/ \E s \in {"ok", "error"} : Answer(r, s)
  PROVE  ReqTypes'
<1>1. ReqTypes /\ port \in Pids \union {None} /\ tripped \subseteq Pids
  BY TypeHalves DEF FullInv, ProcTypes
<1>2. Chunks \in Nat /\ Buffer \in Nat
  BY LifeAssumption
<1>3. {"ok", "stopped", "unreachable", "failed"} \subseteq Replies
  BY DEF Replies, Statuses
<1>4. Unreachable(r) \in Replies
  BY <1>3 DEF Unreachable
<1>5. CASE Check(r)
  <2>1. UNCHANGED <<truth, dropped>> /\ stale' \in [Requests -> SUBSET Pids]
    BY <1>1, <1>5 DEF Check, ReqTypes
  <2>2. CASE Running
    BY <1>1, <1>5, <2>1, <2>2 DEF Check, ReqTypes
  <2>3. CASE ~Running
    <3>1. PICK s \in Replies : Done(r, s)
      BY <1>3, <1>5, <2>3 DEF Check
    <3> QED BY <1>1, <2>1, <3>1, DoneTypes DEF ReqTypes
  <2> QED BY <2>2, <2>3
<1>6. CASE Send(r)
  <2>1. UNCHANGED <<truth, stale, dropped>>
    BY <1>6 DEF Send
  <2>2. CASE port = None
    <3>1. Done(r, Unreachable(r))
      BY <1>6, <2>2 DEF Send
    <3> QED BY <1>1, <1>4, <2>1, <3>1, DoneTypes DEF ReqTypes
  <2>3. CASE port # None
    <3>1. /\ at' = [at EXCEPT ![r] = "working"] /\ who' = [who EXCEPT ![r] = port]
          /\ left' = [left EXCEPT ![r] = IF Kind[r] = "stream" THEN Chunks ELSE 0]
          /\ reply' = IF Kind[r] = "stream" THEN [reply EXCEPT ![r] = "ok"] ELSE reply
          /\ UNCHANGED pending
      BY <1>6, <2>3 DEF Send
    <3>2. Chunks \in 0..Chunks /\ 0 \in 0..Chunks
      BY <1>2
    <3> QED BY <1>1, <1>3, <2>1, <3>1, <3>2 DEF ReqTypes
  <2> QED BY <2>2, <2>3
<1>7. CASE Read(r)
  <2>1. UNCHANGED <<truth, stale, dropped>>
    BY <1>7 DEF Read
  <2>2. CASE pending[r] > 0 /\ pending' = [pending EXCEPT ![r] = @ - 1]
             /\ UNCHANGED <<at, reply, who, left>>
    BY <1>1, <1>2, <2>1, <2>2 DEF ReqTypes
  <2>3. CASE Done(r, IF Kind[r] = "stream" THEN reply[r] ELSE truth[r])
    <3>1. (IF Kind[r] = "stream" THEN reply[r] ELSE truth[r]) \in Replies
      BY <1>1 DEF ReqTypes, Replies
    <3> QED BY <1>1, <2>1, <2>3, <3>1, DoneTypes DEF ReqTypes
  <2> QED BY <1>7, <2>2, <2>3 DEF Read
<1>8. CASE Lost(r)
  <2>1. PICK s \in Replies : Done(r, s)
    BY <1>3, <1>4, <1>8 DEF Lost
  <2> QED BY <1>1, <1>8, <2>1, DoneTypes DEF ReqTypes, Lost
<1>9. CASE HangUp(r)
  <2>1. reply[r] \in Replies
    BY <1>1 DEF ReqTypes
  <2> QED BY <1>1, <1>9, <2>1, DoneTypes DEF ReqTypes, HangUp
<1>10. CASE Write(r)
  <2>1. left[r] \in 1..Chunks /\ pending[r] \in 0..(Buffer - 1)
    BY <1>1, <1>2, <1>10 DEF Write, ReqTypes, FullInv, RequestInv
  <2>2. left' \in [Requests -> 0..Chunks] /\ pending' \in [Requests -> 0..Buffer]
    BY <1>1, <1>2, <1>10, <2>1 DEF Write, ReqTypes
  <2> QED BY <1>1, <1>10, <2>2 DEF Write, ReqTypes
<1>11. ASSUME NEW s \in {"ok", "error"}, Answer(r, s) PROVE ReqTypes'
  <2>1. truth' \in [Requests -> Statuses] /\ UNCHANGED <<who, pending, reply, stale, dropped>>
    BY <1>1, <1>11 DEF Answer, ReqTypes, Statuses
  <2>2. 0 \in 0..Chunks
    BY <1>2
  <2>3. /\ at' \in [Requests -> {"new", "body", "working", "written", "done"}]
        /\ left' \in [Requests -> 0..Chunks]
    BY <1>1, <1>11, <2>2 DEF Answer, ReqTypes
  <2> QED BY <1>1, <2>1, <2>3 DEF ReqTypes
<1>12. CASE GiveUp(r)
  <2>1. PICK s \in Replies : Done(r, s)
    BY <1>3, <1>4, <1>12 DEF GiveUp
  <2>2. UNCHANGED <<truth, stale>> /\ dropped' = dropped \union {r}
    BY <1>12 DEF GiveUp
  <2> QED BY <1>1, <2>1, <2>2, DoneTypes DEF ReqTypes
<1> QED BY <1>5, <1>6, <1>7, <1>8, <1>9, <1>10, <1>11, <1>12

\* A killed supervisor's requests are over, and so in form.
LEMMA KillTypes ==
  ASSUME TypeOK, SupervisorKilled PROVE TypeOK'
<1>1. ProcTypes /\ ReqTypes /\ 0 \in 0..Chunks /\ 0 \in 0..Buffer
  BY TypeHalves, LifeAssumption
<1>2. orphaned' \in BOOLEAN
  BY <1>1 DEF ProcTypes, SupervisorKilled, Running, Alive
<1>3. ProcTypes'
  BY <1>1, <1>2 DEF ProcTypes, SupervisorKilled, Loops
<1>4. ReqTypes'
  BY <1>1 DEF ReqTypes, SupervisorKilled
<1> QED BY <1>3, <1>4, TypeHalves

\* What the steps of the processes do to their half.
LEMMA SpawnTypes ==
  ASSUME ProcTypes, Spawn, UNCHANGED <<tripped, orphaned>>,
         goal' \in {"none", "start", "stop", "restart", "quit"}, commands' \in 0..MaxCommands
  PROVE  ProcTypes'
<1>1. PICK p \in Fresh : /\ proc' = p /\ worker' = [worker EXCEPT ![p] = "booting"]
                         /\ loop' = "readying" /\ patience' = ReadyPolls /\ UNCHANGED port
  BY DEF Spawn
<1>2. p \in Pids /\ ReadyPolls \in Nat
  BY LifeAssumption DEF Fresh
<1> QED BY <1>1, <1>2 DEF ProcTypes, Conditions, Loops

\* What stop() leaves: the process dead, its successor booting after a restart.
LEMMA AfterExitTypes ==
  ASSUME ProcTypes, AfterExit, UNCHANGED <<commands, orphaned>>
  PROVE  ProcTypes'
<1> DEFINE next == IF goal = "restart" THEN Fresh ELSE {}
<1>1. next \subseteq Pids /\ ReadyPolls \in Nat /\ 0 \in Nat
  BY LifeAssumption DEF Fresh
<1>2. proc' \in Pids \union {None}
  <2>1. CASE next = {}
    BY <2>1 DEF AfterExit
  <2>2. CASE next # {}
    <3>1. (CHOOSE p \in next : TRUE) \in next
      BY <2>2
    <3> QED BY <1>1, <2>2, <3>1 DEF AfterExit
  <2> QED BY <2>1, <2>2
<1>3. worker' \in [Pids -> Conditions]
  BY DEF AfterExit, ProcTypes, Conditions
<1>4. port' \in Pids \union {None} /\ tripped' \subseteq Pids
  BY DEF AfterExit, ProcTypes
<1>5. /\ loop' \in Loops /\ goal' \in {"none", "start", "stop", "restart", "quit"}
      /\ patience' \in Nat
  BY <1>1 DEF AfterExit, ProcTypes, Loops
<1> QED BY <1>2, <1>3, <1>4, <1>5 DEF ProcTypes

\* Every step keeps processes and requests in form.
LEMMA TypesKept == FullInv /\ [Next]_vars => TypeOK'
<1> SUFFICES ASSUME FullInv, [Next]_vars PROVE TypeOK'
  OBVIOUS
<1>1. ProcTypes /\ ReqTypes
  BY TypeHalves DEF FullInv
<1>2. ASSUME UNCHANGED reqVars, ProcTypes' PROVE TypeOK'
  BY <1>1, <1>2, TypeHalves DEF reqVars, ReqTypes
<1>3. ASSUME NEW p \in Pids, Bind(p) \/ Crash(p) \/ Exit(p) \/ Trip(p) PROVE TypeOK'
  <2>1. ProcTypes'
    <3>1. CASE Bind(p)
      BY <1>1, <3>1 DEF Bind, ProcTypes, Conditions
    <3>2. CASE Crash(p) \/ Exit(p)
      BY <1>1, <3>2 DEF Crash, Exit, Ended, ProcTypes, Conditions
    <3>3. CASE Trip(p)
      BY <1>1, <3>3 DEF Trip, procVars, ProcTypes
    <3> QED BY <1>3, <3>1, <3>2, <3>3
  <2> QED BY <1>2, <1>3, <2>1 DEF Bind, Crash, Exit, Trip
<1>4. ASSUME NEW r \in Requests,
             \/ Check(r) \/ Send(r) \/ Read(r) \/ Lost(r) \/ GiveUp(r) \/ HangUp(r)
             \/ Write(r) \/ \E s \in {"ok", "error"} : Answer(r, s)
      PROVE TypeOK'
  <2>1. ReqTypes'
    BY <1>4, RequestTypes
  <2>2. tripped' \subseteq tripped /\ UNCHANGED procVars
    BY <1>4 DEF Check, Send, Read, Lost, GiveUp, HangUp, Write, Answer
  <2>3. ProcTypes'
    BY <1>1, <2>2 DEF ProcTypes, procVars
  <2> QED BY <2>1, <2>3, TypeHalves
<1>5. ASSUME Launch PROVE TypeOK'
  <2>1. commands' \in 0..MaxCommands
    BY <1>1, <1>5, LifeAssumption DEF Launch, ProcTypes
  <2>2. ProcTypes'
    BY <1>1, <1>5, <2>1, SpawnTypes DEF Launch
  <2> QED BY <1>2, <1>5, <2>2 DEF Launch
<1>6. ASSUME Poll PROVE TypeOK'
  <2>1. patience' \in Nat
    BY <1>1, <1>6 DEF Poll, ProcTypes
  <2>2. ProcTypes'
    BY <1>1, <1>6, <2>1 DEF Poll, ProcTypes, Loops
  <2> QED BY <1>2, <1>6, <2>2 DEF Poll
<1>7. ASSUME AwaitExit PROVE TypeOK'
  <2>1. ProcTypes'
    <3>1. CASE Alive(proc) /\ patience > 0
      <4>1. patience' \in Nat
        BY <1>1, <1>7, <3>1 DEF AwaitExit, ProcTypes
      <4> QED BY <1>1, <1>7, <3>1, <4>1 DEF AwaitExit, ProcTypes
    <3>2. CASE ~(Alive(proc) /\ patience > 0)
      BY <1>1, <1>7, <3>2, AfterExitTypes DEF AwaitExit
    <3> QED BY <3>1, <3>2
  <2> QED BY <1>2, <1>7, <2>1 DEF AwaitExit
<1>8. ASSUME NEW c \in {"start", "stop", "restart", "quit"}, Command(c) PROVE TypeOK'
  <2>1. commands' \in 0..MaxCommands
    BY <1>1, <1>8, LifeAssumption DEF Command, ProcTypes
  <2>2. UNCHANGED <<tripped, orphaned, reqVars>>
    BY <1>8 DEF Command
  <2>3. ProcTypes'
    <3>1. CASE Running /\ c = "start"
      BY <1>1, <1>8, <2>1, <2>2, <3>1 DEF Command, ProcTypes
    <3>2. CASE Running /\ c # "start"
      <4>1. Terminate(proc) /\ goal' = c /\ UNCHANGED proc
        BY <1>8, <3>2 DEF Command
      <4> QED BY <1>1, <2>1, <2>2, <4>1, LifeAssumption DEF Terminate, ProcTypes, Conditions, Loops
    <3>3. CASE ~Running /\ c \in {"start", "restart"}
      <4>1. Spawn /\ goal' = c
        BY <1>8, <3>3 DEF Command
      <4> QED BY <1>1, <2>1, <2>2, <4>1, SpawnTypes
    <3>4. CASE ~Running /\ c \in {"stop", "quit"}
      BY <1>1, <1>8, <2>1, <2>2, <3>4 DEF Command, ProcTypes, Loops
    <3> QED BY <3>1, <3>2, <3>3, <3>4
  <2> QED BY <1>2, <2>2, <2>3
<1>9. CASE UNCHANGED vars
  <2>1. UNCHANGED reqVars /\ ProcTypes'
    BY <1>1, <1>9 DEF vars, reqVars, ProcTypes
  <2> QED BY <1>2, <2>1
<1> QED
  BY <1>3, <1>4, <1>5, <1>6, <1>7, <1>8, <1>9, KillTypes DEF Next, WorkerStep, FullInv

-----------------------------------------------------------------------------
\* The circuits that are open are in processes that live.  A spawn takes a process
\* nobody was: it has none, and drains nothing.
LEMMA SpawnCircuits ==
  ASSUME FullInv, Spawn, UNCHANGED tripped
  PROVE  CircuitInv' /\ proc' \notin tripped
<1>1. PICK p \in Fresh : /\ proc' = p /\ worker' = [worker EXCEPT ![p] = "booting"]
                         /\ loop' = "readying" /\ UNCHANGED port
  BY DEF Spawn
<1>2. p \in Pids /\ worker[p] = "unborn" /\ p \notin tripped
  BY DEF Fresh, FullInv, CircuitInv
<1> QED BY <1>1, <1>2, TypeHalves DEF FullInv, ProcTypes, CircuitInv

\* A stop that has ended leaves no circuits of the process it was for, and its
\* successor has none.
LEMMA AfterExitCircuits ==
  ASSUME FullInv, loop = "exiting", AfterExit
  PROVE  CircuitInv' /\ proc' \notin tripped'
<1> DEFINE next == IF goal = "restart" THEN Fresh ELSE {}
<1>1. \A p \in next : p \in Pids /\ worker[p] = "unborn" /\ p \notin tripped
  BY DEF Fresh, FullInv, CircuitInv
<1>2. /\ tripped \subseteq Pids /\ None \notin Pids
      /\ \A p \in tripped : worker[p] \in {"serving", "draining"}
      /\ \A p \in Pids : worker[p] = "serving" => port = p
  BY TypeHalves, LifeAssumption DEF FullInv, ProcTypes, CircuitInv
<1>3. \A p \in Pids : worker'[p] = IF p = proc THEN "dead"
                                   ELSE IF p \in next THEN "booting" ELSE worker[p]
  BY DEF AfterExit
<1>4. port' = (IF port = proc THEN None ELSE port) /\ tripped' = tripped \ {proc}
  BY DEF AfterExit
<1>5. /\ \A p \in tripped' : worker'[p] \in {"serving", "draining"}
      /\ \A p \in Pids : worker'[p] = "serving" => port' = p
  BY <1>1, <1>2, <1>3, <1>4
<1>6. proc' = None \/ (proc' \in next /\ (proc' # proc => worker'[proc'] = "booting"))
  <2>1. CASE next = {}
    BY <2>1 DEF AfterExit
  <2>2. CASE next # {}
    <3>1. PICK n \in next : proc' = n
      BY <2>2 DEF AfterExit
    <3> QED BY <1>1, <1>3, <3>1
  <2> QED BY <2>1, <2>2
<1>7. proc' \notin tripped' /\ (proc' # None => worker'[proc'] # "draining")
  BY <1>1, <1>2, <1>3, <1>4, <1>6
<1> QED BY <1>5, <1>7 DEF CircuitInv

\* Circuits stay where their processes are, and the port with who serves.
LEMMA CircuitsKept == FullInv /\ [Next]_vars => CircuitInv'
<1> SUFFICES ASSUME FullInv, [Next]_vars PROVE CircuitInv'
  OBVIOUS
<1>1. ProcTypes /\ CircuitInv /\ ProcInv /\ None \notin Pids
  BY TypeHalves, LifeAssumption DEF FullInv, IInv
<1>2. ASSUME tripped' \subseteq tripped, UNCHANGED procVars PROVE CircuitInv'
  BY <1>1, <1>2 DEF CircuitInv, procVars
<1>3. ASSUME NEW p \in Pids, Bind(p) PROVE CircuitInv'
  BY <1>1, <1>3 DEF Bind, CircuitInv, ProcTypes
<1>4. ASSUME NEW p \in Pids, Crash(p) \/ Exit(p) PROVE CircuitInv'
  BY <1>1, <1>4 DEF Crash, Exit, Ended, CircuitInv, ProcTypes, ProcInv
<1>5. ASSUME NEW p \in Pids, Trip(p) PROVE CircuitInv'
  BY <1>1, <1>5 DEF Trip, procVars, CircuitInv
<1>6. ASSUME NEW r \in Requests,
             \/ Check(r) \/ Send(r) \/ Read(r) \/ Lost(r) \/ GiveUp(r) \/ HangUp(r)
             \/ Write(r) \/ \E s \in {"ok", "error"} : Answer(r, s)
      PROVE CircuitInv'
  <2>1. tripped' \subseteq tripped /\ UNCHANGED procVars
    BY <1>6 DEF Check, Send, Read, Lost, GiveUp, HangUp, Write, Answer
  <2> QED BY <1>2, <2>1
<1>7. ASSUME Launch PROVE CircuitInv'
  BY <1>7, SpawnCircuits DEF Launch
<1>8. ASSUME Poll PROVE CircuitInv'
  BY <1>1, <1>8 DEF Poll, CircuitInv
<1>9. ASSUME AwaitExit PROVE CircuitInv'
  <2>1. CASE Alive(proc) /\ patience > 0
    BY <1>1, <1>9, <2>1 DEF AwaitExit, CircuitInv
  <2>2. CASE ~(Alive(proc) /\ patience > 0)
    BY <1>9, <2>2, AfterExitCircuits DEF AwaitExit
  <2> QED BY <2>1, <2>2
<1>10. ASSUME NEW c \in {"start", "stop", "restart", "quit"}, Command(c) PROVE CircuitInv'
  <2>1. CASE Running /\ c = "start"
    BY <1>1, <1>10, <2>1 DEF Command, CircuitInv
  <2>2. CASE Running /\ c # "start"
    <3>1. Terminate(proc) /\ UNCHANGED <<proc, tripped>>
      BY <1>10, <2>2 DEF Command
    <3> QED BY <1>1, <2>2, <3>1 DEF Terminate, CircuitInv, ProcTypes, Running, Alive
  <2>3. CASE ~Running /\ c \in {"start", "restart"}
    BY <1>10, <2>3, SpawnCircuits DEF Command
  <2>4. CASE ~Running /\ c \in {"stop", "quit"}
    BY <1>1, <1>10, <2>4 DEF Command, CircuitInv
  <2> QED BY <2>1, <2>2, <2>3, <2>4
<1>11. CASE SupervisorKilled
  BY <1>1, <1>11 DEF SupervisorKilled, CircuitInv
<1>12. CASE UNCHANGED vars
  BY <1>2, <1>12 DEF vars, procVars
<1> QED
  BY <1>3, <1>4, <1>5, <1>6, <1>7, <1>8, <1>9, <1>10, <1>11, <1>12 DEF Next, WorkerStep

-----------------------------------------------------------------------------
\* What RequestInv says of one request.
RequestFine(r) ==
  /\ at[r] \in {"new", "body"} => truth[r] = "none"
  /\ at[r] = "working" /\ truth[r] = "ok" => left[r] > 0
  /\ Kind[r] = "reset" /\ at[r] # "done" => reply[r] = "none"
  /\ Kind[r] = "reset" /\ at[r] \notin {"new", "body"} /\ proc \in tripped =>
       \/ at[r] = "working" /\ who[r] = proc /\ truth[r] = "none"
       \/ at[r] = "done" /\ (reply[r] = "ok" => r \in dropped)

\* While the loop is free, the supervisor's worker has open circuits only if it
\* serves, and then the port is its own.
LEMMA TrippedServes ==
  ASSUME FullInv, loop = "free", proc \in tripped
  PROVE  worker[proc] = "serving" /\ port = proc /\ Running
  BY TypeHalves, LifeAssumption DEF FullInv, CircuitInv, ProcTypes, Running, Alive, None

\* The processes' steps leave the requests as they are, and give the supervisor's
\* worker no open circuit it did not have.
LEMMA ProcsKeepRequests ==
  ASSUME FullInv, UNCHANGED reqVars, proc' \in tripped' => proc' = proc /\ proc \in tripped
  PROVE  RequestInv'
  BY DEF FullInv, RequestInv, reqVars

\* A step of one request leaves the others and the processes as they are.
LEMMA OthersKept ==
  ASSUME FullInv, NEW r \in Requests, NEW q \in Requests, q # r,
         \/ Check(r) \/ Send(r) \/ Read(r) \/ Lost(r) \/ GiveUp(r) \/ HangUp(r)
         \/ Write(r) \/ \E s \in {"ok", "error"} : Answer(r, s)
  PROVE  RequestFine(q)'
<1>1. /\ at'[q] = at[q] /\ who'[q] = who[q] /\ left'[q] = left[q]
      /\ truth'[q] = truth[q] /\ reply'[q] = reply[q]
      /\ proc' = proc /\ tripped' \subseteq tripped
      /\ q \in dropped => q \in dropped'
  <2>1. ReqTypes
    BY TypeHalves DEF FullInv
  <2>2. CASE Check(r)
    BY <2>1, <2>2 DEF ReqTypes, Check, Done, procVars
  <2>3. CASE Send(r)
    BY <2>1, <2>3 DEF ReqTypes, Send, Done, procVars
  <2>4. CASE Read(r) \/ Lost(r) \/ HangUp(r)
    BY <2>1, <2>4 DEF ReqTypes, Read, Lost, HangUp, Done, procVars
  <2>5. CASE Write(r)
    BY <2>1, <2>5 DEF ReqTypes, Write, procVars
  <2>6. ASSUME NEW s \in {"ok", "error"}, Answer(r, s)
        PROVE /\ at'[q] = at[q] /\ who'[q] = who[q] /\ left'[q] = left[q]
              /\ truth'[q] = truth[q] /\ reply'[q] = reply[q]
              /\ proc' = proc /\ tripped' \subseteq tripped
              /\ q \in dropped => q \in dropped'
    BY <2>1, <2>6 DEF ReqTypes, Answer, procVars
  <2>7. CASE GiveUp(r)
    BY <2>1, <2>7 DEF ReqTypes, GiveUp, Done, procVars
  <2> QED BY <2>2, <2>3, <2>4, <2>5, <2>6, <2>7
<1>2. RequestFine(q)
  BY DEF FullInv, RequestInv, RequestFine
<1> QED BY <1>1, <1>2 DEF RequestFine

\* The step of a request keeps what the invariant says of it.  A reset whose call was
\* not given up is acknowledged in three ways: the supervisor's worker has answered,
\* or it does not run, or nobody has the port; in none are its circuits open.
LEMMA OwnKept ==
  ASSUME FullInv, NEW r \in Requests,
         \/ Check(r) \/ Send(r) \/ Read(r) \/ Lost(r) \/ GiveUp(r) \/ HangUp(r)
         \/ Write(r) \/ \E s \in {"ok", "error"} : Answer(r, s)
  PROVE  RequestFine(r)'
<1>1. ReqTypes /\ ProcTypes /\ CircuitInv /\ RequestFine(r)
  BY TypeHalves DEF FullInv, RequestInv, RequestFine
<1>2. proc \in tripped => Alive(proc)
  BY <1>1, LifeAssumption DEF CircuitInv, ProcTypes, Alive, None
<1>3. ASSUME NEW s \in Replies, Done(r, s), UNCHANGED <<proc, tripped, truth>>,
             Kind[r] = "reset" /\ proc \in tripped => s # "ok"
      PROVE  RequestFine(r)'
  BY <1>1, <1>3 DEF Done, ReqTypes, RequestFine
<1>4. {"ok", "stopped", "unreachable", "failed", "none"} \subseteq Replies
  BY DEF Replies, Statuses
<1>5. CASE Check(r)
  <2>1. at[r] = "new" /\ UNCHANGED <<proc, tripped, truth>>
    BY <1>5 DEF Check, procVars
  <2>2. CASE Running
    BY <1>1, <1>5, <2>1, <2>2 DEF Check, ReqTypes, RequestFine
  <2>3. CASE ~Running
    <3>1. PICK s \in Replies : Done(r, s)
      BY <1>4, <1>5, <2>3 DEF Check
    <3>2. proc \notin tripped
      BY <1>2, <2>3 DEF Running
    <3> QED BY <1>3, <2>1, <3>1, <3>2
  <2> QED BY <2>2, <2>3
<1>6. CASE Send(r)
  <2>1. at[r] = "body" /\ loop = "free" /\ UNCHANGED <<proc, tripped, truth>>
    BY <1>6 DEF Send, procVars
  <2>2. CASE port = None
    <3>1. Done(r, Unreachable(r)) /\ Unreachable(r) \in Replies
      BY <1>4, <1>6, <2>2 DEF Send, Unreachable
    <3>2. proc \notin tripped
      BY <1>1, <2>1, <2>2, TrippedServes, LifeAssumption DEF ProcTypes
    <3> QED BY <1>3, <2>1, <3>1, <3>2
  <2>3. CASE port # None
    <3>1. /\ at' = [at EXCEPT ![r] = "working"] /\ who' = [who EXCEPT ![r] = port]
          /\ reply' = IF Kind[r] = "stream" THEN [reply EXCEPT ![r] = "ok"] ELSE reply
      BY <1>6, <2>3 DEF Send
    <3>2. proc \in tripped => port = proc
      BY <2>1, TrippedServes
    <3>3. at'[r] = "working" /\ who'[r] = port /\ truth'[r] = "none"
      BY <1>1, <2>1, <3>1 DEF ReqTypes, RequestFine
    <3>4. Kind[r] = "reset" => reply'[r] = "none"
      BY <1>1, <2>1, <3>1 DEF RequestFine
    <3> QED BY <2>1, <3>2, <3>3, <3>4 DEF RequestFine
  <2> QED BY <2>2, <2>3
<1>7. CASE Read(r)
  <2>1. at[r] \in {"working", "written"} /\ UNCHANGED <<proc, tripped, truth>>
    BY <1>7 DEF Read, procVars
  <2>2. CASE UNCHANGED <<at, reply, who, left>>
    BY <1>1, <2>1, <2>2 DEF RequestFine
  <2>3. CASE at[r] = "written" /\ Done(r, IF Kind[r] = "stream" THEN reply[r] ELSE truth[r])
    <3>1. PICK s \in Replies : Done(r, s)
      BY <1>1, <2>3 DEF ReqTypes, Replies
    <3>2. ~(Kind[r] = "reset" /\ proc \in tripped)
      BY <1>1, <2>3 DEF RequestFine
    <3> QED BY <1>3, <2>1, <3>1, <3>2
  <2> QED BY <1>7, <2>2, <2>3 DEF Read
<1>8. CASE Lost(r)
  <2>1. at[r] = "working" /\ ~Alive(who[r]) /\ UNCHANGED <<proc, tripped, truth>>
    BY <1>8 DEF Lost, procVars
  <2>2. PICK s \in Replies : Done(r, s)
    BY <1>4, <1>8 DEF Lost, Unreachable
  <2>3. ~(Kind[r] = "reset" /\ proc \in tripped)
    BY <1>1, <1>2, <2>1 DEF RequestFine
  <2> QED BY <1>3, <2>1, <2>2, <2>3
<1>9. CASE HangUp(r)
  <2>1. /\ at[r] \in {"body", "working", "written"} /\ UNCHANGED <<proc, tripped, truth>>
        /\ Done(r, reply[r]) /\ reply[r] \in Replies
    BY <1>1, <1>9 DEF HangUp, procVars, ReqTypes
  <2>2. Kind[r] = "reset" => reply[r] = "none"
    BY <1>1, <2>1 DEF RequestFine
  <2> QED BY <1>3, <2>1, <2>2
<1>10. CASE Write(r)
  <2>1. /\ at[r] = "working" /\ truth[r] = "ok"
        /\ UNCHANGED <<proc, tripped, who, truth, reply>>
    BY <1>10 DEF Write, procVars
  <2>2. left'[r] = left[r] - 1 /\ left[r] \in Nat
    BY <1>1, <1>10 DEF Write, ReqTypes
  <2>3. IF left[r] = 1 THEN at'[r] = "written" ELSE at'[r] = "working"
    BY <1>1, <1>10, <2>1 DEF Write, ReqTypes
  <2> QED BY <1>1, <2>1, <2>2, <2>3 DEF RequestFine
<1>11. ASSUME NEW s \in {"ok", "error"}, Answer(r, s) PROVE RequestFine(r)'
  <2>1. /\ at[r] = "working" /\ truth[r] = "none" /\ UNCHANGED <<proc, who, reply>>
        /\ truth'[r] = s
    BY <1>1, <1>11 DEF Answer, procVars, ReqTypes
  <2>2. IF Kind[r] = "stream" /\ s = "ok" /\ left[r] > 0
        THEN at'[r] = "working" /\ left'[r] = left[r] ELSE at'[r] = "written"
    BY <1>1, <1>11, <2>1 DEF Answer, ReqTypes
  <2>3. tripped' = IF Kind[r] = "reset" THEN tripped \ {who[r]} ELSE tripped
    BY <1>11 DEF Answer
  <2>4. Kind[r] = "reset" => proc' \notin tripped'
    BY <1>1, <2>1, <2>3 DEF RequestFine
  <2> QED BY <1>1, <2>1, <2>2, <2>4 DEF RequestFine
<1>12. CASE GiveUp(r)
  <2>1. r \in dropped' /\ at'[r] = "done"
    BY <1>1, <1>12 DEF GiveUp, Done, ReqTypes
  <2> QED BY <2>1 DEF RequestFine
<1> QED BY <1>5, <1>6, <1>7, <1>8, <1>9, <1>10, <1>11, <1>12

\* A process of a new worker, or of none, has no open circuits; and the requests a
\* killed supervisor cuts off acknowledge nothing.
LEMMA RequestsKept == FullInv /\ [Next]_vars => RequestInv'
<1> SUFFICES ASSUME FullInv, [Next]_vars PROVE RequestInv'
  OBVIOUS
<1>1. ProcTypes /\ ReqTypes /\ CircuitInv /\ None \notin Pids
  BY TypeHalves, LifeAssumption DEF FullInv
<1>2. ASSUME NEW p \in Pids, Bind(p) \/ Crash(p) \/ Exit(p) PROVE RequestInv'
  BY <1>2, ProcsKeepRequests DEF Bind, Crash, Exit, Ended
<1>3. ASSUME NEW p \in Pids, Trip(p) PROVE RequestInv'
  BY <1>3 DEF Trip, procVars, reqVars, FullInv, RequestInv
<1>4. ASSUME NEW r \in Requests,
             \/ Check(r) \/ Send(r) \/ Read(r) \/ Lost(r) \/ GiveUp(r) \/ HangUp(r)
             \/ Write(r) \/ \E s \in {"ok", "error"} : Answer(r, s)
      PROVE RequestInv'
  <2>1. \A q \in Requests : RequestFine(q)'
    BY <1>4, OwnKept, OthersKept
  <2> QED BY <2>1 DEF RequestInv, RequestFine
<1>5. ASSUME Launch PROVE RequestInv'
  BY <1>5, SpawnCircuits, ProcsKeepRequests DEF Launch
<1>6. ASSUME Poll PROVE RequestInv'
  BY <1>6, ProcsKeepRequests DEF Poll
<1>7. ASSUME AwaitExit PROVE RequestInv'
  <2>1. CASE Alive(proc) /\ patience > 0
    BY <1>7, <2>1, ProcsKeepRequests DEF AwaitExit
  <2>2. CASE ~(Alive(proc) /\ patience > 0)
    BY <1>7, <2>2, AfterExitCircuits, ProcsKeepRequests DEF AwaitExit
  <2> QED BY <2>1, <2>2
<1>8. ASSUME NEW c \in {"start", "stop", "restart", "quit"}, Command(c) PROVE RequestInv'
  <2>1. UNCHANGED <<tripped, reqVars>>
    BY <1>8 DEF Command
  <2>2. proc' = proc \/ proc' = None \/ proc' \notin tripped
    BY <1>8, <2>1, SpawnCircuits DEF Command
  <2> QED BY <1>1, <2>1, <2>2, ProcsKeepRequests DEF ProcTypes
<1>9. ASSUME SupervisorKilled PROVE RequestInv'
  <2>1. proc' \notin tripped' /\ UNCHANGED <<truth, reply, dropped>>
    BY <1>1, <1>9 DEF SupervisorKilled, ProcTypes
  <2>2. \A r \in Requests : /\ at'[r] = (IF at[r] \in {"new", "done"} THEN at[r] ELSE "done")
                            /\ at[r] = "new" => left'[r] = left[r]
    BY <1>1, <1>9 DEF SupervisorKilled, ReqTypes
  <2> QED BY <2>1, <2>2 DEF FullInv, RequestInv
<1>10. CASE UNCHANGED vars
  BY <1>10, ProcsKeepRequests DEF vars, reqVars
<1> QED
  BY <1>2, <1>3, <1>4, <1>5, <1>6, <1>7, <1>8, <1>9, <1>10 DEF Next, WorkerStep

\* Before the first supervisor there is no worker, no request and no open circuit.
LEMMA InitFull == Init => FullInv
<1> SUFFICES ASSUME Init PROVE FullInv
  OBVIOUS
<1>1. ReqTypes /\ ProcTypes
  <2>1. 0 \in 0..Chunks /\ 0 \in 0..Buffer /\ 0 \in 0..MaxCommands
    BY LifeAssumption
  <2>2. ReqTypes
    BY <2>1 DEF Init, ReqTypes, Statuses, Replies
  <2>3. ProcTypes
    BY <2>1 DEF Init, ProcTypes, Conditions, Loops
  <2> QED BY <2>2, <2>3
<1>2. CircuitInv /\ RequestInv
  BY DEF Init, CircuitInv, RequestInv
<1> QED BY <1>1, <1>2, InitSafe, TypeHalves DEF FullInv

\* The parts of the invariant together.
LEMMA FullKept == FullInv /\ [Next]_vars => FullInv'
<1> SUFFICES ASSUME FullInv, [Next]_vars PROVE FullInv'
  OBVIOUS
<1>1. IInv'
  BY NextSafe DEF FullInv
<1>2. TypeOK' /\ CircuitInv' /\ RequestInv'
  BY TypesKept, CircuitsKept, RequestsKept
<1> QED BY <1>1, <1>2 DEF FullInv

\* The processes, the waits of start() and stop() and the requests are always in a
\* form the code has names for: no stream is written past its end, and no more of it
\* is unread than the sockets hold.
THEOREM TypeCorrect == Spec => []TypeOK
<1>1. Spec => []FullInv
  BY InitFull, FullKept, PTL DEF Spec
<1>2. FullInv => TypeOK
  BY DEF FullInv
<1> QED BY <1>1, <1>2, PTL

\* A reset of the circuits that was acknowledged, and whose call did not fail at a
\* worker that lives, reached the supervisor's worker, whatever crashes, restarts and
\* orphans came between its check and its answer: the property ResetSurvivesRestarts
\* of the proxy for any number of requests.
THEOREM ResetsSurvive == Spec => []ResetSurvivesRestarts
<1>1. Spec => []FullInv
  BY InitFull, FullKept, PTL DEF Spec
<1>2. FullInv => ResetSurvivesRestarts
  BY DEF FullInv, RequestInv, ResetSurvivesRestarts
<1> QED BY <1>1, <1>2, PTL
=============================================================================
