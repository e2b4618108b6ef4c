--------------------------- MODULE SupervisorLife ---------------------------
(***************************************************************************)
(* The supervisor (supervisor.py): it starts, stops and restarts the       *)
(* worker process, forwards requests to it, and answers for it while it is *)
(* down.                                                                   *)
(*                                                                         *)
(* The supervisor is one asyncio loop, and start(), stop() and restart()   *)
(* are synchronous: while one of them waits for the worker the loop reads  *)
(* nothing from clients or worker.  The worker, told to terminate, lets the*)
(* responses under way finish before it exits, and those of its streams    *)
(* that go through the supervisor wait for the supervisor to read them.    *)
(* Only the limit on the wait, and a kill, end that.                       *)
(***************************************************************************)
EXTENDS Integers, FiniteSets

CONSTANTS
  Pids,         \* bound: the worker processes ever started, 1, 2 and so on
  Requests,     \* requests of clients of the supervisor
  Kind,         \* "plain", "stream" or "reset" (of circuits, on the live proxy)
  Chunks,       \* bound: pieces of a stream
  Buffer,       \* pieces that fit into the sockets unread
  ReadyPolls,   \* polls of _wait_ready() before it gives up
  ExitWait,     \* ticks stop() waits before it kills
  MaxCommands   \* bound: admin commands and supervisor starts

None == 0   \* no process

ASSUME LifeAssumption ==
  /\ Pids \subseteq Nat \ {None}
  /\ Kind \in [Requests -> {"plain", "stream", "reset"}]
  /\ {Chunks, Buffer, ReadyPolls, ExitWait, MaxCommands} \subseteq Nat

VARIABLES
  worker,     \* per pid: "unborn", "booting", "serving", "draining" or "dead"
  port,       \* who listens on worker_port
  tripped,    \* pids with an open circuit in memory
  proc,       \* Supervisor.proc
  loop,       \* what the supervisor's loop is doing: see Loops
  goal,       \* the command in progress
  patience,   \* polls or ticks the wait in progress has left
  commands,   \* bound: how many there have been
  orphaned,   \* history: the supervisor was killed while it had a worker
  dropped,    \* history: requests whose call failed while its worker lived
  at, who, left, pending, truth, reply, stale   \* per request, below

procVars == <<worker, port, proc, loop, goal, patience, commands, orphaned>>
reqVars  == <<dropped, at, who, left, pending, truth, reply, stale>>
vars == <<worker, port, tripped, proc, loop, goal, patience, commands, orphaned,
          dropped, at, who, left, pending, truth, reply, stale>>

\* at: "new"; "body": found the worker running, awaits the client's body;
\* "working": sent, the worker has more to write; "written": it has not; "done".
\* left, pending: pieces the worker has still to write, and pieces written but
\* unread.  truth: the status the worker gave; reply: what the client was told.
\* stale (history): the circuits that were open when a reset was checked.
Loops == {"free", "readying", "exiting", "gone"}
Statuses == {"none", "ok", "error"}
Replies == Statuses \union {"stopped", "unreachable", "failed"}

Alive(p) == p # None /\ worker[p] \in {"booting", "serving", "draining"}
Running == Alive(proc)     \* is_running()
Open(p) == {r \in Requests : who[r] = p /\ at[r] = "working"}
\* The next process to be started.
Fresh == {p \in Pids : worker[p] = "unborn" /\ \A q \in Pids : q < p => worker[q] # "unborn"}

Init ==
  /\ worker = [p \in Pids |-> "unborn"] /\ port = None /\ tripped = {}
  /\ proc = None /\ loop = "gone" /\ goal = "none" /\ patience = 0
  /\ commands = 0 /\ orphaned = FALSE /\ dropped = {}
  /\ at = [r \in Requests |-> "new"] /\ who = [r \in Requests |-> None]
  /\ left = [r \in Requests |-> 0] /\ pending = [r \in Requests |-> 0]
  /\ truth = [r \in Requests |-> "none"] /\ reply = [r \in Requests |-> "none"]
  /\ stale = [r \in Requests |-> {}]

-----------------------------------------------------------------------------
\* The worker process

\* create_app(), then lifespan's start; uvicorn binds the port last, and exits
\* when it is taken.
Bind(p) ==
  /\ worker[p] = "booting"
  /\ IF port = None THEN worker' = [worker EXCEPT ![p] = "serving"] /\ port' = p
     ELSE worker' = [worker EXCEPT ![p] = "dead"] /\ UNCHANGED port
  /\ UNCHANGED <<tripped, proc, loop, goal, patience, commands, orphaned, reqVars>>

Ended(p) ==
  /\ worker' = [worker EXCEPT ![p] = "dead"]
  /\ port' = IF port = p THEN None ELSE port
  /\ tripped' = tripped \ {p}

Crash(p) ==
  /\ Alive(p)
  /\ Ended(p)
  /\ UNCHANGED <<proc, loop, goal, patience, commands, orphaned, reqVars>>

\* Told to terminate, it exits when its responses are out.
Exit(p) ==
  /\ worker[p] = "draining" /\ Open(p) = {}
  /\ Ended(p)
  /\ UNCHANGED <<proc, loop, goal, patience, commands, orphaned, reqVars>>

\* Traffic trips a circuit, before any reset is asked for (bound).
Trip(p) ==
  /\ worker[p] = "serving" /\ p \notin tripped
  /\ \A r \in Requests : Kind[r] = "reset" => at[r] = "new"
  /\ tripped' = tripped \union {p}
  /\ UNCHANGED <<procVars, reqVars>>

\* The worker answers: a short response at once, a stream piece by piece.
Answer(r, s) ==
  LET p == who[r] IN
  /\ at[r] = "working" /\ Alive(p) /\ truth[r] = "none"
  /\ s = "error" => Kind[r] # "reset"
  /\ truth' = [truth EXCEPT ![r] = s]
  /\ IF Kind[r] = "stream" /\ s = "ok" /\ left[r] > 0 THEN UNCHANGED <<at, left>>
     ELSE at' = [at EXCEPT ![r] = "written"] /\ left' = [left EXCEPT ![r] = 0]
  /\ tripped' = IF Kind[r] = "reset" THEN tripped \ {p} ELSE tripped
  /\ UNCHANGED <<procVars, dropped, who, pending, reply, stale>>

WriteUnbounded(r) ==  \* mutant: nothing holds the worker back
  /\ at[r] = "working" /\ Alive(who[r]) /\ truth[r] = "ok"
  /\ left' = [left EXCEPT ![r] = @ - 1]
  /\ pending' = [pending EXCEPT ![r] = @ + 1]
  /\ at' = IF left[r] = 1 THEN [at EXCEPT ![r] = "written"] ELSE at
  /\ UNCHANGED <<procVars, tripped, dropped, who, truth, reply, stale>>

Write(r) ==
  /\ at[r] = "working" /\ Alive(who[r]) /\ truth[r] = "ok"
  /\ pending[r] < Buffer
  /\ left' = [left EXCEPT ![r] = @ - 1]
  /\ pending' = [pending EXCEPT ![r] = @ + 1]
  /\ at' = IF left[r] = 1 THEN [at EXCEPT ![r] = "written"] ELSE at
  /\ UNCHANGED <<procVars, tripped, dropped, who, truth, reply, stale>>

-----------------------------------------------------------------------------
\* Starting and stopping

Spawn ==
  \E p \in Fresh :
    /\ proc' = p
    /\ worker' = [worker EXCEPT ![p] = "booting"]
    /\ loop' = "readying" /\ patience' = ReadyPolls
    /\ UNCHANGED port

\* run_supervisor(): a supervisor comes up and starts a worker of its own.
Launch ==
  /\ loop = "gone" /\ commands < MaxCommands
  /\ commands' = commands + 1 /\ goal' = "start"
  /\ Spawn
  /\ UNCHANGED <<tripped, orphaned, reqVars>>

Terminate(p) ==
  /\ worker' = [worker EXCEPT ![p] = "draining"]
  /\ port' = IF port = p THEN None ELSE port
  /\ loop' = "exiting" /\ patience' = ExitWait

\* An admin command reaches the free loop, or the supervisor is shut down: start
\* finds a worker or spawns one; stop and restart terminate the one there is.
Command(c) ==
  /\ loop = "free" /\ commands < MaxCommands
  /\ commands' = commands + 1
  /\ \/ /\ Running /\ c = "start"
        /\ UNCHANGED <<worker, port, proc, loop, patience, goal>>
     \/ Running /\ c # "start" /\ Terminate(proc) /\ goal' = c /\ UNCHANGED proc
     \/ ~Running /\ c \in {"start", "restart"} /\ Spawn /\ goal' = c
     \/ /\ ~Running /\ c \in {"stop", "quit"}
        /\ proc' = None
        /\ loop' = IF c = "quit" THEN "gone" ELSE "free"
        /\ UNCHANGED <<worker, port, patience, goal>>
  /\ c = "restart" => Fresh # {}
  /\ c = "quit" => \A r \in Requests : at[r] \in {"new", "done"}
  /\ UNCHANGED <<tripped, orphaned, reqVars>>

PollForever ==  \* mutant: no deadline
  /\ loop = "readying"
  /\ ~Running \/ port # None
  /\ loop' = "free" /\ goal' = "none" /\ patience' = 0
  /\ UNCHANGED <<worker, port, tripped, proc, commands, orphaned, reqVars>>

\* One poll of _wait_ready(): it ends when the process has, when whoever has the
\* port answers, or when the time is up; start() does not look at which.
Poll ==
  /\ loop = "readying"
  /\ IF ~Running \/ port # None \/ patience = 0
     THEN loop' = "free" /\ goal' = "none" /\ patience' = 0
     ELSE patience' = patience - 1 /\ UNCHANGED <<loop, goal>>
  /\ UNCHANGED <<worker, port, tripped, proc, commands, orphaned, reqVars>>

\* stop() has waited to the end, or killed: on to what the command was for.
AfterExit ==
  LET next == IF goal = "restart" THEN Fresh ELSE {} IN
  /\ proc' = IF next = {} THEN None ELSE CHOOSE p \in next : TRUE
  /\ worker' = [p \in Pids |-> IF p = proc THEN "dead"
                              ELSE IF p \in next THEN "booting" ELSE worker[p]]
  /\ loop' = IF next # {} THEN "readying" ELSE IF goal = "quit" THEN "gone" ELSE "free"
  /\ patience' = IF next = {} THEN 0 ELSE ReadyPolls
  /\ goal' = IF next = {} THEN "none" ELSE goal
  /\ port' = IF port = proc THEN None ELSE port
  /\ tripped' = tripped \ {proc}

AwaitExitForever ==  \* mutant: wait() without a timeout
  /\ loop = "exiting" /\ worker[proc] = "dead"
  /\ AfterExit
  /\ UNCHANGED <<commands, orphaned, reqVars>>

AwaitExitNoKill ==  \* mutant: the process is forgotten, not killed
  /\ loop = "exiting"
  /\ IF Alive(proc) /\ patience > 0
     THEN patience' = patience - 1 /\ UNCHANGED <<proc, loop, goal>>
     ELSE proc' = None /\ loop' = "free" /\ goal' = "none" /\ UNCHANGED patience
  /\ UNCHANGED <<worker, port, tripped, commands, orphaned, reqVars>>

\* stop() waits for the process, and kills it when the time is up.
AwaitExit ==
  /\ loop = "exiting"
  /\ IF Alive(proc) /\ patience > 0
     THEN patience' = patience - 1 /\ UNCHANGED <<worker, port, tripped, proc, loop, goal>>
     ELSE AfterExit
  /\ UNCHANGED <<commands, orphaned, reqVars>>

\* The supervisor itself is killed: its clients are cut off, its worker goes on.
SupervisorKilled ==
  LET cut == {r \in Requests : at[r] \notin {"new", "done"}} IN
  /\ loop # "gone"
  /\ loop' = "gone" /\ proc' = None /\ goal' = "none" /\ patience' = 0
  /\ orphaned' = (orphaned \/ Running)
  /\ at' = [r \in Requests |-> IF r \in cut THEN "done" ELSE at[r]]
  /\ who' = [r \in Requests |-> IF r \in cut THEN None ELSE who[r]]
  /\ left' = [r \in Requests |-> IF r \in cut THEN 0 ELSE left[r]]
  /\ pending' = [r \in Requests |-> IF r \in cut THEN 0 ELSE pending[r]]
  /\ UNCHANGED <<worker, port, tripped, commands, dropped, truth, reply, stale>>

-----------------------------------------------------------------------------
\* Requests

\* The request is over, and with it its connection to the worker, if it has one.
Done(r, s) ==
  /\ at' = [at EXCEPT ![r] = "done"] /\ reply' = [reply EXCEPT ![r] = s]
  /\ who' = [who EXCEPT ![r] = None]
  /\ left' = [left EXCEPT ![r] = 0] /\ pending' = [pending EXCEPT ![r] = 0]

CheckLocal(r) ==  \* mutant: resets are handled by the supervisor's own state
  /\ loop = "free" /\ at[r] = "new"
  /\ stale' = IF Kind[r] = "reset" THEN [stale EXCEPT ![r] = tripped] ELSE stale
  /\ IF Running /\ Kind[r] # "reset"
     THEN at' = [at EXCEPT ![r] = "body"] /\ UNCHANGED <<reply, who, left, pending>>
     ELSE Done(r, IF Kind[r] = "reset" THEN "ok" ELSE "stopped")
  /\ UNCHANGED <<procVars, tripped, dropped, truth>>

\* A request arrives.  While no worker runs, resets are done by the supervisor's
\* own handler and everything else is refused.
Check(r) ==
  /\ loop = "free" /\ at[r] = "new"
  /\ stale' = IF Kind[r] = "reset" THEN [stale EXCEPT ![r] = tripped] ELSE stale
  /\ IF Running
     THEN at' = [at EXCEPT ![r] = "body"] /\ UNCHANGED <<reply, who, left, pending>>
     ELSE Done(r, IF Kind[r] = "reset" THEN "ok" ELSE "stopped")
  /\ UNCHANGED <<procVars, tripped, dropped, truth>>

\* What an unreachable worker means to the client.  A stream's client already has
\* a status, so its connection is cut.
Unreachable(r) == CASE Kind[r] = "stream" -> "ok"
                    [] Kind[r] = "reset"  -> "ok"
                    [] OTHER              -> "unreachable"

\* The client's body is here and the request goes to whoever has the port.  For a
\* stream the response is started first, as a 200, whatever the worker will say.
Send(r) ==
  /\ loop = "free" /\ at[r] = "body"
  /\ IF port = None THEN Done(r, Unreachable(r))
     ELSE /\ at' = [at EXCEPT ![r] = "working"]
          /\ who' = [who EXCEPT ![r] = port]
          /\ left' = [left EXCEPT ![r] = IF Kind[r] = "stream" THEN Chunks ELSE 0]
          /\ reply' = IF Kind[r] = "stream" THEN [reply EXCEPT ![r] = "ok"] ELSE reply
          /\ UNCHANGED pending
  /\ UNCHANGED <<procVars, tripped, dropped, truth, stale>>

\* The loop reads what the worker wrote and passes it on.
Read(r) ==
  /\ loop = "free" /\ at[r] \in {"working", "written"}
  /\ \/ /\ pending[r] > 0
        /\ pending' = [pending EXCEPT ![r] = @ - 1] /\ UNCHANGED <<at, reply, who, left>>
     \/ /\ pending[r] = 0 /\ at[r] = "written"
        /\ Done(r, IF Kind[r] = "stream" THEN reply[r] ELSE truth[r])
  /\ UNCHANGED <<procVars, tripped, dropped, truth, stale>>

\* The worker died under the request: a reset falls through to the local handler, a
\* stream is cut, and for the rest only a failed connect has an answer.
Lost(r) ==
  /\ loop = "free" /\ at[r] = "working" /\ ~Alive(who[r]) /\ pending[r] = 0
  /\ Done(r, IF Kind[r] = "plain" THEN "failed" ELSE Unreachable(r))
  /\ UNCHANGED <<procVars, tripped, dropped, truth, stale>>

\* The call fails although the worker lives: no connection in time or none left in
\* the pool, nothing to read for as long as the supervisor's client waits, a broken
\* answer.  To the live proxy that is the same as a dead worker, and a reset falls
\* through to the local handler; the worker may have done it before or not.
GiveUp(r) ==
  /\ loop = "free"
  /\ \/ at[r] = "body" /\ port # None
     \/ at[r] = "working" /\ Alive(who[r]) /\ pending[r] = 0
  /\ Done(r, IF Kind[r] = "plain" THEN "failed" ELSE Unreachable(r))
  /\ dropped' = dropped \union {r}
  /\ \/ UNCHANGED tripped
     \/ Kind[r] = "reset" /\ tripped' = tripped \ {who[r]}
  /\ UNCHANGED <<procVars, truth, stale>>

\* The client goes away, and its connection to the worker with it.
HangUp(r) ==
  /\ loop = "free" /\ at[r] \in {"body", "working", "written"}
  /\ Done(r, reply[r])
  /\ UNCHANGED <<procVars, tripped, dropped, truth, stale>>

-----------------------------------------------------------------------------
WorkerStep ==
  \/ \E p \in Pids : Bind(p) \/ Crash(p) \/ Exit(p) \/ Trip(p)
  \/ \E r \in Requests : Write(r) \/ \E s \in {"ok", "error"} : Answer(r, s)

Next ==
  \/ WorkerStep
  \/ Launch \/ Poll \/ AwaitExit \/ SupervisorKilled
  \/ \E c \in {"start", "stop", "restart", "quit"} : Command(c)
  \/ \E r \in Requests : Check(r) \/ Send(r) \/ Read(r) \/ Lost(r) \/ GiveUp(r) \/ HangUp(r)

\* The waits end by their own clocks, and the loop serves every connection that is
\* ready, or ends it when the time its client gives a call is over.  Nothing is
\* assumed of clients, commands or crashes, nor of a worker, which may never answer.
Fairness ==
  /\ WF_vars(Poll) /\ WF_vars(AwaitExit)
  /\ \A r \in Requests :
       /\ WF_vars(Check(r)) /\ WF_vars(Send(r)) /\ WF_vars(Read(r))
       /\ WF_vars(Lost(r)) /\ WF_vars(GiveUp(r))

Spec == Init /\ [][Next]_vars /\ Fairness

-----------------------------------------------------------------------------
\* Properties

\* Processes, waits and requests are always in a form the code has names for.
TypeOK ==
  /\ worker \in [Pids -> {"unborn", "booting", "serving", "draining", "dead"}]
  /\ {port, proc} \subseteq Pids \union {None} /\ tripped \subseteq Pids
  /\ loop \in Loops /\ goal \in {"none", "start", "stop", "restart", "quit"}
  /\ patience \in Nat /\ commands \in 0..MaxCommands /\ orphaned \in BOOLEAN
  /\ at \in [Requests -> {"new", "body", "working", "written", "done"}]
  /\ who \in [Requests -> Pids \union {None}]
  /\ left \in [Requests -> 0..Chunks] /\ pending \in [Requests -> 0..Buffer]
  /\ truth \in [Requests -> Statuses] /\ reply \in [Requests -> Replies]
  /\ stale \in [Requests -> SUBSET Pids] /\ dropped \subseteq Requests

\* Whatever starts, stops, restarts, crashes and timed-out waits come, there is no
\* worker but the one the supervisor holds, and the port is that one's: only the
\* kill of a supervisor leaves one behind.
NoSpareWorker ==
  ~orphaned => /\ \A p \in Pids : Alive(p) => p = proc
               /\ port # None => port = proc

\* Crashes, restarts and orphans do not come between an acknowledged reset and the
\* circuits, although every failure to reach the worker is answered by the
\* supervisor's own empty registry: only a call that fails at a living worker
\* (GiveUp) leaves circuits open behind an acknowledgement, as the code does.
ResetSurvivesRestarts ==
  \A r \in Requests :
    Kind[r] = "reset" /\ at[r] = "done" /\ reply[r] = "ok" /\ r \notin dropped =>
      proc \notin stale[r] \intersect tripped

\* start(), stop() and restart() give the loop back, also when the worker waits for
\* the very loop that waits for it.
LoopComesBack == loop \in {"readying", "exiting"} ~> loop \in {"free", "gone"}

\* Every request that reached the supervisor is answered or cut off, whatever
\* happens to the worker and whatever commands come meanwhile.
RequestsEnd == \A r \in Requests : at[r] # "new" ~> at[r] = "done"
=============================================================================
