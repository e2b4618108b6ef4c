----------------------------- MODULE ConfigStore -----------------------------
(***************************************************************************)
(* config.py and the admin endpoints that change config.json.  The         *)
(* supervisor process edits the file: save_config() and restore_backup()   *)
(* are sequences of renames that run to their end on its event loop, with  *)
(* only a crash to stop them.  The worker process reads the file when its  *)
(* mtime has changed, between any two of those renames.                    *)
(*                                                                         *)
(* A configuration is the set of edits it contains and its version.  The   *)
(* objects the supervisor's handlers hold are cells of a heap: a handler   *)
(* that loaded the configuration before awaiting its request body goes on  *)
(* with the object it has, whatever `_config' has become.                  *)
(***************************************************************************)
EXTENDS Integers, Sequences, FiniteSets

CONSTANTS Puts,       \* clients that GET /admin/config, edit, and PUT it back
          Patches,    \* requests to the endpoints that load, await the body, change
                      \* one thing and save: PUT /admin/models/{id} and the like
          Keep,       \* BACKUP_KEEP
          MaxRestores, MaxCrashes  \* bounds, for finite checking

Edits == Puts \union Patches

ASSUME StoreAssumption ==
  /\ Puts \intersect Patches = {} /\ IsFiniteSet(Edits)
  /\ 0 \notin Edits  \* the edit of a restore
  /\ Keep \in Nat \ {0} /\ MaxRestores \in Nat /\ MaxCrashes \in Nat

VARIABLES heap,     \* the config objects of the supervisor process
          cached,   \* _config: a cell of the heap, 0 before it is loaded
          main,     \* config.json: at most one file
          bak,      \* config.json.bak, .bak.1, ...: at most one file each
          job,      \* the save or restore the event loop is in
          handler,  \* how far each edit has come
          worker,   \* the worker's cached configuration, and its load_config()
          clock,    \* mtimes and generations given out so far
          acked,    \* history: the last configuration a save or restore confirmed
          crashes, restores

vars == <<heap, cached, main, bak, job, handler, worker, clock, acked, crashes, restores>>

Slots == 0..(Keep - 1)
Empty == [edits |-> {}, version |-> 0]  \* GatewayConfig()

\* A file: what it holds, its mtime, and the order in which it became current.
\* A missing file is the empty set, and its mtime is 0.
File(c, m, g) == {[conf |-> c, mtime |-> m, gen |-> g]}
Mtime(f) == IF f = {} THEN 0 ELSE (CHOOSE x \in f : TRUE).mtime
Conf(f)  == (CHOOSE x \in f : TRUE).conf
Gen(f)   == (CHOOSE x \in f : TRUE).gen

\* What load_config() finds when nobody interferes: config.json or else the
\* newest backup.
Recoverable ==
  IF main # {} THEN Conf(main)
  ELSE IF \E i \in Slots : bak[i] # {}
  THEN Conf(bak[CHOOSE i \in Slots : bak[i] # {} /\ \A j \in 0..(i - 1) : bak[j] = {}])
  ELSE Empty

Idle  == [pc |-> "idle"]
Alive == cached # 0
Free  == Alive /\ job = Idle  \* the supervisor's event loop can run a handler

Current == heap[cached]

Waiting == [pc |-> "ready", conf |-> Empty, mtime |-> -1, stat |-> 0, found |-> <<>>, next |-> 0]

Init ==
  /\ heap = <<>> /\ cached = 0
  /\ main = File(Empty, 1, 1) /\ bak = [i \in Slots |-> {}]
  /\ job = Idle
  /\ handler = [e \in Edits |-> [pc |-> "new", ref |-> 0, seen |-> Empty]]
  /\ worker = Waiting
  /\ clock = 1 /\ acked = Empty /\ crashes = 0 /\ restores = 0

-----------------------------------------------------------------------------
\* The supervisor starts, or starts again after a crash, and loads the file.
Boot ==
  /\ ~Alive
  /\ heap' = Append(heap, Recoverable)
  /\ cached' = Len(heap')
  /\ acked' = Recoverable
  /\ UNCHANGED <<main, bak, job, handler, worker, clock, crashes, restores>>

\* The supervisor dies: handlers and the save in progress die with it.
Crash ==
  /\ Alive /\ crashes < MaxCrashes
  /\ crashes' = crashes + 1
  /\ cached' = 0 /\ job' = Idle
  /\ handler' = [e \in Edits |->
                   IF handler[e].pc \in {"editing", "saving"}
                   THEN [handler[e] EXCEPT !.pc = "lost"] ELSE handler[e]]
  /\ UNCHANGED <<heap, main, bak, worker, clock, acked, restores>>

\* save_config() of object o for edit e: the version goes up in memory, then the
\* file operations follow.  Nothing is rotated when there is no config.json.
Save(o, e) ==
  [pc   |-> IF main = {} THEN "replace" ELSE IF Keep > 1 THEN "shift" ELSE "retire",
   obj  |-> o, edit |-> e, from |-> {}, slot |-> Keep - 2]

\* GET /admin/config.
Get(e) ==
  /\ Free /\ e \in Puts /\ handler[e].pc = "new"
  /\ handler' = [handler EXCEPT ![e] = [@ EXCEPT !.pc = "viewed", !.seen = Current]]
  /\ UNCHANGED <<heap, cached, main, bak, job, worker, clock, acked, crashes, restores>>

\* PUT /admin/config: 409 when the version is not the one seen, else the
\* client's configuration replaces the current one, as a new object.
Put(e) ==
  /\ Free /\ handler[e].pc = "viewed"
  /\ IF Current.version # handler[e].seen.version
     THEN /\ handler' = [handler EXCEPT ![e].pc = "conflict"]
          /\ UNCHANGED <<heap, job>>
     ELSE /\ heap' = Append(heap, [edits   |-> handler[e].seen.edits \union {e},
                                   version |-> Current.version + 1])
          /\ job' = Save(Len(heap'), e)
          /\ handler' = [handler EXCEPT ![e].pc = "saving"]
  /\ UNCHANGED <<cached, main, bak, worker, clock, acked, crashes, restores>>

\* A narrow edit: load_config(), then `await request.json()' ...
PatchLoad(e) ==
  /\ Free /\ e \in Patches /\ handler[e].pc = "new"
  /\ handler' = [handler EXCEPT ![e] = [@ EXCEPT !.pc = "editing", !.ref = cached]]
  /\ UNCHANGED <<heap, cached, main, bak, job, worker, clock, acked, crashes, restores>>

PatchSaveInThread(e) ==  \* mutant: a handler in a thread of its own, not on the loop
  /\ Alive /\ handler[e].pc = "editing"
  /\ heap' = [heap EXCEPT ![handler[e].ref] =
                [edits |-> @.edits \union {e}, version |-> @.version + 1]]
  /\ job' = Save(handler[e].ref, e)
  /\ handler' = [handler EXCEPT ![e].pc = "saving"]
  /\ UNCHANGED <<cached, main, bak, worker, clock, acked, crashes, restores>>

\* ... then the object loaded before is changed in place and saved ...
PatchSave(e) ==
  /\ Free /\ handler[e].pc = "editing"
  /\ heap' = [heap EXCEPT ![handler[e].ref] =
                [edits |-> @.edits \union {e}, version |-> @.version + 1]]
  /\ job' = Save(handler[e].ref, e)
  /\ handler' = [handler EXCEPT ![e].pc = "saving"]
  /\ UNCHANGED <<cached, main, bak, worker, clock, acked, crashes, restores>>

\* ... or it is refused (422), perhaps after some of its fields were set.
PatchReject(e) ==
  /\ Free /\ handler[e].pc = "editing"
  /\ \/ UNCHANGED heap
     \/ heap' = [heap EXCEPT ![handler[e].ref].edits = @ \union {e}]
  /\ handler' = [handler EXCEPT ![e].pc = "rejected"]
  /\ UNCHANGED <<cached, main, bak, job, worker, clock, acked, crashes, restores>>

\* POST /admin/config/reload.
Reload ==
  /\ Free /\ Current # Recoverable
  /\ heap' = Append(heap, Recoverable)
  /\ cached' = Len(heap')
  /\ UNCHANGED <<main, bak, job, handler, worker, clock, acked, crashes, restores>>

\* POST /admin/backups/restore: the backup is staged first.
Restore(i) ==
  /\ Free /\ bak[i] # {} /\ restores < MaxRestores
  /\ restores' = restores + 1
  /\ job' = [pc |-> IF Keep > 1 THEN "shift" ELSE "copy", obj |-> 0, edit |-> 0,
             from |-> bak[i], slot |-> Keep - 2]
  /\ UNCHANGED <<heap, cached, main, bak, handler, worker, clock, acked, crashes>>

ShiftUp ==  \* mutant: the newest slots are shifted first
  /\ job.pc = "shift"
  /\ LET i == Keep - 2 - job.slot
     IN  bak' = IF bak[i] = {} THEN bak ELSE [bak EXCEPT ![i + 1] = bak[i], ![i] = {}]
  /\ job' = IF job.slot > 0 THEN [job EXCEPT !.slot = @ - 1]
            ELSE [job EXCEPT !.pc = IF job.obj = 0 THEN "copy" ELSE "retire"]
  /\ UNCHANGED <<heap, cached, main, handler, worker, clock, acked, crashes, restores>>

\* _rotate_backups(): one slot at a time, the oldest first.
Shift ==
  /\ job.pc = "shift"
  /\ LET i == job.slot
     IN  bak' = IF bak[i] = {} THEN bak ELSE [bak EXCEPT ![i + 1] = bak[i], ![i] = {}]
  /\ job' = IF job.slot > 0 THEN [job EXCEPT !.slot = @ - 1]
            ELSE [job EXCEPT !.pc = IF job.obj = 0 THEN "copy" ELSE "retire"]
  /\ UNCHANGED <<heap, cached, main, handler, worker, clock, acked, crashes, restores>>

RetireUnlink ==  \* mutant: the old file is removed, not kept as the newest backup
  /\ job.pc = "retire"
  /\ main' = {} /\ job' = [job EXCEPT !.pc = "replace"]
  /\ UNCHANGED <<heap, cached, bak, handler, worker, clock, acked, crashes, restores>>

\* config.json becomes the newest backup.  Until it is replaced there is none.
Retire ==
  /\ job.pc = "retire"
  /\ bak' = [bak EXCEPT ![0] = main]
  /\ main' = {}
  /\ job' = [job EXCEPT !.pc = "replace"]
  /\ UNCHANGED <<heap, cached, handler, worker, clock, acked, crashes, restores>>

\* The temporary file replaces config.json, the object becomes `_config', and
\* the request is answered.
Replace ==
  /\ job.pc = "replace"
  /\ clock' = clock + 1
  /\ main' = File(heap[job.obj], clock', clock')
  /\ cached' = job.obj
  /\ acked' = heap[job.obj]
  /\ handler' = [handler EXCEPT ![job.edit].pc = "ok"]
  /\ job' = Idle
  /\ UNCHANGED <<heap, bak, worker, crashes, restores>>

\* restore_backup() keeps a copy of config.json as the newest backup; without
\* a config.json it fails, after the rotation.
Copy ==
  /\ job.pc = "copy"
  /\ IF main = {} THEN job' = Idle /\ UNCHANGED bak
     ELSE /\ bak' = [bak EXCEPT ![0] = main]
          /\ job' = [job EXCEPT !.pc = "swap"]
  /\ UNCHANGED <<heap, cached, main, handler, worker, clock, acked, crashes, restores>>

\* The staged backup replaces config.json, with the mtime it had, and the
\* configuration is reloaded.
Swap ==
  /\ job.pc = "swap"
  /\ clock' = clock + 1
  /\ main' = File(Conf(job.from), Mtime(job.from), clock')
  /\ heap' = Append(heap, Conf(job.from))
  /\ cached' = Len(heap')
  /\ acked' = Conf(job.from)
  /\ job' = Idle
  /\ UNCHANGED <<bak, handler, worker, crashes, restores>>

-----------------------------------------------------------------------------
\* load_config() in the worker, at every request: stat, then which files exist,
\* then the first of them that can be read.  File i = 0 is config.json, i > 0 a
\* backup.
FileAt(i) == IF i = 0 THEN main ELSE bak[i - 1]

Stat ==
  /\ worker.pc = "ready" /\ Mtime(main) # worker.mtime
  /\ worker' = [worker EXCEPT !.pc = "scan", !.stat = Mtime(main), !.next = 0, !.found = <<>>]
  /\ UNCHANGED <<heap, cached, main, bak, job, handler, clock, acked, crashes, restores>>

Scan ==
  /\ worker.pc = "scan"
  /\ worker' = [worker EXCEPT
       !.found = IF FileAt(worker.next) = {} THEN @ ELSE Append(@, worker.next),
       !.next = @ + 1,
       !.pc = IF worker.next = Keep THEN "read" ELSE "scan"]
  /\ UNCHANGED <<heap, cached, main, bak, job, handler, clock, acked, crashes, restores>>

ReadStatLast ==  \* mutant: the mtime recorded is the one after the read
  /\ worker.pc = "read"
  /\ LET loaded(c) == [Waiting EXCEPT !.conf = c, !.mtime = Mtime(main)]
     IN  worker' = IF worker.found = <<>> THEN loaded(Empty)
                   ELSE IF FileAt(Head(worker.found)) = {}
                   THEN [worker EXCEPT !.found = Tail(@)]
                   ELSE loaded(Conf(FileAt(Head(worker.found))))
  /\ UNCHANGED <<heap, cached, main, bak, job, handler, clock, acked, crashes, restores>>

\* The next candidate: loaded, or gone since it was seen.  With none left the
\* worker goes on with an empty configuration.
Read ==
  /\ worker.pc = "read"
  /\ LET loaded(c) == [Waiting EXCEPT !.conf = c, !.mtime = worker.stat]
     IN  worker' = IF worker.found = <<>> THEN loaded(Empty)
                   ELSE IF FileAt(Head(worker.found)) = {}
                   THEN [worker EXCEPT !.found = Tail(@)]
                   ELSE loaded(Conf(FileAt(Head(worker.found))))
  /\ UNCHANGED <<heap, cached, main, bak, job, handler, clock, acked, crashes, restores>>

WorkerLoad == Stat \/ Scan \/ Read
JobStep == Shift \/ Retire \/ Replace \/ Copy \/ Swap

Next ==
  \/ Boot \/ Crash \/ Reload
  \/ \E e \in Edits : Get(e) \/ Put(e) \/ PatchLoad(e) \/ PatchSave(e) \/ PatchReject(e)
  \/ \E i \in Slots : Restore(i)
  \/ JobStep
  \/ WorkerLoad

\* A save runs to its end unless the process dies, and requests (and the
\* worker's own loops) keep calling load_config().
Spec == Init /\ [][Next]_vars /\ WF_vars(JobStep) /\ WF_vars(WorkerLoad)

-----------------------------------------------------------------------------
Configs == [edits : SUBSET Edits, version : Nat]
Files == SUBSET [conf : Configs, mtime : Nat, gen : Nat]

\* One save at a time: the handler in it is the only one that is saving.
TypeOK ==
  /\ heap \in Seq(Configs) /\ cached \in 0..Len(heap)
  /\ handler \in [Edits -> [pc   : {"new", "viewed", "conflict", "editing", "saving",
                                    "ok", "rejected", "lost"},
                             ref  : 0..Len(heap), seen : Configs]]
  /\ \A e \in Edits : handler[e].pc = "saving" <=> job # Idle /\ job.edit = e
  /\ main \in Files /\ bak \in [Slots -> Files]
  /\ \A f \in {main} \union {bak[i] : i \in Slots} : Cardinality(f) <= 1
  /\ worker.conf \in Configs /\ acked \in Configs /\ clock \in Nat

\* Whenever the supervisor dies, what it loads when it starts again is the
\* configuration the last confirmed save or restore left, or the one that was
\* being saved or restored: never an older generation, never the empty one.
CrashKeepsTheLastSave ==
  Recoverable \in {acked} \union
    IF job = Idle THEN {} ELSE IF job.obj = 0 THEN {Conf(job.from)} ELSE {heap[job.obj]}

\* The backups are the previous generations, newest first, in every state of a
\* rotation; and with no crash, none of the last Keep is missing between saves.
BackupsAreHistory ==
  /\ \A i, j \in Slots : i < j /\ bak[i] # {} /\ bak[j] # {} => Gen(bak[i]) >= Gen(bak[j])
  /\ \A i \in Slots : main # {} /\ bak[i] # {} => Gen(main) >= Gen(bak[i])
  /\ job = Idle /\ crashes = 0 =>
       \A i \in Slots : i + 1 < clock => bak[i] # {} /\ Gen(bak[i]) = clock - 1 - i

\* The worker ends up with the configuration that was saved last, whatever
\* renames its own stat, existence tests and reads fell between.  (Two missing
\* config.json's look the same to it, and a restored one may look like one it
\* has read.)
WorkerFollowsSaves ==
  <>[](job = Idle /\ main # {} /\ restores = 0 => worker.conf = Recoverable)
=============================================================================
