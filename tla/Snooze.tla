------------------------------- MODULE Snooze -------------------------------
(***************************************************************************)
(* ratelimit.py and the endpoints that snooze, unsnooze and rename: which  *)
(* backends are out of service because a person said so (permanently or    *)
(* for a time) or because they answered 429.  The worker, which routes,    *)
(* and the supervisor, which serves the dashboard, are processes with a    *)
(* RateLimitState of their own; both read data/snooze.json when they start *)
(* and write it when one of their own endpoints changes something, and the *)
(* worker also writes it when it shuts down.                               *)
(*                                                                         *)
(* Keys are provider names (a backend per provider), because renaming a    *)
(* provider renames its keys.  A cooldown is what is left of it: monotonic *)
(* in memory, wall clock in the file, and 0 for none or expired.           *)
(***************************************************************************)
EXTENDS Integers

CONSTANTS Providers, Names,
          Doors,      \* the processes whose admin endpoints are called
          Durations,  \* of timed snoozes and of 429 cooldowns
          MaxEnds     \* bound on processes that end, for finite checking

Worker     == "worker"
Supervisor == "supervisor"

ASSUME SnoozeAssumption ==
  /\ Doors \subseteq {Worker, Supervisor}
  /\ Durations \subseteq Nat \ {0} /\ MaxEnds \in Nat

VARIABLES name,   \* the provider name of each backend in config.json
          up,     \* which processes run
          perm,   \* _permanent of each process
          left,   \* _cooldowns of each process: what is left
          file,   \* snooze.json
          job,    \* the admin request (or shutdown) each process is in
          hold,   \* history: backends whose permanent snooze was confirmed last
          asked,  \* history: the longest cooldown asked for by name, what is left of it
          cut,    \* history: a process died in the middle of a request or save
          ends

snoozeVars == <<name, up, perm, left, file, job, hold, asked, cut, ends>>
memory == <<perm, left>>
history == <<hold, asked>>

Procs == Doors \union {Worker}

None  == [k \in Names |-> 0]
NoFile == [ok |-> TRUE, perm |-> {}, left |-> None]
Torn  == [ok |-> FALSE, perm |-> {}, left |-> None]  \* truncated, not JSON yet

Idle  == [pc |-> "idle", hold |-> {}, freed |-> {}]

Injective == {f \in [Providers -> Names] : \A a, b \in Providers : f[a] = f[b] => a = b}

SnoozeInit ==
  /\ name \in Injective
  /\ up = [p \in Procs |-> TRUE]
  /\ perm = [p \in Procs |-> {}] /\ left = [p \in Procs |-> None]
  /\ file = NoFile
  /\ job = [p \in Procs |-> Idle]
  /\ hold = {} /\ asked = None /\ cut = FALSE /\ ends = 0

-----------------------------------------------------------------------------
Available(p, k) == k \notin perm[p] /\ left[p][k] = 0

Free(p) == up[p] /\ job[p] = Idle

\* What save() writes: a permanently snoozed key has no cooldown in the file.
Image(p) ==
  [ok |-> TRUE, perm |-> perm[p],
   left |-> [k \in Names |-> IF k \in perm[p] THEN 0 ELSE left[p][k]]]

\* save() begins: write_text() truncates the file.  `h' is the hold, and `freed'
\* the names without cooldown, once the request is answered.
SaveFor(p, h, freed) ==
  /\ file' = Torn
  /\ job' = [job EXCEPT ![p] = [pc |-> "saving", hold |-> h, freed |-> freed]]

Raise(k, n) == asked' = [asked EXCEPT ![k] = IF @ >= n THEN @ ELSE n]

SnoozeFor(p, b, n) ==
  /\ Free(p) /\ p \in Doors
  /\ left' = [left EXCEPT ![p][name[b]] = n]
  /\ perm' = [perm EXCEPT ![p] = @ \ {name[b]}]
  /\ SaveFor(p, hold \ {b}, {})
  /\ Raise(name[b], n)
  /\ UNCHANGED <<name, up, hold, cut, ends>>

SnoozePermanentUnsaved(p, b) ==  \* mutant: no ratelimit.save()
  /\ Free(p) /\ p \in Doors
  /\ perm' = [perm EXCEPT ![p] = @ \union {name[b]}]
  /\ left' = [left EXCEPT ![p][name[b]] = 0]
  /\ hold' = hold \union {b}
  /\ UNCHANGED <<name, up, file, job, asked, cut, ends>>

SnoozePermanent(p, b) ==
  /\ Free(p) /\ p \in Doors
  /\ perm' = [perm EXCEPT ![p] = @ \union {name[b]}]
  /\ left' = [left EXCEPT ![p][name[b]] = 0]
  /\ SaveFor(p, hold \union {b}, {name[b]})
  /\ UNCHANGED <<name, up, hold, asked, cut, ends>>

UnsnoozeUnsaved(p, b) ==  \* mutant: no ratelimit.save()
  /\ Free(p) /\ p \in Doors
  /\ perm' = [perm EXCEPT ![p] = @ \ {name[b]}]
  /\ left' = [left EXCEPT ![p][name[b]] = 0]
  /\ hold' = hold \ {b} /\ asked' = [asked EXCEPT ![name[b]] = 0]
  /\ UNCHANGED <<name, up, file, job, cut, ends>>

Unsnooze(p, b) ==
  /\ Free(p) /\ p \in Doors
  /\ perm' = [perm EXCEPT ![p] = @ \ {name[b]}]
  /\ left' = [left EXCEPT ![p][name[b]] = 0]
  /\ SaveFor(p, hold \ {b}, {name[b]})
  /\ UNCHANGED <<name, up, hold, asked, cut, ends>>

\* clear(): the file is written only when there was something to clear; expired
\* cooldowns that nobody looked at still count.  (A snooze that a 429 cut short
\* may be left in the file: it has not been taken back then.)
UnsnoozeAll(p) ==
  /\ Free(p) /\ p \in Doors
  /\ perm' = [perm EXCEPT ![p] = {}]
  /\ left' = [left EXCEPT ![p] = None]
  /\ \/ SaveFor(p, {}, Names)
     \/ (\A k \in Names : Available(p, k)) /\ UNCHANGED <<file, job>>
  /\ UNCHANGED <<name, up, history, cut, ends>>

\* POST /admin/rename of a provider: config.json first ...
Rename(p, b, new) ==
  /\ Free(p) /\ p \in Doors
  /\ \A c \in Providers : name[c] # new
  /\ name' = [name EXCEPT ![b] = new]
  /\ job' = [job EXCEPT ![p] = [pc |-> "renaming", from |-> name[b], to |-> new]]
  /\ UNCHANGED <<up, memory, file, history, cut, ends>>

Moved(f, old, new) == [f EXCEPT ![old] = 0, ![new] = f[old]]

\* ... then the keys of this process, and the file if it had any.  A cooldown that
\* has expired, but that nobody looked at, counts and is moved too.
RenameKeys(p) ==
  /\ job[p].pc = "renaming"
  /\ LET old == job[p].from
         new == job[p].to
     IN  /\ perm' = [perm EXCEPT ![p] = (@ \ {old}) \union (IF old \in @ THEN {new} ELSE {})]
         /\ \E there \in {TRUE, left[p][old] > 0} :
              /\ left' = IF there THEN [left EXCEPT ![p] = Moved(left[p], old, new)] ELSE left
              /\ IF there \/ old \in perm[p]
                 THEN SaveFor(p, hold, {old})
                 ELSE job' = [job EXCEPT ![p] = Idle] /\ UNCHANGED file
         /\ Raise(new, asked[old])
  /\ UNCHANGED <<name, up, hold, cut, ends>>

\* The file is written; the request is answered, or the worker is gone.
Written(p) ==
  /\ job[p].pc \in {"saving", "closing"}
  /\ file' = Image(p)
  /\ hold' = job[p].hold
  /\ asked' = [k \in Names |-> IF k \in job[p].freed THEN 0 ELSE asked[k]]
  /\ up' = [up EXCEPT ![p] = job[p].pc = "saving"]
  /\ job' = [job EXCEPT ![p] = Idle]
  /\ UNCHANGED <<name, memory, cut, ends>>

\* A backend answers 429; the cooldown it gets replaces the one it had.  The
\* worker's event loop is not inside a request or a save.
CoolDown(b, n) ==
  /\ Free(Worker)
  /\ left' = [left EXCEPT ![Worker][name[b]] = n]
  /\ Raise(name[b], n)
  /\ UNCHANGED <<name, up, perm, file, job, hold, cut, ends>>

\* The worker is told to stop, and saves on its way out.
Shutdown ==
  /\ Free(Worker) /\ ends < MaxEnds
  /\ ends' = ends + 1
  /\ file' = Torn
  /\ job' = [job EXCEPT ![Worker] = [pc |-> "closing", hold |-> hold, freed |-> {}]]
  /\ UNCHANGED <<name, up, memory, history, cut>>

\* A process is killed, or ends without saving: the supervisor always does.
Kill(p) ==
  /\ up[p] /\ ends < MaxEnds
  /\ ends' = ends + 1
  /\ up' = [up EXCEPT ![p] = FALSE]
  /\ job' = [job EXCEPT ![p] = Idle]
  /\ cut' = (cut \/ job[p] # Idle)
  /\ UNCHANGED <<name, memory, file, history>>

\* The module is imported: load_from_file().
Boot(p) ==
  /\ ~up[p]
  /\ up' = [up EXCEPT ![p] = TRUE]
  /\ perm' = [perm EXCEPT ![p] = file.perm]
  /\ left' = [left EXCEPT ![p] = file.left]
  /\ UNCHANGED <<name, file, job, history, cut, ends>>

Less(f) == [x \in DOMAIN f |-> IF f[x] > 0 THEN f[x] - 1 ELSE 0]

Tick ==
  /\ \E k \in Names : asked[k] > 0
  /\ left' = [p \in Procs |-> Less(left[p])]
  /\ file' = [file EXCEPT !.left = Less(@)]
  /\ asked' = Less(asked)
  /\ UNCHANGED <<name, up, perm, job, hold, cut, ends>>

SnoozeNext ==
  \/ \E p \in Doors :
       \/ \E b \in Providers : SnoozePermanent(p, b) \/ Unsnooze(p, b)
       \/ \E b \in Providers, n \in Durations : SnoozeFor(p, b, n)
       \/ \E b \in Providers, new \in Names : Rename(p, b, new)
       \/ UnsnoozeAll(p) \/ RenameKeys(p)
  \/ \E p \in Procs : Written(p) \/ Kill(p) \/ Boot(p)
  \/ \E b \in Providers, n \in Durations : CoolDown(b, n)
  \/ Shutdown
  \/ Tick

SnoozeSpec == SnoozeInit /\ [][SnoozeNext]_snoozeVars

-----------------------------------------------------------------------------
Named(S) == {b \in Providers : name[b] \in S}

\* When one process takes all the admin requests, the backends out of service
\* for good are exactly those whose last confirmed request said so: in the
\* memory the router reads, and in the file the next worker will read, through
\* 429s, renames, restarts and kills (but for one in the middle of a request).
HoldsAreKept ==
  ~cut /\ job[Worker] = Idle =>
    /\ up[Worker] => hold = Named(perm[Worker])
    /\ hold = Named(file.perm)

\* Nor does a name sit out a cooldown that nobody asked for under it, that is
\* over, or that was taken back and saved: a stale file revives none.
NothingIsRevived ==
  ~cut /\ job[Worker] = Idle =>
    \A k \in Names :
      /\ up[Worker] => left[Worker][k] <= asked[k]
      /\ file.left[k] <= asked[k]

\* "Manually put on hold (snoozed). No traffic is sent until you click
\* Unsnooze." (web/js/connections.js:62); "Permanently snooze a backend until
\* explicitly removed" (ratelimit.py:51).
NoTrafficUntilUnsnoozed ==
  up[Worker] /\ ~cut /\ (\A p \in Procs : job[p] = Idle) =>
    \A b \in hold : ~Available(Worker, name[b])
=============================================================================
