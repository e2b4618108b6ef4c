--------------------------- MODULE ConfigStoreProofs ---------------------------
(***************************************************************************)
(* For any edits, any number of backup slots, restores and crashes: what   *)
(* the supervisor finds when it starts again is the configuration that the *)
(* last save or restore left, at every step of a rotation; the backups are *)
(* the history, in order and, with no crash, without a gap; and files,     *)
(* objects and handlers are well typed.                                    *)
(***************************************************************************)
EXTENDS ConfigStore, WellFoundedInduction, FiniteSetTheorems, TLAPS

-----------------------------------------------------------------------------
(* What can be recovered from a config.json m and backups b. *)

IsFirst(b, i) == i \in Slots /\ b[i] # {} /\ \A j \in 0..(i - 1) : b[j] = {}

RecoverFrom(m, b) ==
  IF m # {} THEN Conf(m)
  ELSE IF \E i \in Slots : b[i] # {}
  THEN Conf(b[CHOOSE i \in Slots : b[i] # {} /\ \A j \in 0..(i - 1) : b[j] = {}])
  ELSE Empty

\* If there is a backup there is a newest one.
LEMMA HasFirst ==
  ASSUME NEW b, NEW k \in Slots, b[k] # {}
  PROVE  \E i \in Slots : IsFirst(b, i)
<1> DEFINE T == {i \in Slots : b[i] # {}}
<1>1. T # {} /\ T \subseteq Nat /\ Slots \subseteq Nat
  BY DEF Slots
<1>2. PICK x \in T : \A y \in T : ~(<<y, x>> \in OpToRel(<, Nat))
  BY <1>1, NatLessThanWellFounded, WFMin
<1>3. \A y \in T : ~(y < x)
  BY <1>1, <1>2 DEF OpToRel
<1>4. ASSUME NEW j \in 0..(x - 1) PROVE b[j] = {}
  <2>1. j \in Slots /\ j < x
    BY <1>1, StoreAssumption DEF Slots
  <2> QED
    BY <1>3, <2>1
<1> QED
  BY <1>4 DEF IsFirst

\* It is what is read when config.json is missing.
LEMMA FirstDecides ==
  ASSUME NEW b, NEW i, IsFirst(b, i)
  PROVE  RecoverFrom({}, b) = Conf(b[i])
<1> DEFINE P(n) == b[n] # {} /\ \A j \in 0..(n - 1) : b[j] = {}
<1>1. i \in Slots /\ P(i)
  BY DEF IsFirst
<1>2. ASSUME NEW n \in Slots, P(n) PROVE n = i
  <2>1. ~(n < i) /\ ~(i < n)
    BY <1>1, <1>2 DEF Slots
  <2> QED
    BY <1>1, <2>1 DEF Slots
<1>3. (CHOOSE n \in Slots : P(n)) = i
  BY <1>1, <1>2
<1> QED
  BY <1>1, <1>3 DEF RecoverFrom

\* Shifting one slot of a rotation leaves that as it was, although the oldest
\* backup is lost.
LEMMA ShiftRecovers ==
  ASSUME NEW S, NEW b \in [Slots -> S], NEW m, NEW s \in 0..(Keep - 2), NEW c,
         c = IF b[s] = {} THEN b ELSE [b EXCEPT ![s + 1] = b[s], ![s] = {}]
  PROVE  RecoverFrom(m, c) = RecoverFrom(m, b)
<1>1. CASE m # {}
  BY <1>1 DEF RecoverFrom
<1>2. CASE b[s] = {}
  <2>1. c = b
    BY <1>2
  <2> QED
    BY <2>1
<1>3. CASE m = {} /\ b[s] # {}
  <2>1. /\ s \in Slots /\ s + 1 \in Slots /\ s # s + 1 /\ s \in Nat /\ s + 1 \in Nat
        /\ Slots = 0..(Keep - 1) /\ Keep \in Nat
    BY StoreAssumption DEF Slots
  <2>2. PICK i \in Slots : IsFirst(b, i)
    BY <1>3, <2>1, HasFirst
  <2>3. i \in Nat /\ \A j \in 0..(i - 1) : b[j] = {}
    BY <2>1, <2>2 DEF IsFirst
  <2>4. i <= s
    BY <1>3, <2>1, <2>3
  <2>5. /\ c[s] = {} /\ c[s + 1] = b[s]
        /\ \A j \in Slots \ {s, s + 1} : c[j] = b[j]
    BY <1>3, <2>1
  <2>6. \A j \in 0..(i - 1) : c[j] = {}
    <3> TAKE j \in 0..(i - 1)
    <3>1. j \in Slots \ {s, s + 1} /\ b[j] = {}
      BY <2>1, <2>3, <2>4
    <3> QED
      BY <2>5, <3>1
  <2>7. CASE i = s
    <3>1. ASSUME NEW j \in 0..s PROVE c[j] = {}
      <4>1. j = s \/ j \in 0..(i - 1)
        BY <2>1, <2>7
      <4> QED
        BY <2>5, <2>6, <4>1
    <3>2. IsFirst(c, s + 1)
      <4>1. 0..((s + 1) - 1) = 0..s
        BY <2>1
      <4> QED
        BY <1>3, <2>1, <2>5, <3>1, <4>1 DEF IsFirst
    <3>3. RecoverFrom({}, c) = Conf(c[s + 1]) /\ RecoverFrom({}, b) = Conf(b[s])
      BY <2>2, <2>7, <3>2, FirstDecides
    <3> QED
      BY <1>3, <2>5, <3>3
  <2>8. CASE i < s
    <3>1. c[i] = b[i]
      BY <2>1, <2>2, <2>5, <2>8
    <3>2. IsFirst(c, i)
      BY <2>2, <2>6, <3>1 DEF IsFirst
    <3>3. RecoverFrom({}, c) = Conf(c[i]) /\ RecoverFrom({}, b) = Conf(b[i])
      BY <2>2, <3>2, FirstDecides
    <3> QED
      BY <1>3, <3>1, <3>3
  <2> QED
    BY <2>1, <2>3, <2>4, <2>7, <2>8
<1> QED
  BY <1>1, <1>2, <1>3

-----------------------------------------------------------------------------
(* The invariant. *)

Stamped == [conf : Configs, mtime : Nat, gen : Nat]
OneFile == {{}} \union {{x} : x \in Stamped}

Steps == {"shift", "retire", "replace", "copy", "swap"}
Jobs  == [pc : Steps, obj : Nat, edit : Edits \union {0}, from : OneFile, slot : Int]

\* A job that saves has an object, one that restores a backup; config.json is
\* there until the job itself retires it.
JobSane(j) ==
  /\ j.obj <= Len(heap)
  /\ j.pc = "shift" => j.slot \in 0..(Keep - 2)
  /\ j.pc \in {"retire", "replace"} => j.obj # 0
  /\ j.pc \in {"copy", "swap"} => j.obj = 0
  /\ j.obj = 0 => j.from # {}
  /\ j.pc = "retire" \/ (j.pc = "shift" /\ j.obj # 0) => main # {}

Places == {"new", "viewed", "conflict", "editing", "saving", "ok", "rejected", "lost"}
Handlers == [pc : Places, ref : Nat, seen : Configs]

Typed ==
  /\ heap \in Seq(Configs) /\ cached \in 0..Len(heap) /\ acked \in Configs /\ clock \in Nat
  /\ main \in OneFile /\ bak \in [Slots -> OneFile]
  /\ handler \in [Edits -> Handlers]
  /\ \A e \in Edits : handler[e].pc = "editing" => handler[e].ref \in 1..Len(heap)
  /\ job \in {Idle} \union Jobs
  /\ job # Idle => JobSane(job)

\* What could be recovered is what was confirmed, because the steps of a save
\* move the newest file without losing it, and a rename ends it.
IInv == Typed /\ Recoverable = acked

-----------------------------------------------------------------------------
(* Small facts about objects, files and jobs. *)

\* A file holds a configuration.
LEMMA FileHolds ==
  ASSUME NEW c \in Configs, NEW m \in Nat, NEW g \in Nat
  PROVE  File(c, m, g) \in OneFile /\ File(c, m, g) # {} /\ Conf(File(c, m, g)) = c
<1> DEFINE x == [conf |-> c, mtime |-> m, gen |-> g]
<1>1. x \in Stamped /\ File(c, m, g) = {x} /\ x.conf = c
  BY DEF Stamped, File
<1>2. (CHOOSE y \in {x} : TRUE) = x
  OBVIOUS
<1> QED
  BY <1>1, <1>2 DEF OneFile, Conf

\* A file that exists has a configuration and an mtime.
LEMMA FileGives ==
  ASSUME NEW f \in OneFile
  PROVE  Mtime(f) \in Nat /\ (f # {} => Conf(f) \in Configs)
<1>1. CASE f = {}
  BY <1>1 DEF Mtime
<1>2. CASE f # {}
  <2>1. PICK x \in Stamped : f = {x}
    BY <1>2 DEF OneFile
  <2>2. (CHOOSE y \in f : TRUE) = x
    BY <2>1
  <2> QED
    BY <1>2, <2>1, <2>2 DEF Mtime, Conf, Stamped
<1> QED
  BY <1>1, <1>2

\* A new object.
LEMMA HeapGrows ==
  ASSUME NEW c \in Configs, heap \in Seq(Configs), heap' = Append(heap, c)
  PROVE  heap' \in Seq(Configs) /\ Len(heap)' = Len(heap) + 1 /\ Len(heap) \in Nat
  OBVIOUS

\* A handler that gets somewhere.
LEMMA HandlerMoves ==
  ASSUME handler \in [Edits -> Handlers], NEW e \in Edits, NEW p \in Places,
         handler' = [handler EXCEPT ![e].pc = p]
  PROVE  /\ handler' \in [Edits -> Handlers] /\ handler'[e].pc = p
         /\ \A d \in Edits \ {e} : handler'[d] = handler[d]
<1>1. handler'[e] = [handler[e] EXCEPT !.pc = p] /\ handler[e] \in Handlers
  OBVIOUS
<1>2. handler'[e] \in Handlers /\ handler'[e].pc = p
  BY <1>1 DEF Handlers
<1> QED
  BY <1>2

\* A step that leaves the files and the confirmed configuration alone.
LEMMA FilesStay ==
  ASSUME IInv, Typed', UNCHANGED <<main, bak, acked>>
  PROVE  IInv'
  BY DEF IInv, Recoverable

\* A save begins as it may go on.
LEMMA SaveIsSane ==
  ASSUME NEW o \in Nat \ {0}, o <= Len(heap)', NEW e \in Edits, UNCHANGED main, NEW j, j = Save(o, e)
  PROVE  j \in Jobs /\ j # Idle /\ JobSane(j)'
<1>1. /\ j.pc = (IF main = {} THEN "replace" ELSE IF Keep > 1 THEN "shift" ELSE "retire")
      /\ j.obj = o /\ j.slot = Keep - 2
  BY DEF Save
<1>2. j \in Jobs
  BY StoreAssumption DEF Save, Jobs, Steps, OneFile
<1>3. j # Idle
  BY <1>1 DEF Idle
<1>4. JobSane(j)'
  BY <1>1, StoreAssumption DEF JobSane
<1> QED
  BY <1>2, <1>3, <1>4

-----------------------------------------------------------------------------
(* The handlers and the supervisor's own comings and goings. *)

\* A new object disturbs nobody who has one.
LEMMA GrowthKeeps ==
  ASSUME Typed, NEW c \in Configs, heap' = Append(heap, c), cached' \in {cached, Len(heap')},
         acked' \in Configs, UNCHANGED <<main, bak, handler, job, clock>>
  PROVE  Typed'
<1>1. heap \in Seq(Configs) /\ cached \in 0..Len(heap)
  BY DEF Typed
<1>2. heap' \in Seq(Configs) /\ Len(heap') = Len(heap) + 1 /\ Len(heap) \in Nat
  BY <1>1, HeapGrows
<1>3. job # Idle => JobSane(job)'
  <2>1. job # Idle => JobSane(job) /\ job.obj \in Nat
    BY DEF Typed, Jobs
  <2> QED
    BY <1>2, <2>1 DEF JobSane
<1>4. cached' \in 0..Len(heap')
  BY <1>1, <1>2
<1>5. \A e \in Edits : handler[e].pc = "editing" => handler[e].ref \in 1..Len(heap')
  BY <1>2 DEF Typed
<1> QED
  BY <1>2, <1>3, <1>4, <1>5 DEF Typed

\* Starting and reloading take what can be recovered; crashing loses the rest.
LEMMA ProcessKeeps ==
  ASSUME IInv, Boot \/ Reload \/ Crash
  PROVE  IInv'
<1>1. Typed /\ Recoverable = acked /\ acked \in Configs /\ handler \in [Edits -> Handlers]
  BY DEF IInv, Typed
<1>2. CASE Boot \/ Reload
  <2>1. /\ heap' = Append(heap, acked) /\ cached' = Len(heap') /\ acked' = acked
        /\ UNCHANGED <<main, bak, job, handler, clock>>
    BY <1>1, <1>2 DEF Boot, Reload
  <2>2. Typed'
    BY <1>1, <2>1, GrowthKeeps
  <2> QED
    BY <2>1, <2>2, FilesStay
<1>3. CASE Crash
  <2>1. /\ job' = Idle /\ cached' = 0 /\ UNCHANGED <<heap, main, bak, acked, clock>>
    BY <1>3 DEF Crash
  <2>2. ASSUME NEW e \in Edits
        PROVE  handler'[e] \in Handlers /\ handler'[e].pc # "editing"
    <3>1. handler[e] \in Handlers
      BY <1>1
    <3>2. handler'[e] = IF handler[e].pc \in {"editing", "saving"}
                        THEN [handler[e] EXCEPT !.pc = "lost"] ELSE handler[e]
      BY <1>3 DEF Crash
    <3>3. CASE handler[e].pc \in {"editing", "saving"}
      BY <3>1, <3>2, <3>3 DEF Handlers, Places
    <3>4. CASE handler[e].pc \notin {"editing", "saving"}
      BY <3>1, <3>2, <3>4
    <3> QED
      BY <3>3, <3>4
  <2>3. handler' \in [Edits -> Handlers]
    BY <1>3, <2>2 DEF Crash
  <2>4. Typed'
    BY <1>1, <2>1, <2>2, <2>3 DEF Typed
  <2> QED
    BY <2>1, <2>4, FilesStay
<1> QED
  BY <1>2, <1>3

\* Looking, loading and being refused: nothing is saved yet.
LEMMA HandlerKeeps ==
  ASSUME IInv, NEW e \in Edits, Get(e) \/ PatchLoad(e) \/ PatchReject(e)
  PROVE  IInv'
<1> DEFINE h == handler[e]
<1>1. /\ Typed /\ h \in Handlers /\ heap \in Seq(Configs) /\ cached \in 1..Len(heap)
      /\ UNCHANGED <<cached, main, bak, job, clock, acked>>
  BY DEF IInv, Typed, Get, PatchLoad, PatchReject, Free, Alive
<1>2. heap[cached] \in Configs /\ cached \in Nat
  BY <1>1
<1>3. CASE Get(e) \/ PatchLoad(e)
  <2>0. PICK g : g = IF Get(e) THEN [h EXCEPT !.pc = "viewed", !.seen = heap[cached]]
                     ELSE [h EXCEPT !.pc = "editing", !.ref = cached]
    OBVIOUS
  <2>1. g \in Handlers /\ (g.pc = "editing" => g.ref \in 1..Len(heap))
    <3>1. CASE Get(e)
      <4>1. g = [h EXCEPT !.pc = "viewed", !.seen = heap[cached]]
        BY <2>0, <3>1
      <4> QED
        BY <1>1, <1>2, <4>1 DEF Handlers, Places
    <3>2. CASE ~Get(e)
      <4>1. g = [h EXCEPT !.pc = "editing", !.ref = cached]
        BY <2>0, <3>2
      <4> QED
        BY <1>1, <1>2, <4>1 DEF Handlers, Places
    <3> QED
      BY <3>1, <3>2
  <2>2. heap' = heap /\ handler' = [handler EXCEPT ![e] = g]
    BY <1>3, <2>0 DEF Get, PatchLoad, Current
  <2>3. Typed'
    BY <1>1, <2>1, <2>2 DEF Typed, JobSane
  <2> QED
    BY <1>1, <2>3, FilesStay
<1>4. CASE PatchReject(e)
  <2>1. h.pc = "editing" /\ h.ref \in 1..Len(heap)
    BY <1>4 DEF PatchReject, IInv, Typed
  <2>2. heap' \in Seq(Configs) /\ Len(heap') = Len(heap)
    <3>1. CASE heap' = heap
      BY <1>1, <3>1
    <3>2. CASE heap' = [heap EXCEPT ![h.ref].edits = @ \union {e}]
      <4>1. PICK c : c = [heap[h.ref] EXCEPT !.edits = @ \union {e}]
        OBVIOUS
      <4>2. heap[h.ref] \in Configs
        BY <1>1, <2>1
      <4>3. c \in Configs
        BY <4>1, <4>2 DEF Configs
      <4>4. heap' = [heap EXCEPT ![h.ref] = c]
        BY <3>2, <4>1
      <4> QED
        BY <1>1, <2>1, <4>3, <4>4
    <3> QED
      BY <1>4, <3>1, <3>2 DEF PatchReject
  <2>3. /\ handler'[e] \in Handlers /\ handler'[e].pc = "rejected"
        /\ handler' \in [Edits -> Handlers]
        /\ \A d \in Edits \ {e} : handler'[d] = handler[d]
    <3>1. handler' = [handler EXCEPT ![e].pc = "rejected"] /\ handler \in [Edits -> Handlers]
      BY <1>4 DEF PatchReject, IInv, Typed
    <3> QED
      BY <3>1, HandlerMoves DEF Places
  <2>4. Typed'
    BY <1>1, <2>2, <2>3 DEF Typed, JobSane
  <2> QED
    BY <1>1, <2>4, FilesStay
<1> QED
  BY <1>3, <1>4

\* A save begins, of a new object or of the one loaded before: the files are
\* touched later.
LEMMA SaveKeeps ==
  ASSUME IInv, NEW e \in Edits, Put(e) \/ PatchSave(e)
  PROVE  IInv'
<1> DEFINE h == handler[e]
<1>1. /\ Typed /\ h \in Handlers /\ heap \in Seq(Configs) /\ cached \in 1..Len(heap)
      /\ handler \in [Edits -> Handlers] /\ UNCHANGED <<cached, main, bak, clock, acked>>
  BY DEF IInv, Typed, Put, PatchSave, Free, Alive
<1>2. heap[cached] \in Configs /\ Len(heap) \in Nat /\ h.seen \in Configs
  BY <1>1 DEF Handlers
<1>3. ASSUME handler' = [handler EXCEPT ![e].pc = "saving"], heap' \in Seq(Configs),
             Len(heap') >= Len(heap),
             NEW o \in Nat \ {0}, o <= Len(heap'), job' = Save(o, e)
      PROVE  IInv'
  <2>1. handler' \in [Edits -> Handlers] /\ \A d \in Edits \ {e} : handler'[d] = handler[d]
    BY <1>1, <1>3, HandlerMoves DEF Places
  <2>2. handler'[e].pc = "saving"
    BY <1>1, <1>3, HandlerMoves DEF Places
  <2>3. PICK j : j = Save(o, e)
    OBVIOUS
  <2>4. j \in Jobs /\ j # Idle /\ JobSane(j)'
    BY <1>1, <1>3, <2>3, SaveIsSane
  <2>5. job' = j /\ Len(heap') \in Nat
    BY <1>3, <2>3
  <2>6. \A d \in Edits : handler'[d].pc = "editing" => handler'[d].ref \in 1..Len(heap')
    BY <1>1, <1>2, <1>3, <2>1, <2>2, <2>5 DEF Typed, Handlers
  <2>7. cached' \in 0..Len(heap')
    BY <1>1, <1>2, <1>3, <2>5
  <2>8. Typed'
    BY <1>1, <1>3, <2>1, <2>4, <2>5, <2>6, <2>7 DEF Typed
  <2> QED
    BY <1>1, <2>8, FilesStay
<1>4. CASE Put(e) /\ heap[cached].version # h.seen.version
  <2>1. handler' = [handler EXCEPT ![e].pc = "conflict"] /\ heap' = heap /\ job' = job
    BY <1>4 DEF Put, Current
  <2>2. /\ handler' \in [Edits -> Handlers] /\ handler'[e].pc = "conflict"
        /\ \A d \in Edits \ {e} : handler'[d] = handler[d]
    BY <1>1, <2>1, HandlerMoves DEF Places
  <2>3. Typed'
    BY <1>1, <2>1, <2>2 DEF Typed, JobSane
  <2> QED
    BY <1>1, <2>3, FilesStay
<1>5. CASE Put(e) /\ heap[cached].version = h.seen.version
  <2>1. PICK c : c = [edits |-> h.seen.edits \union {e}, version |-> heap[cached].version + 1]
    OBVIOUS
  <2>2. c \in Configs
    BY <1>2, <2>1 DEF Configs
  <2>3. /\ heap' = Append(heap, c) /\ job' = Save(Len(heap'), e)
        /\ handler' = [handler EXCEPT ![e].pc = "saving"]
    BY <1>5, <2>1 DEF Put, Current
  <2>4. heap' \in Seq(Configs) /\ Len(heap') = Len(heap) + 1
    BY <1>1, <2>2, <2>3
  <2> QED
    BY <1>2, <1>3, <2>3, <2>4
<1>6. CASE PatchSave(e)
  <2>1. h.ref \in 1..Len(heap)
    BY <1>6 DEF PatchSave, IInv, Typed
  <2>2. PICK c : c = [edits |-> heap[h.ref].edits \union {e}, version |-> heap[h.ref].version + 1]
    OBVIOUS
  <2>3. heap[h.ref] \in Configs
    BY <1>1, <2>1
  <2>4. c \in Configs
    BY <2>2, <2>3 DEF Configs
  <2>5. /\ heap' = [heap EXCEPT ![h.ref] = c] /\ job' = Save(h.ref, e)
        /\ handler' = [handler EXCEPT ![e].pc = "saving"]
    BY <1>6, <2>2 DEF PatchSave
  <2>6. heap' \in Seq(Configs) /\ Len(heap') = Len(heap)
    BY <1>1, <2>1, <2>4, <2>5
  <2> QED
    BY <1>2, <1>3, <2>1, <2>5, <2>6
<1> QED
  BY <1>4, <1>5, <1>6 DEF Put, Current

\* A restore begins with the backup it is from.
LEMMA RestoreKeeps ==
  ASSUME IInv, NEW i \in Slots, Restore(i)
  PROVE  IInv'
<1>1. /\ Typed /\ bak[i] \in OneFile \ {{}} /\ Len(heap) \in Nat
      /\ UNCHANGED <<heap, cached, main, bak, handler, clock, acked>>
  BY DEF IInv, Typed, Restore
<1>2. PICK j : j = [pc |-> IF Keep > 1 THEN "shift" ELSE "copy", obj |-> 0, edit |-> 0,
                    from |-> bak[i], slot |-> Keep - 2]
  OBVIOUS
<1>3. job' = j
  BY <1>2 DEF Restore
<1>4. j \in Jobs
  BY <1>1, <1>2, StoreAssumption DEF Jobs, Steps
<1>5. JobSane(j)'
  BY <1>1, <1>2, StoreAssumption DEF JobSane
<1>6. Typed'
  BY <1>1, <1>3, <1>4, <1>5 DEF Typed, JobSane
<1> QED
  BY <1>1, <1>6, FilesStay

-----------------------------------------------------------------------------
(* The steps of a save and of a restore. *)

\* A job under way that keeps the objects and moves files.
LEMMA FilesMove ==
  ASSUME Typed, job \in Jobs, UNCHANGED <<heap, cached, handler, clock, acked>>,
         main' \in OneFile, bak' \in [Slots -> OneFile], NEW j \in {Idle} \union Jobs, job' = j,
         j # Idle => JobSane(j)'
  PROVE  Typed'
  BY DEF Typed

\* One slot of the rotation.
LEMMA ShiftKeeps ==
  ASSUME IInv, Shift
  PROVE  IInv'
<1>1. /\ Typed /\ job \in Jobs /\ job.pc = "shift" /\ job # Idle /\ JobSane(job)
      /\ job.slot \in 0..(Keep - 2) /\ bak \in [Slots -> OneFile] /\ main \in OneFile
      /\ Recoverable = acked /\ UNCHANGED <<heap, cached, main, handler, clock, acked>>
  BY DEF IInv, Typed, Shift, Idle, JobSane
<1> DEFINE i == job.slot
<1>2. bak' = IF bak[i] = {} THEN bak ELSE [bak EXCEPT ![i + 1] = bak[i], ![i] = {}]
  BY DEF Shift
<1>3. i \in Slots /\ i + 1 \in Slots /\ i \in Nat
  BY <1>1, StoreAssumption DEF Slots
<1>4. bak' \in [Slots -> OneFile]
  <2>1. {} \in OneFile /\ bak[i] \in OneFile
    BY <1>1, <1>3 DEF OneFile
  <2> QED
    BY <1>1, <1>2, <1>3, <2>1
<1>5. PICK j : j = IF i > 0 THEN [job EXCEPT !.slot = @ - 1]
                   ELSE [job EXCEPT !.pc = IF job.obj = 0 THEN "copy" ELSE "retire"]
  OBVIOUS
<1>6. job' = j
  BY <1>5 DEF Shift
<1>7. /\ j.obj = job.obj /\ j.from = job.from
      /\ \/ j.pc = "shift" /\ j.slot = i - 1 /\ i > 0
         \/ j.pc = "copy" /\ job.obj = 0
         \/ j.pc = "retire" /\ job.obj # 0
      /\ j \in Jobs
  <2>1. CASE i > 0
    <3>1. j = [job EXCEPT !.slot = i - 1]
      BY <1>5, <2>1
    <3> QED
      BY <1>1, <1>3, <2>1, <3>1 DEF Jobs
  <2>2. CASE ~(i > 0) /\ job.obj = 0
    <3>1. j = [job EXCEPT !.pc = "copy"]
      BY <1>5, <2>2
    <3> QED
      BY <1>1, <2>2, <3>1 DEF Jobs, Steps
  <2>3. CASE ~(i > 0) /\ job.obj # 0
    <3>1. j = [job EXCEPT !.pc = "retire"]
      BY <1>5, <2>3
    <3> QED
      BY <1>1, <2>3, <3>1 DEF Jobs, Steps
  <2> QED
    BY <2>1, <2>2, <2>3
<1>8. JobSane(j)'
  <2>1. i > 0 => i - 1 \in 0..(Keep - 2)
    BY <1>1, <1>3, StoreAssumption
  <2> QED
    BY <1>1, <1>7, <2>1 DEF JobSane
<1>9. Typed'
  BY <1>1, <1>4, <1>6, <1>7, <1>8, FilesMove
<1>10. RecoverFrom(main, bak') = RecoverFrom(main, bak)
  BY <1>1, <1>2, ShiftRecovers
<1> QED
  BY <1>1, <1>9, <1>10 DEF IInv, Recoverable, RecoverFrom

\* config.json becomes the newest backup: it is what would be recovered.
LEMMA RetireKeeps ==
  ASSUME IInv, Retire
  PROVE  IInv'
<1>1. /\ Typed /\ job \in Jobs /\ job.pc = "retire" /\ job # Idle /\ JobSane(job) /\ main # {}
      /\ bak \in [Slots -> OneFile] /\ main \in OneFile /\ Recoverable = acked
      /\ bak' = [bak EXCEPT ![0] = main] /\ main' = {}
      /\ UNCHANGED <<heap, cached, handler, clock, acked>>
  BY DEF IInv, Typed, Retire, Idle, JobSane
<1>2. 0 \in Slots
  BY StoreAssumption DEF Slots
<1>3. bak'[0] = main /\ bak' \in [Slots -> OneFile] /\ main' \in OneFile
  BY <1>1, <1>2 DEF OneFile
<1>4. PICK j : j = [job EXCEPT !.pc = "replace"]
  OBVIOUS
<1>5. j \in Jobs /\ j.pc = "replace" /\ j.obj = job.obj /\ j.from = job.from
  BY <1>1, <1>4 DEF Jobs, Steps
<1>6. job' = j /\ JobSane(j)'
  BY <1>1, <1>4, <1>5 DEF Retire, JobSane
<1>7. Typed'
  BY <1>1, <1>3, <1>5, <1>6, FilesMove
<1>8. PICK b : b = bak'
  OBVIOUS
<1>9. IsFirst(b, 0)
  BY <1>1, <1>2, <1>3, <1>8 DEF IsFirst
<1>10. RecoverFrom({}, b) = Conf(main)
  BY <1>3, <1>8, <1>9, FirstDecides
<1>11. Recoverable' = Conf(main) /\ Recoverable = Conf(main)
  BY <1>1, <1>8, <1>10 DEF Recoverable, RecoverFrom
<1> QED
  BY <1>1, <1>7, <1>11 DEF IInv

\* A copy of config.json as the newest backup, while config.json stays.
LEMMA CopyKeeps ==
  ASSUME IInv, Copy
  PROVE  IInv'
<1>1. /\ Typed /\ job \in Jobs /\ job.pc = "copy" /\ job # Idle /\ JobSane(job)
      /\ bak \in [Slots -> OneFile] /\ main \in OneFile /\ Recoverable = acked
      /\ UNCHANGED <<heap, cached, main, handler, clock, acked>>
  BY DEF IInv, Typed, Copy, Idle
<1>2. CASE main = {}
  <2>1. job' = Idle /\ bak' = bak
    BY <1>2 DEF Copy
  <2>2. Typed'
    BY <1>1, <2>1, FilesMove
  <2> QED
    BY <1>1, <2>1, <2>2, FilesStay
<1>3. CASE main # {}
  <2>1. PICK j : j = [job EXCEPT !.pc = "swap"]
    OBVIOUS
  <2>2. j \in Jobs /\ j.pc = "swap" /\ j.obj = job.obj /\ j.from = job.from
    BY <1>1, <2>1 DEF Jobs, Steps
  <2>3. job' = j /\ bak' \in [Slots -> OneFile]
    BY <1>1, <1>3, <2>1 DEF Copy
  <2>4. JobSane(j)'
    BY <1>1, <2>2 DEF JobSane
  <2>5. Typed'
    BY <1>1, <2>2, <2>3, <2>4, FilesMove
  <2>6. Recoverable' = Recoverable
    BY <1>1, <1>3 DEF Recoverable
  <2> QED
    BY <1>1, <2>5, <2>6 DEF IInv
<1> QED
  BY <1>2, <1>3

\* The rename that ends a save: the object is recoverable and confirmed at once.
LEMMA ReplaceKeeps ==
  ASSUME IInv, Replace
  PROVE  IInv'
<1> DEFINE o == job.obj
<1>1. /\ Typed /\ job \in Jobs /\ job.pc = "replace" /\ job # Idle /\ JobSane(job)
      /\ heap \in Seq(Configs) /\ handler \in [Edits -> Handlers] /\ clock \in Nat
  BY DEF IInv, Typed, Replace, Idle
<1>2. o \in 1..Len(heap)
  BY <1>1 DEF JobSane, Jobs
<1>3. heap[o] \in Configs
  BY <1>1, <1>2
<1>4. /\ clock' \in Nat /\ main' = File(heap[o], clock', clock') /\ cached' = o
      /\ acked' = heap[o] /\ job' = Idle /\ UNCHANGED <<heap, bak>>
  BY <1>1 DEF Replace
<1>5. main' \in OneFile /\ main' # {} /\ Conf(main') = heap[o]
  BY <1>3, <1>4, FileHolds
<1>6. handler' \in [Edits -> Handlers] /\ \A d \in Edits : handler'[d] = handler[d] \/ handler'[d].pc = "ok"
  <2>1. handler' = [handler EXCEPT ![job.edit].pc = "ok"]
    BY DEF Replace
  <2>2. CASE job.edit \in Edits
    BY <1>1, <2>1, <2>2, HandlerMoves DEF Places
  <2>3. CASE job.edit \notin Edits
    BY <1>1, <2>1, <2>3
  <2> QED
    BY <2>2, <2>3
<1>7. Typed'
  BY <1>1, <1>2, <1>3, <1>4, <1>5, <1>6 DEF Typed
<1>8. Recoverable' = heap[o]
  BY <1>5 DEF Recoverable
<1> QED
  BY <1>4, <1>7, <1>8 DEF IInv

\* The rename that ends a restore, and the reload after it.
LEMMA SwapKeeps ==
  ASSUME IInv, Swap
  PROVE  IInv'
<1> DEFINE c == Conf(job.from)
<1>1. /\ Typed /\ job \in Jobs /\ job.pc = "swap" /\ job # Idle /\ JobSane(job)
      /\ heap \in Seq(Configs) /\ clock \in Nat /\ Len(heap) \in Nat
  BY DEF IInv, Typed, Swap, Idle
<1>2. job.from \in OneFile /\ job.from # {}
  BY <1>1 DEF JobSane, Jobs
<1>3. c \in Configs /\ Mtime(job.from) \in Nat
  BY <1>2, FileGives
<1>4. /\ clock' \in Nat /\ main' = File(c, Mtime(job.from), clock') /\ heap' = Append(heap, c)
      /\ cached' = Len(heap') /\ acked' = c /\ job' = Idle /\ UNCHANGED <<bak, handler>>
  BY <1>1 DEF Swap
<1>5. main' \in OneFile /\ main' # {} /\ Conf(main') = c
  BY <1>3, <1>4, FileHolds
<1>6. heap' \in Seq(Configs) /\ Len(heap') = Len(heap) + 1
  BY <1>1, <1>3, <1>4
<1>7. \A d \in Edits : handler[d].pc = "editing" => handler[d].ref \in 1..Len(heap')
  BY <1>1, <1>6 DEF Typed
<1>8. Typed'
  BY <1>1, <1>3, <1>4, <1>5, <1>6, <1>7 DEF Typed
<1>9. Recoverable' = c
  BY <1>5 DEF Recoverable
<1> QED
  BY <1>4, <1>8, <1>9 DEF IInv

-----------------------------------------------------------------------------
(* The theorem. *)

\* The first configuration is empty, and there.
LEMMA InitIInv == Init => IInv
<1> SUFFICES ASSUME Init PROVE IInv
  OBVIOUS
<1>1. Empty \in Configs
  BY DEF Empty, Configs
<1>2. main \in OneFile /\ main # {} /\ Conf(main) = Empty
  BY <1>1, FileHolds DEF Init
<1>3. bak \in [Slots -> OneFile]
  BY DEF Init, OneFile
<1>4. handler \in [Edits -> Handlers] /\ \A e \in Edits : handler[e].pc = "new"
  BY <1>1 DEF Init, Handlers, Places
<1>5. heap = <<>> /\ cached = 0 /\ acked = Empty /\ clock = 1 /\ job = Idle
  BY DEF Init
<1>6. Typed
  BY <1>1, <1>2, <1>3, <1>4, <1>5 DEF Typed
<1> QED
  BY <1>2, <1>5, <1>6 DEF IInv, Recoverable

\* Every step keeps the invariant; the worker only reads.
LEMMA NextIInv == IInv /\ [Next]_vars => IInv'
<1> SUFFICES ASSUME IInv, [Next]_vars PROVE IInv'
  OBVIOUS
<1>1. ASSUME UNCHANGED <<heap, cached, main, bak, job, handler, clock, acked>>
      PROVE  IInv'
  BY <1>1 DEF IInv, Typed, JobSane, Recoverable
<1>2. CASE WorkerLoad \/ UNCHANGED vars
  BY <1>1, <1>2 DEF WorkerLoad, Stat, Scan, Read, vars
<1>3. CASE JobStep
  BY <1>3, ShiftKeeps, RetireKeeps, ReplaceKeeps, CopyKeeps, SwapKeeps DEF JobStep
<1>4. CASE Boot \/ Crash \/ Reload
  BY <1>4, ProcessKeeps
<1>5. ASSUME NEW e \in Edits, Get(e) \/ Put(e) \/ PatchLoad(e) \/ PatchSave(e) \/ PatchReject(e)
      PROVE  IInv'
  BY <1>5, HandlerKeeps, SaveKeeps
<1> QED
  BY <1>2, <1>3, <1>4, <1>5, RestoreKeeps DEF Next

\* Whenever the supervisor dies, in whichever step of a save or a restore, it
\* starts again with what was confirmed last.
THEOREM CrashKeepsLastSave == Spec => []CrashKeepsTheLastSave
<1>1. IInv => CrashKeepsTheLastSave
  BY DEF IInv, CrashKeepsTheLastSave
<1> QED
  BY <1>1, InitIInv, NextIInv, PTL DEF Spec

-----------------------------------------------------------------------------
(* The history that the backups keep. *)

\* Where a rotation stands: the slot that has nothing to keep.  Those below it are
\* where the last save left them, those above it have moved up by one.
Hole(j) ==
  IF j = Idle THEN Keep
  ELSE CASE j.pc = "shift" -> j.slot + 1
         [] j.pc \in {"retire", "copy"} -> 0
         [] OTHER -> -1

Holds(i, g) == bak[i] # {} /\ Gen(bak[i]) = g

Rotated(h) ==
  \A i \in Slots : /\ i < h /\ i + 1 < clock => Holds(i, clock - 1 - i)
                   /\ i > h /\ i < clock => Holds(i, clock - i)

\* Generations only grow, and older ones are further back.
Ordered ==
  /\ \A i \in Slots : bak[i] # {} => Gen(bak[i]) <= clock
  /\ main # {} => Gen(main) <= clock
  /\ \A i, j \in Slots : i < j /\ bak[i] # {} /\ bak[j] # {} => Gen(bak[i]) >= Gen(bak[j])
  /\ \A i \in Slots : main # {} /\ bak[i] # {} => Gen(main) >= Gen(bak[i])

\* With no crash, config.json is the last generation, away only between its
\* retirement and its replacement, and no generation is missing behind it.
Unbroken ==
  /\ main = {} <=> job # Idle /\ job.pc = "replace"
  /\ main # {} => Gen(main) = clock
  /\ Rotated(Hole(job))

HistoryInv == Ordered /\ crashes \in Nat /\ (crashes = 0 => Unbroken)

\* The handlers: which of them saves, and that their objects are in the heap.
ClerkInv ==
  /\ \A e \in Edits : handler[e].ref <= Len(heap)
  /\ \A e \in Edits : handler[e].pc = "saving" <=> job # Idle /\ job.edit = e
  /\ job # Idle => IF job.obj = 0 THEN job.edit = 0 ELSE job.edit \in Edits

\* What the worker has of a load_config(): candidates among the files there can be.
WorkerInv ==
  /\ worker \in [pc : {"ready", "scan", "read"}, conf : Configs, mtime : Int, stat : Nat,
                 found : Seq(0..Keep), next : 0..(Keep + 1)]
  /\ worker.pc = "scan" => worker.next <= Keep

FullInv == IInv /\ HistoryInv /\ ClerkInv /\ WorkerInv

\* A file that exists has a generation, the one it was given.
LEMMA FileGen ==
  /\ \A c \in Configs, m, g \in Nat : Gen(File(c, m, g)) = g /\ File(c, m, g) # {}
  /\ \A f \in OneFile : f # {} => Gen(f) \in Nat
<1>1. ASSUME NEW c \in Configs, NEW m \in Nat, NEW g \in Nat
      PROVE Gen(File(c, m, g)) = g /\ File(c, m, g) # {}
  <2>1. PICK x : x = [conf |-> c, mtime |-> m, gen |-> g]
    OBVIOUS
  <2>2. File(c, m, g) = {x} /\ x.gen = g
    BY <2>1 DEF File
  <2>3. (CHOOSE y \in {x} : TRUE) = x
    OBVIOUS
  <2> QED BY <2>2, <2>3 DEF Gen
<1>2. ASSUME NEW f \in OneFile, f # {} PROVE Gen(f) \in Nat
  <2>1. PICK x \in Stamped : f = {x}
    BY <1>2 DEF OneFile
  <2>2. (CHOOSE y \in f : TRUE) = x
    BY <2>1
  <2> QED BY <2>1, <2>2 DEF Gen, Stamped
<1> QED BY <1>1, <1>2

\* What the lemmas below use of the types.
LEMMA HistoryTypes ==
  ASSUME IInv, HistoryInv
  PROVE  /\ clock \in Nat /\ Keep \in Nat \ {0} /\ 0 \in Slots
         /\ main \in OneFile /\ bak \in [Slots -> OneFile]
         /\ main # {} => Gen(main) \in Nat
         /\ \A i \in Slots : i \in Nat /\ (bak[i] # {} => Gen(bak[i]) \in Nat)
  BY StoreAssumption, FileGen DEF IInv, Typed, Slots

\* A save or a restore begins: nothing has moved yet, the oldest slot is to go.
LEMMA BeginHistory ==
  ASSUME IInv, HistoryInv, job = Idle, UNCHANGED <<main, bak, clock, crashes>>,
         NEW j \in Jobs, j # Idle, job' = j, main # {} => j.pc # "replace",
         j.pc = "shift" => j.slot = Keep - 2, j.pc \in {"retire", "copy"} => Keep = 1,
         main # {} => j.pc \in {"shift", "retire", "copy"}
  PROVE  HistoryInv'
<1>1. Ordered'
  BY DEF HistoryInv, Ordered
<1>2. ASSUME crashes = 0 PROVE Unbroken'
  <2>1. main # {} /\ Gen(main) = clock /\ Rotated(Keep)
    BY <1>2 DEF HistoryInv, Unbroken, Hole
  <2>2. Hole(j) = Keep - 1 /\ Keep \in Nat
    BY <2>1, StoreAssumption DEF Hole
  <2>3. Rotated(Keep - 1)'
    <3>1. ASSUME NEW i \in Slots
          PROVE  /\ i < Keep - 1 /\ i + 1 < clock => Holds(i, clock - 1 - i)
                 /\ ~(i > Keep - 1)
      BY <2>1, <2>2, StoreAssumption DEF Rotated, Slots
    <3> QED BY <3>1 DEF Rotated, Holds
  <2> QED BY <2>1, <2>2, <2>3 DEF Unbroken
<1> QED BY <1>1, <1>2 DEF HistoryInv

\* One slot moves up: order is kept, and the hole is one further down.
LEMMA ShiftHistory ==
  ASSUME IInv, HistoryInv, Shift
  PROVE  HistoryInv'
<1> PICK i : i = job.slot
  OBVIOUS
<1>1. /\ job \in Jobs /\ job # Idle /\ job.pc = "shift" /\ i \in 0..(Keep - 2)
      /\ UNCHANGED <<main, clock, crashes>>
      /\ bak' = IF bak[i] = {} THEN bak ELSE [bak EXCEPT ![i + 1] = bak[i], ![i] = {}]
  BY DEF IInv, Typed, Shift, Idle, JobSane
<1>2. i \in Slots /\ i + 1 \in Slots /\ i \in Nat
  BY <1>1, StoreAssumption DEF Slots
<1>3. bak[i] # {} => /\ bak'[i + 1] = bak[i] /\ bak'[i] = {}
                     /\ \A k \in Slots \ {i, i + 1} : bak'[k] = bak[k]
  BY <1>1, <1>2, HistoryTypes
<1>4. Ordered'
  <2>1. CASE bak[i] = {}
    BY <1>1, <2>1 DEF HistoryInv, Ordered
  <2>2. CASE bak[i] # {}
    <3>1. \A k \in Slots : bak'[k] # {} =>
             \/ k = i + 1 /\ bak'[k] = bak[i]
             \/ k \notin {i, i + 1} /\ bak'[k] = bak[k]
      BY <1>3, <2>2
    <3>2. ASSUME NEW k \in Slots, NEW n \in Slots, k < n, bak'[k] # {}, bak'[n] # {}
          PROVE Gen(bak'[k]) >= Gen(bak'[n])
      <4>1. CASE k = i + 1
        <5>1. n \notin {i, i + 1} /\ i < n
          BY <1>2, <3>2, <4>1, HistoryTypes
        <5> QED BY <1>2, <2>2, <3>1, <3>2, <4>1, <5>1 DEF HistoryInv, Ordered
      <4>2. CASE k # i + 1 /\ n = i + 1
        <5>1. k # i /\ k < i
          BY <1>2, <2>2, <3>1, <3>2, <4>2, HistoryTypes
        <5> QED BY <1>2, <2>2, <3>1, <3>2, <4>2, <5>1 DEF HistoryInv, Ordered
      <4>3. CASE k # i + 1 /\ n # i + 1
        BY <3>1, <3>2, <4>3 DEF HistoryInv, Ordered
      <4> QED BY <4>1, <4>2, <4>3
    <3>3. \A k \in Slots : bak'[k] # {} => Gen(bak'[k]) <= clock
      BY <1>2, <2>2, <3>1 DEF HistoryInv, Ordered
    <3>4. \A k \in Slots : main # {} /\ bak'[k] # {} => Gen(main) >= Gen(bak'[k])
      BY <1>2, <2>2, <3>1 DEF HistoryInv, Ordered
    <3> QED BY <1>1, <3>2, <3>3, <3>4 DEF HistoryInv, Ordered
  <2> QED BY <2>1, <2>2
<1>5. ASSUME crashes = 0 PROVE Unbroken'
  <2>1. Unbroken /\ Hole(job) = i + 1 /\ main # {} /\ Gen(main) = clock
    BY <1>1, <1>5 DEF HistoryInv, Unbroken, Hole
  <2>2. job' # Idle /\ job'.pc # "replace" /\ Hole(job') = i
    <3>1. CASE i > 0
      <4>1. PICK j : j = [job EXCEPT !.slot = i - 1]
        OBVIOUS
      <4>2. job' = j /\ j.pc = "shift" /\ j.slot = i - 1
        BY <1>1, <3>1, <4>1 DEF Shift, Jobs
      <4> QED BY <1>2, <4>2 DEF Hole, Idle
    <3>2. CASE ~(i > 0)
      <4>1. PICK j : j = [job EXCEPT !.pc = IF job.obj = 0 THEN "copy" ELSE "retire"]
        OBVIOUS
      <4>2. job' = j /\ j.pc \in {"copy", "retire"}
        BY <1>1, <3>2, <4>1 DEF Shift, Jobs
      <4> QED BY <1>2, <3>2, <4>2 DEF Hole, Idle
    <3> QED BY <3>1, <3>2
  <2>3. Rotated(i)'
    <3>1. ASSUME NEW k \in Slots, k < i, k + 1 < clock PROVE Holds(k, clock - 1 - k)'
      <4>1. Holds(k, clock - 1 - k) /\ k \notin {i, i + 1}
        BY <1>2, <2>1, <3>1, HistoryTypes DEF Unbroken, Rotated
      <4> QED BY <1>1, <1>3, <4>1 DEF Holds
    <3>2. ASSUME NEW k \in Slots, k > i, k < clock PROVE Holds(k, clock - k)'
      <4>1. CASE k = i + 1
        <5>1. Holds(i, clock - 1 - i)
          BY <1>2, <2>1, <3>2, <4>1, HistoryTypes DEF Unbroken, Rotated
        <5> QED BY <1>1, <1>2, <1>3, <4>1, <5>1, HistoryTypes DEF Holds
      <4>2. CASE k # i + 1
        <5>1. k > i + 1 /\ k \notin {i, i + 1}
          BY <1>2, <3>2, <4>2, HistoryTypes
        <5>2. Holds(k, clock - k)
          BY <2>1, <3>2, <5>1 DEF Unbroken, Rotated
        <5> QED BY <1>1, <1>3, <5>1, <5>2 DEF Holds
      <4> QED BY <4>1, <4>2
    <3> QED BY <1>1, <3>1, <3>2 DEF Rotated
  <2> QED BY <1>1, <2>1, <2>2, <2>3 DEF Unbroken
<1> QED BY <1>1, <1>4, <1>5 DEF HistoryInv

\* config.json, or its copy, becomes the newest backup.
LEMMA NewestHistory ==
  ASSUME IInv, HistoryInv, job # Idle, job.pc \in {"retire", "copy"}, main # {},
         bak' = [bak EXCEPT ![0] = main], UNCHANGED <<clock, crashes>>, main' \in {{}, main}
  PROVE  /\ Ordered'
         /\ crashes = 0 => Gen(main) = clock /\ Rotated(-1)'
<1>1. bak'[0] = main /\ \A k \in Slots \ {0} : bak'[k] = bak[k]
  BY HistoryTypes
<1>2. Ordered'
  <2>1. ASSUME NEW k \in Slots, NEW n \in Slots, k < n, bak'[k] # {}, bak'[n] # {}
        PROVE Gen(bak'[k]) >= Gen(bak'[n])
    <3>1. n # 0 /\ bak'[n] = bak[n]
      BY <1>1, <2>1, HistoryTypes
    <3> QED BY <1>1, <2>1, <3>1 DEF HistoryInv, Ordered
  <2>2. \A k \in Slots : bak'[k] # {} => Gen(bak'[k]) <= clock /\ Gen(main) >= Gen(bak'[k])
    BY <1>1, HistoryTypes DEF HistoryInv, Ordered
  <2> QED BY <2>1, <2>2 DEF HistoryInv, Ordered
<1>3. ASSUME crashes = 0 PROVE Gen(main) = clock /\ Rotated(-1)'
  <2>1. Gen(main) = clock /\ Rotated(0)
    BY <1>3 DEF HistoryInv, Unbroken, Hole
  <2> QED BY <1>1, <2>1, HistoryTypes DEF Rotated, Holds
<1> QED BY <1>2, <1>3

\* The rename that ends a save or a restore begins the next generation.
LEMMA EndHistory ==
  ASSUME IInv, HistoryInv, job # Idle, job.pc \in {"replace", "swap"}, job' = Idle,
         clock' = clock + 1, UNCHANGED <<bak, crashes>>,
         main' # {}, Gen(main') = clock'
  PROVE  HistoryInv'
<1>1. Ordered'
  BY HistoryTypes DEF HistoryInv, Ordered
<1>2. ASSUME crashes = 0 PROVE Unbroken'
  <2>1. Rotated(-1)
    BY <1>2 DEF HistoryInv, Unbroken, Hole
  <2>2. Rotated(Keep)'
    BY <2>1, HistoryTypes DEF Rotated, Holds, Slots
  <2> QED BY <2>2 DEF Unbroken, Hole
<1> QED BY <1>1, <1>2 DEF HistoryInv

\* One case per kind of step.  Only saves and restores move files.
LEMMA HistoryKept == IInv /\ HistoryInv /\ [Next]_vars => HistoryInv'
<1> SUFFICES ASSUME IInv, HistoryInv, [Next]_vars PROVE HistoryInv'
  OBVIOUS
<1>1. ASSUME UNCHANGED <<main, bak, job, clock, crashes>> PROVE HistoryInv'
  BY <1>1 DEF HistoryInv, Ordered, Unbroken, Rotated, Holds
<1>2. CASE Crash
  <2>1. UNCHANGED <<main, bak, clock>> /\ crashes' = crashes + 1
    BY <1>2 DEF Crash
  <2>2. crashes' \in Nat /\ crashes' # 0
    BY <2>1 DEF HistoryInv
  <2> QED BY <2>1, <2>2 DEF HistoryInv, Ordered
<1>3. ASSUME NEW e \in Edits, Put(e) \/ PatchSave(e) PROVE HistoryInv'
  <2>1. UNCHANGED <<main, bak, clock, crashes>> /\ job = Idle
    BY <1>3 DEF Put, PatchSave, Free
  <2>2. CASE job' = job
    BY <1>1, <2>1, <2>2
  <2>3. ASSUME NEW o \in Nat \ {0}, o <= Len(heap)', job' = Save(o, e) PROVE HistoryInv'
    <3>1. PICK j : j = Save(o, e)
      OBVIOUS
    <3>2. j \in Jobs /\ j # Idle
      BY <2>1, <2>3, <3>1, SaveIsSane
    <3>3. /\ j.pc = (IF main = {} THEN "replace" ELSE IF Keep > 1 THEN "shift" ELSE "retire")
          /\ j.slot = Keep - 2
      BY <3>1 DEF Save
    <3> QED BY <2>1, <2>3, <3>1, <3>2, <3>3, BeginHistory, StoreAssumption
  <2>4. job' = job \/ \E o \in Nat \ {0} : o <= Len(heap)' /\ job' = Save(o, e)
    <3>1. heap \in Seq(Configs) /\ cached \in 1..Len(heap) /\ Len(heap) \in Nat
          /\ handler \in [Edits -> Handlers]
      BY <1>3 DEF IInv, Typed, Put, PatchSave, Free, Alive
    <3>2. CASE PatchSave(e)
      <4>1. handler[e].ref \in 1..Len(heap)
        BY <1>3, <3>2 DEF PatchSave, IInv, Typed
      <4>2. Len(heap') = Len(heap) /\ job' = Save(handler[e].ref, e)
        BY <3>1, <3>2, <4>1 DEF PatchSave
      <4> QED BY <3>1, <4>1, <4>2
    <3>3. CASE Put(e) /\ job' # job
      <4>1. PICK c : heap' = Append(heap, c) /\ job' = Save(Len(heap'), e)
        BY <3>3 DEF Put
      <4>2. Len(heap') = Len(heap) + 1
        BY <3>1, <4>1
      <4> QED BY <3>1, <4>1, <4>2
    <3> QED BY <1>3, <3>2, <3>3
  <2> QED BY <2>2, <2>3, <2>4
<1>4. ASSUME NEW i \in Slots, Restore(i) PROVE HistoryInv'
  <2>1. PICK j : j = [pc |-> IF Keep > 1 THEN "shift" ELSE "copy", obj |-> 0, edit |-> 0,
                      from |-> bak[i], slot |-> Keep - 2]
    OBVIOUS
  <2>2. job' = j /\ job = Idle /\ UNCHANGED <<main, bak, clock, crashes>>
    BY <1>4, <2>1 DEF Restore, Free
  <2>3. j \in Jobs /\ j # Idle
    BY <2>1, HistoryTypes DEF Jobs, Steps, Idle
  <2> QED BY <2>1, <2>2, <2>3, BeginHistory, StoreAssumption
<1>5. CASE Retire
  <2>1. /\ job \in Jobs /\ job # Idle /\ job.pc = "retire" /\ main # {}
        /\ bak' = [bak EXCEPT ![0] = main] /\ main' = {} /\ UNCHANGED <<clock, crashes>>
        /\ job' = [job EXCEPT !.pc = "replace"]
    BY <1>5 DEF Retire, IInv, Typed, JobSane, Idle
  <2>2. job'.pc = "replace" /\ job' # Idle
    BY <2>1 DEF Jobs, Idle
  <2>3. Hole(job') = -1
    BY <2>2 DEF Hole
  <2>4. Ordered' /\ (crashes = 0 => Rotated(-1)')
    BY <2>1, NewestHistory
  <2> QED BY <2>1, <2>2, <2>3, <2>4 DEF HistoryInv, Unbroken
<1>6. CASE Copy
  <2>1. /\ job \in Jobs /\ job # Idle /\ job.pc = "copy" /\ UNCHANGED <<main, clock, crashes>>
    BY <1>6 DEF Copy, IInv, Typed, Idle
  <2>2. CASE main = {}
    <3>1. crashes # 0 /\ UNCHANGED bak
      BY <1>6, <2>1, <2>2 DEF Copy, HistoryInv, Unbroken
    <3> QED BY <2>1, <3>1 DEF HistoryInv, Ordered
  <2>3. CASE main # {}
    <3>1. bak' = [bak EXCEPT ![0] = main] /\ job' = [job EXCEPT !.pc = "swap"]
      BY <1>6, <2>3 DEF Copy
    <3>2. job'.pc = "swap" /\ job' # Idle
      BY <2>1, <3>1 DEF Jobs, Idle
    <3>3. Hole(job') = -1
      BY <3>2 DEF Hole
    <3>4. Ordered' /\ (crashes = 0 => Gen(main) = clock /\ Rotated(-1)')
      BY <2>1, <2>3, <3>1, NewestHistory
    <3> QED BY <2>1, <2>3, <3>2, <3>3, <3>4 DEF HistoryInv, Unbroken
  <2> QED BY <2>2, <2>3
<1>7. CASE Replace
  <2>1. /\ job \in Jobs /\ job # Idle /\ job.pc = "replace" /\ job' = Idle
        /\ clock' = clock + 1 /\ main' = File(heap[job.obj], clock', clock')
        /\ UNCHANGED <<bak, crashes>>
    BY <1>7 DEF Replace, IInv, Typed, Idle
  <2>2. heap[job.obj] \in Configs /\ clock' \in Nat
    BY <2>1 DEF IInv, Typed, JobSane, Jobs
  <2>3. main' # {} /\ Gen(main') = clock'
    BY <2>1, <2>2, FileGen
  <2> QED BY <2>1, <2>3, EndHistory
<1>8. CASE Swap
  <2>1. /\ job \in Jobs /\ job # Idle /\ job.pc = "swap" /\ job' = Idle
        /\ clock' = clock + 1 /\ main' = File(Conf(job.from), Mtime(job.from), clock')
        /\ UNCHANGED <<bak, crashes>>
    BY <1>8 DEF Swap, IInv, Typed, Idle
  <2>2. job.from \in OneFile /\ job.from # {} /\ clock' \in Nat
    BY <2>1 DEF IInv, Typed, JobSane, Jobs
  <2>3. main' # {} /\ Gen(main') = clock'
    BY <2>1, <2>2, FileGives, FileGen
  <2> QED BY <2>1, <2>3, EndHistory
<1>9. ASSUME NEW e \in Edits, Get(e) \/ PatchLoad(e) \/ PatchReject(e) PROVE HistoryInv'
  BY <1>1, <1>9 DEF Get, PatchLoad, PatchReject
<1>10. CASE Boot \/ Reload \/ WorkerLoad \/ UNCHANGED vars
  BY <1>1, <1>10 DEF Boot, Reload, WorkerLoad, Stat, Scan, Read, vars
<1> QED
  BY <1>2, <1>3, <1>4, <1>5, <1>6, <1>7, <1>8, <1>9, <1>10, ShiftHistory DEF Next, JobStep

\* The first configuration is the first generation, and there is nothing behind it.
LEMMA InitHistory == Init => HistoryInv
<1> SUFFICES ASSUME Init PROVE HistoryInv
  OBVIOUS
<1>1. /\ main = File(Empty, 1, 1) /\ clock = 1 /\ job = Idle /\ crashes = 0
      /\ \A i \in Slots : bak[i] = {}
  BY DEF Init
<1>2. Empty \in Configs
  BY DEF Empty, Configs
<1>3. main # {} /\ Gen(main) = 1
  BY <1>1, <1>2, FileGen
<1>4. Rotated(Hole(job))
  BY <1>1, StoreAssumption DEF Rotated, Hole, Slots
<1> QED BY <1>1, <1>3, <1>4 DEF HistoryInv, Ordered, Unbroken

\* The backups are the previous generations, newest first, at every step of a save
\* or a restore and after any crash; and with no crash none of the last Keep is
\* missing between saves: the property BackupsAreHistory of _rotate_backups() for
\* any number of slots.
THEOREM BackupsKeepHistory == Spec => []BackupsAreHistory
<1>1. IInv /\ HistoryInv => BackupsAreHistory
  <2> SUFFICES ASSUME IInv, HistoryInv PROVE BackupsAreHistory
    OBVIOUS
  <2>1. job = Idle /\ crashes = 0 => Rotated(Keep)
    BY DEF HistoryInv, Unbroken, Hole
  <2>2. \A i \in Slots : i < Keep
    BY StoreAssumption DEF Slots
  <2> QED BY <2>1, <2>2 DEF HistoryInv, Ordered, BackupsAreHistory, Rotated, Holds
<1>2. Spec => [](IInv /\ HistoryInv)
  <2>1. IInv /\ HistoryInv /\ [Next]_vars => (IInv /\ HistoryInv)'
    BY NextIInv, HistoryKept
  <2>2. Init => IInv /\ HistoryInv
    BY InitIInv, InitHistory
  <2> QED BY <2>1, <2>2, PTL DEF Spec
<1> QED BY <1>1, <1>2, PTL

-----------------------------------------------------------------------------
(* The handlers, and the worker's load_config(). *)

\* The handlers' objects stay in a heap that only grows.
LEMMA HeapNeverShrinks ==
  ASSUME IInv, [Next]_vars PROVE Len(heap) \in Nat /\ Len(heap') \in Nat /\ Len(heap') >= Len(heap)
<1>1. heap \in Seq(Configs) /\ Len(heap) \in Nat /\ handler \in [Edits -> Handlers]
  BY DEF IInv, Typed
<1>2. \A c : Len(Append(heap, c)) = Len(heap) + 1
  BY <1>1
<1>3. \A n \in 1..Len(heap) : \A c : Len([heap EXCEPT ![n] = c]) = Len(heap)
  BY <1>1
<1>4. CASE Boot \/ Reload \/ Swap
  BY <1>1, <1>2, <1>4 DEF Boot, Reload, Swap
<1>5. ASSUME NEW e \in Edits, Put(e) PROVE Len(heap') \in Nat /\ Len(heap') >= Len(heap)
  BY <1>1, <1>2, <1>5 DEF Put
<1>6. ASSUME NEW e \in Edits, PatchSave(e) PROVE Len(heap') = Len(heap)
  <2>1. handler[e].ref \in 1..Len(heap)
    BY <1>6 DEF PatchSave, IInv, Typed
  <2> QED BY <1>3, <1>6, <2>1 DEF PatchSave
<1>7. ASSUME NEW e \in Edits, PatchReject(e) PROVE Len(heap') = Len(heap)
  <2>1. handler[e].ref \in 1..Len(heap)
    BY <1>7 DEF PatchReject, IInv, Typed
  <2>2. CASE heap' = heap
    BY <2>2
  <2>3. CASE heap' = [heap EXCEPT ![handler[e].ref].edits = @ \union {e}]
    <3>1. PICK c : heap' = [heap EXCEPT ![handler[e].ref] = c]
      BY <2>3
    <3> QED BY <1>3, <2>1, <3>1
  <2> QED BY <1>7, <2>2, <2>3 DEF PatchReject
<1>8. CASE Crash \/ (\E e \in Edits : Get(e) \/ PatchLoad(e)) \/ (\E i \in Slots : Restore(i))
           \/ Shift \/ Retire \/ Replace \/ Copy \/ WorkerLoad \/ UNCHANGED vars
  <2>1. heap' = heap
    BY <1>8 DEF Crash, Get, PatchLoad, Restore, Shift, Retire, Replace, Copy, WorkerLoad,
                Stat, Scan, Read, vars
  <2> QED BY <1>1, <2>1
<1> QED BY <1>1, <1>4, <1>5, <1>6, <1>7, <1>8 DEF Next, JobStep

\* A handler that moves on while no save is under way, or begins one.
LEMMA ClerkMoves ==
  ASSUME IInv, ClerkInv, [Next]_vars, NEW e \in Edits, NEW p \in Places, job = Idle,
         handler' = [handler EXCEPT ![e].pc = p],
         IF p = "saving" THEN job' # Idle /\ job'.edit = e /\ job'.obj # 0 ELSE job' = Idle
  PROVE  ClerkInv'
<1>1. handler \in [Edits -> Handlers] /\ Len(heap') >= Len(heap) /\ Len(heap) \in Nat
      /\ Len(heap') \in Nat
  BY HeapNeverShrinks DEF IInv, Typed
<1>2. handler'[e] = [handler[e] EXCEPT !.pc = p] /\ handler[e] \in Handlers
  BY <1>1
<1>3. handler'[e].pc = p /\ handler'[e].ref = handler[e].ref
  BY <1>2 DEF Handlers
<1>4. \A d \in Edits \ {e} : handler'[d] = handler[d]
  BY <1>1
<1>5. \A d \in Edits : handler'[d].ref <= Len(heap')
  <2> TAKE d \in Edits
  <2>1. handler'[d].ref = handler[d].ref /\ handler[d].ref <= Len(heap) /\ handler[d].ref \in Nat
    BY <1>1, <1>3, <1>4 DEF ClerkInv, Handlers
  <2> QED BY <1>1, <2>1
<1>6. \A d \in Edits : handler'[d].pc = "saving" <=> job' # Idle /\ job'.edit = d
  BY <1>3, <1>4 DEF ClerkInv
<1> QED BY <1>5, <1>6 DEF ClerkInv

\* A step that leaves the handlers, and who saves, as they are.
LEMMA ClerkStays ==
  ASSUME IInv, ClerkInv, [Next]_vars, UNCHANGED handler,
         \/ job' = job
         \/ job # Idle /\ job' # Idle /\ job'.edit = job.edit /\ job'.obj = job.obj
         \/ job = Idle /\ (job' = Idle \/ (job'.edit = 0 /\ job'.obj = 0))
         \/ job # Idle /\ job.edit = 0 /\ job' = Idle
  PROVE  ClerkInv'
<1>1. handler \in [Edits -> Handlers] /\ Len(heap') >= Len(heap) /\ Len(heap) \in Nat
      /\ Len(heap') \in Nat /\ 0 \notin Edits
  BY HeapNeverShrinks, StoreAssumption DEF IInv, Typed
<1>2. \A d \in Edits : handler[d].ref \in Nat
  BY <1>1 DEF Handlers
<1>3. \A d \in Edits : handler'[d].ref <= Len(heap')
  BY <1>1, <1>2 DEF ClerkInv
<1> QED BY <1>1, <1>3 DEF ClerkInv

\* One save at a time, by the handler of the job, whatever comes between.
LEMMA ClerkKept == IInv /\ ClerkInv /\ [Next]_vars => ClerkInv'
<1> SUFFICES ASSUME IInv, ClerkInv, [Next]_vars PROVE ClerkInv'
  OBVIOUS
<1>1. handler \in [Edits -> Handlers] /\ job \in {Idle} \union Jobs /\ 0 \notin Edits
      /\ (job # Idle => JobSane(job))
  BY StoreAssumption DEF IInv, Typed
<1>2. CASE Crash
  <2>1. job' = Idle /\ heap' = heap
        /\ handler' = [e \in Edits |->
                        IF handler[e].pc \in {"editing", "saving"}
                        THEN [handler[e] EXCEPT !.pc = "lost"] ELSE handler[e]]
    BY <1>2 DEF Crash
  <2>2. \A d \in Edits : handler'[d].ref = handler[d].ref /\ handler'[d].pc # "saving"
    BY <1>1, <2>1 DEF Handlers
  <2> QED BY <2>1, <2>2 DEF ClerkInv
<1>3. ASSUME NEW e \in Edits, Get(e) \/ PatchLoad(e) PROVE ClerkInv'
  <2>1. cached \in 1..Len(heap) /\ Len(heap) \in Nat
    BY <1>3 DEF Get, PatchLoad, Free, Alive, IInv, Typed
  <2>2. PICK h : h = IF Get(e) THEN [handler[e] EXCEPT !.pc = "viewed", !.seen = Current]
                     ELSE [handler[e] EXCEPT !.pc = "editing", !.ref = cached]
    OBVIOUS
  <2>3. UNCHANGED <<heap, job>> /\ job = Idle /\ handler' = [handler EXCEPT ![e] = h]
    BY <1>3, <2>2 DEF Get, PatchLoad, Free
  <2>4. h.pc \in {"viewed", "editing"} /\ h.ref \in {handler[e].ref, cached}
    <3>1. handler[e] \in Handlers
      BY <1>1
    <3> QED BY <2>2, <3>1 DEF Handlers
  <2>5. handler'[e] = h /\ \A d \in Edits \ {e} : handler'[d] = handler[d]
    BY <1>1, <2>3
  <2> QED BY <2>1, <2>3, <2>4, <2>5 DEF ClerkInv
<1>4. ASSUME NEW e \in Edits, Put(e) \/ PatchSave(e) \/ PatchReject(e) PROVE ClerkInv'
  <2>1. job = Idle
    BY <1>4 DEF Put, PatchSave, PatchReject, Free
  <2>2. CASE PatchReject(e)
    <3>1. handler' = [handler EXCEPT ![e].pc = "rejected"] /\ job' = Idle
      BY <2>1, <2>2 DEF PatchReject
    <3> QED BY <2>1, <3>1, ClerkMoves DEF Places
  <2>3. CASE handler' = [handler EXCEPT ![e].pc = "conflict"] /\ job' = job
    BY <2>1, <2>3, ClerkMoves DEF Places
  <2>4. ASSUME handler' = [handler EXCEPT ![e].pc = "saving"], NEW o, o # 0, job' = Save(o, e)
        PROVE ClerkInv'
    <3>1. PICK j : j = Save(o, e)
      OBVIOUS
    <3>2. j.edit = e /\ j.obj = o /\ j.pc # "idle"
      BY <3>1 DEF Save
    <3>3. job' # Idle /\ job'.edit = e /\ job'.obj # 0
      BY <2>4, <3>1, <3>2 DEF Idle
    <3> QED BY <2>1, <2>4, <3>3, ClerkMoves DEF Places
  <2>5. CASE PatchSave(e)
    <3>1. handler[e].ref # 0
      BY <2>5 DEF PatchSave, IInv, Typed
    <3> QED BY <2>4, <2>5, <3>1 DEF PatchSave
  <2>6. CASE Put(e)
    <3>1. \A c : Len(Append(heap, c)) # 0
      BY DEF IInv, Typed
    <3> QED BY <2>3, <2>4, <2>6, <3>1 DEF Put
  <2> QED BY <1>4, <2>2, <2>5, <2>6
<1>5. ASSUME NEW i \in Slots, Restore(i) PROVE ClerkInv'
  <2>1. PICK j : j = [pc |-> IF Keep > 1 THEN "shift" ELSE "copy", obj |-> 0, edit |-> 0,
                      from |-> bak[i], slot |-> Keep - 2]
    OBVIOUS
  <2>2. job' = j /\ j.edit = 0 /\ j.obj = 0 /\ job = Idle /\ UNCHANGED handler
    BY <1>5, <2>1 DEF Restore, Free
  <2> QED BY <2>2, ClerkStays
<1>6. CASE Shift \/ Retire \/ Copy
  <2>1. job \in Jobs /\ job # Idle /\ UNCHANGED handler
    BY <1>1, <1>6 DEF Shift, Retire, Copy, Idle
  <2>2. \/ job' # Idle /\ job'.edit = job.edit /\ job'.obj = job.obj
        \/ job' = Idle /\ job.pc = "copy"
    <3>1. ASSUME NEW q \in Steps, job' = [job EXCEPT !.pc = q]
          PROVE job' # Idle /\ job'.edit = job.edit /\ job'.obj = job.obj
      BY <2>1, <3>1 DEF Jobs, Steps, Idle
    <3>2. CASE Shift
      <4>1. CASE job.slot > 0
        <5>1. job' = [job EXCEPT !.slot = job.slot - 1]
          BY <3>2, <4>1 DEF Shift
        <5>2. job'.pc = "shift" /\ job'.edit = job.edit /\ job'.obj = job.obj
          BY <2>1, <3>2, <5>1 DEF Jobs, Shift
        <5> QED BY <5>2 DEF Idle
      <4>2. CASE ~(job.slot > 0)
        BY <3>1, <3>2, <4>2 DEF Shift, Steps
      <4> QED BY <4>1, <4>2
    <3>3. CASE Retire
      BY <3>1, <3>3 DEF Retire, Steps
    <3>4. CASE Copy
      BY <3>1, <3>4 DEF Copy, Steps
    <3> QED BY <1>6, <3>2, <3>3, <3>4
  <2>3. job.pc = "copy" => job.edit = 0
    BY <1>1, <2>1 DEF JobSane, ClerkInv
  <2> QED BY <2>1, <2>2, <2>3, ClerkStays
<1>7. CASE Swap
  <2>1. job # Idle /\ job' = Idle /\ UNCHANGED handler /\ job.edit = 0
    BY <1>1, <1>7 DEF Swap, Idle, JobSane, ClerkInv
  <2> QED BY <2>1, ClerkStays
<1>8. CASE Replace
  <2>1. /\ job # Idle /\ job.edit \in Edits /\ job' = Idle /\ heap' = heap
        /\ handler' = [handler EXCEPT ![job.edit].pc = "ok"]
    BY <1>1, <1>8 DEF Replace, Idle, JobSane, ClerkInv
  <2>2. PICK e \in Edits : e = job.edit
    BY <2>1
  <2>3. handler'[e] = [handler[e] EXCEPT !.pc = "ok"] /\ handler[e] \in Handlers
        /\ \A d \in Edits \ {e} : handler'[d] = handler[d]
    BY <1>1, <2>1, <2>2
  <2>4. handler'[e].pc = "ok" /\ handler'[e].ref = handler[e].ref
    BY <2>3 DEF Handlers
  <2> QED BY <2>1, <2>2, <2>3, <2>4 DEF ClerkInv
<1>9. CASE Boot \/ Reload \/ WorkerLoad \/ UNCHANGED vars
  BY <1>9, ClerkStays DEF Boot, Reload, WorkerLoad, Stat, Scan, Read, vars
<1> QED
  BY <1>2, <1>3, <1>4, <1>5, <1>6, <1>7, <1>8, <1>9 DEF Next, JobStep

\* The worker's own steps go through files there can be, and end with one of them or
\* with the empty configuration.
LEMMA WorkerKept == IInv /\ WorkerInv /\ [Next]_vars => WorkerInv'
<1> SUFFICES ASSUME IInv, WorkerInv, [Next]_vars PROVE WorkerInv'
  OBVIOUS
<1> DEFINE Workers == [pc : {"ready", "scan", "read"}, conf : Configs, mtime : Int, stat : Nat,
                       found : Seq(0..Keep), next : 0..(Keep + 1)]
<1>1. /\ worker \in Workers /\ main \in OneFile /\ bak \in [Slots -> OneFile]
      /\ Keep \in Nat \ {0} /\ Empty \in Configs
  BY StoreAssumption DEF WorkerInv, IInv, Typed, Empty, Configs
<1>2. ASSUME UNCHANGED worker PROVE WorkerInv'
  BY <1>2 DEF WorkerInv
<1>3. CASE Stat
  <2>1. PICK w : w = [worker EXCEPT !.pc = "scan", !.stat = Mtime(main), !.next = 0, !.found = <<>>]
    OBVIOUS
  <2>2. Mtime(main) \in Nat /\ 0 \in 0..(Keep + 1) /\ 0 <= Keep /\ <<>> \in Seq(0..Keep)
    BY <1>1, FileGives
  <2>3. w \in Workers /\ w.next <= Keep
    BY <1>1, <2>1, <2>2
  <2>4. worker' = w
    BY <1>3, <2>1 DEF Stat
  <2> QED BY <2>3, <2>4 DEF WorkerInv
<1>4. CASE Scan
  <2>1. worker.next \in 0..Keep /\ worker.found \in Seq(0..Keep)
    BY <1>1, <1>4 DEF Scan, WorkerInv
  <2>2. PICK f : f = IF FileAt(worker.next) = {} THEN worker.found ELSE Append(worker.found, worker.next)
    OBVIOUS
  <2>3. PICK q : q = IF worker.next = Keep THEN "read" ELSE "scan"
    OBVIOUS
  <2>4. f \in Seq(0..Keep) /\ worker.next + 1 \in 0..(Keep + 1)
        /\ (q = "scan" => worker.next + 1 <= Keep) /\ q \in {"scan", "read"}
    <3>1. f \in Seq(0..Keep)
      <4>1. \A g \in Seq(0..Keep), n \in 0..Keep : Append(g, n) \in Seq(0..Keep)
        OBVIOUS
      <4>2. Append(worker.found, worker.next) \in Seq(0..Keep)
        BY <2>1, <4>1
      <4> QED BY <2>1, <2>2, <4>2
    <3>2. worker.next + 1 \in 0..(Keep + 1)
      BY <1>1, <2>1
    <3>3. q \in {"scan", "read"} /\ (q = "scan" => worker.next # Keep)
      BY <2>3
    <3>4. worker.next # Keep => worker.next + 1 <= Keep
      BY <1>1, <2>1
    <3> QED BY <3>1, <3>2, <3>3, <3>4
  <2>5. PICK w : w = [worker EXCEPT !.found = f, !.next = worker.next + 1, !.pc = q]
    OBVIOUS
  <2>6. w \in Workers /\ (w.pc = "scan" => w.next <= Keep)
    BY <1>1, <2>4, <2>5
  <2>7. worker' = w
    BY <1>4, <2>2, <2>3, <2>5 DEF Scan
  <2> QED BY <2>6, <2>7 DEF WorkerInv
<1>5. CASE Read
  <2>1. ASSUME NEW c \in Configs, worker' = [Waiting EXCEPT !.conf = c, !.mtime = worker.stat]
        PROVE WorkerInv'
    <3>1. PICK w : w = [Waiting EXCEPT !.conf = c, !.mtime = worker.stat]
      OBVIOUS
    <3>2. worker' = w
      BY <2>1, <3>1
    <3>3. worker.stat \in Int /\ <<>> \in Seq(0..Keep) /\ 0 \in 0..(Keep + 1)
      BY <1>1
    <3>4. Waiting \in Workers /\ Waiting.pc = "ready"
      BY <1>1, <3>3 DEF Waiting
    <3>5. w \in Workers /\ w.pc = "ready"
      BY <2>1, <3>1, <3>3, <3>4
    <3> QED BY <3>2, <3>5 DEF WorkerInv
  <2>2. CASE worker.found = <<>>
    BY <1>1, <1>5, <2>1, <2>2 DEF Read
  <2>3. CASE worker.found # <<>>
    <3>1. Head(worker.found) \in 0..Keep /\ Tail(worker.found) \in Seq(0..Keep)
      BY <1>1, <2>3
    <3>2. FileAt(Head(worker.found)) \in OneFile
      <4>1. Head(worker.found) # 0 => Head(worker.found) - 1 \in Slots
        BY <1>1, <3>1 DEF Slots
      <4> QED BY <1>1, <3>1, <4>1 DEF FileAt
    <3>3. CASE FileAt(Head(worker.found)) = {}
      <4>1. PICK w : w = [worker EXCEPT !.found = Tail(worker.found)]
        OBVIOUS
      <4>2. worker' = w
        BY <1>5, <2>3, <3>3, <4>1 DEF Read
      <4>3. w \in Workers /\ w.pc = worker.pc
        BY <1>1, <3>1, <4>1
      <4> QED BY <1>5, <4>2, <4>3 DEF Read, WorkerInv
    <3>4. CASE FileAt(Head(worker.found)) # {}
      <4>1. Conf(FileAt(Head(worker.found))) \in Configs
        BY <3>2, <3>4, FileGives
      <4> QED BY <1>5, <2>1, <2>3, <3>4, <4>1 DEF Read
    <3> QED BY <3>3, <3>4
  <2> QED BY <2>2, <2>3
<1>6. CASE Boot \/ Crash \/ Reload \/ JobStep \/ UNCHANGED vars
  BY <1>2, <1>6 DEF Boot, Crash, Reload, JobStep, Shift, Retire, Replace, Copy, Swap, vars
<1>7. ASSUME NEW e \in Edits, Get(e) \/ Put(e) \/ PatchLoad(e) \/ PatchSave(e) \/ PatchReject(e)
      PROVE WorkerInv'
  BY <1>2, <1>7 DEF Get, Put, PatchLoad, PatchSave, PatchReject
<1>8. ASSUME NEW i \in Slots, Restore(i) PROVE WorkerInv'
  BY <1>2, <1>8 DEF Restore
<1> QED BY <1>3, <1>4, <1>5, <1>6, <1>7, <1>8 DEF Next, WorkerLoad

\* The parts of the invariant together.
LEMMA FullKept == FullInv /\ [Next]_vars => FullInv'
<1> SUFFICES ASSUME FullInv, [Next]_vars PROVE FullInv'
  OBVIOUS
<1>1. IInv' /\ HistoryInv'
  BY NextIInv, HistoryKept DEF FullInv
<1>2. ClerkInv' /\ WorkerInv'
  BY ClerkKept, WorkerKept DEF FullInv
<1> QED BY <1>1, <1>2 DEF FullInv

\* At first nobody edits, saves or reads.
LEMMA InitFull == Init => FullInv
<1> SUFFICES ASSUME Init PROVE FullInv
  OBVIOUS
<1>1. ClerkInv
  BY DEF Init, ClerkInv
<1>2. WorkerInv
  <2>1. 0 \in 0..(Keep + 1) /\ <<>> \in Seq(0..Keep) /\ Empty \in Configs
    BY StoreAssumption DEF Empty, Configs
  <2>2. worker = [pc |-> "ready", conf |-> Empty, mtime |-> -1, stat |-> 0, found |-> <<>>, next |-> 0]
    BY DEF Init, Waiting
  <2> QED BY <2>1, <2>2 DEF WorkerInv
<1> QED BY <1>1, <1>2, InitIInv, InitHistory DEF FullInv

\* One save at a time, by the one handler that is saving; the handlers' objects are
\* in the heap; there is at most one file of each name; and what the worker read is a
\* configuration, however the renames fell between its steps.
THEOREM TypeCorrect == Spec => []TypeOK
<1>1. FullInv => TypeOK
  <2> SUFFICES ASSUME FullInv PROVE TypeOK
    OBVIOUS
  <2>1. \A f \in OneFile : f \in Files /\ Cardinality(f) <= 1
    <3> TAKE f \in OneFile
    <3>1. CASE f = {}
      BY <3>1, FS_EmptySet DEF Files
    <3>2. CASE f # {}
      <4>1. PICK x \in Stamped : f = {x}
        BY <3>2 DEF OneFile
      <4>2. Cardinality({x}) = 1
        BY FS_Singleton
      <4> QED BY <4>1, <4>2 DEF Files, Stamped
    <3> QED BY <3>1, <3>2
  <2>2. /\ heap \in Seq(Configs) /\ cached \in 0..Len(heap) /\ acked \in Configs /\ clock \in Nat
        /\ main \in OneFile /\ bak \in [Slots -> OneFile] /\ handler \in [Edits -> Handlers]
        /\ worker.conf \in Configs
    BY DEF FullInv, IInv, Typed, WorkerInv
  <2>3. main \in Files /\ bak \in [Slots -> Files]
        /\ \A f \in {main} \union {bak[i] : i \in Slots} : Cardinality(f) <= 1
    BY <2>1, <2>2
  <2>4. handler \in [Edits -> [pc   : {"new", "viewed", "conflict", "editing", "saving",
                                       "ok", "rejected", "lost"},
                               ref  : 0..Len(heap), seen : Configs]]
    <3>1. \A e \in Edits : handler[e] \in Handlers /\ handler[e].ref \in 0..Len(heap)
      BY <2>2 DEF FullInv, ClerkInv, Handlers
    <3> QED BY <2>2, <3>1 DEF Handlers, Places
  <2> QED BY <2>2, <2>3, <2>4 DEF TypeOK, FullInv, ClerkInv
<1> QED BY <1>1, InitFull, FullKept, PTL DEF Spec
=============================================================================
