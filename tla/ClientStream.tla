---------------------------- MODULE ClientStream ----------------------------
(***************************************************************************)
(* What the gateway promises the client of one chat completion, whatever   *)
(* happens among the backends: a single backend serves it.  Headers naming *)
(* that backend come before its first byte; a refusal (a JSON error with a *)
(* real HTTP status) comes instead of any byte, never after one; once a    *)
(* byte is out, the answer completes, breaks off with an error event, or   *)
(* the client hangs up.                                                    *)
(***************************************************************************)
CONSTANTS Requests, Backends,
          NoBackend  \* no member of Backends

VARIABLES source,  \* the backend the response headers name
          from,    \* the backends whose bytes the client has received
          ending   \* how the response stands

clientVars == <<source, from, ending>>

Endings == {"open", "complete", "interrupted", "refused", "gone"}

Init ==
  /\ source = [r \in Requests |-> NoBackend]
  /\ from = [r \in Requests |-> {}]
  /\ ending = [r \in Requests |-> "open"]

Committed(r) == source[r] # NoBackend

\* Headers go out, with or without the first bytes of the same backend.
Commit(r, b) ==
  /\ ending[r] = "open" /\ ~Committed(r)
  /\ source' = [source EXCEPT ![r] = b]
  /\ \/ UNCHANGED from
     \/ from' = [from EXCEPT ![r] = {b}]
  /\ UNCHANGED ending

\* The whole answer at once: a non-streaming request.
Answer(r, b) ==
  /\ ending[r] = "open" /\ ~Committed(r)
  /\ source' = [source EXCEPT ![r] = b]
  /\ from' = [from EXCEPT ![r] = {b}]
  /\ ending' = [ending EXCEPT ![r] = "complete"]

Refuse(r) ==
  /\ ending[r] = "open" /\ ~Committed(r)
  /\ ending' = [ending EXCEPT ![r] = "refused"]
  /\ UNCHANGED <<source, from>>

End(r, e) ==
  /\ ending[r] = "open" /\ Committed(r)
  /\ e \in {"complete", "interrupted", "gone"}
  /\ ending' = [ending EXCEPT ![r] = e]
  /\ UNCHANGED <<source, from>>

Next == \E r \in Requests :
          \/ \E b \in Backends : Commit(r, b) \/ Answer(r, b)
          \/ Refuse(r)
          \/ \E e \in Endings : End(r, e)

Spec == Init /\ [][Next]_clientVars
=============================================================================
