----------------------------- MODULE WriteBehind -----------------------------
(***************************************************************************)
(* What a write-behind table promises whoever hands it rows: every row has *)
(* one fate.  It is stored once, or refused by the database; a row that is *)
(* neither is still waiting, or was abandoned because the writer went away *)
(* before reaching it.  A row is never stored twice, never stored after it *)
(* was refused or abandoned, and never forgotten while the writer is there.*)
(***************************************************************************)
CONSTANTS Rows,
          Bad    \* the rows the database refuses

VARIABLES fate,  \* [Rows -> Fates]
          up     \* the writer is there

Fates == {"new", "waiting", "stored", "refused", "abandoned"}

Init == fate = [r \in Rows |-> "new"] /\ up = TRUE

Verdict(r) == IF r \in Bad THEN "refused" ELSE "stored"

\* A row is handed over while the writer is there, or is not any more.
Accept(r) ==
  /\ fate[r] = "new"
  /\ fate' = [fate EXCEPT ![r] = IF up THEN "waiting" ELSE "abandoned"]
  /\ UNCHANGED up

\* The caller writes the row itself.
WriteThrough(r) ==
  /\ fate[r] = "new"
  /\ fate' = [fate EXCEPT ![r] = Verdict(r)]
  /\ UNCHANGED up

\* Waiting rows reach the database, any number of them in one transaction;
\* the writer may go away, abandoning those that are left.
Settle(S) ==
  /\ up /\ \A r \in S : fate[r] = "waiting"
  /\ \/ /\ up' = TRUE
        /\ fate' = [r \in Rows |-> IF r \in S THEN Verdict(r) ELSE fate[r]]
     \/ /\ up' = FALSE
        /\ fate' = [r \in Rows |->
                      IF r \in S THEN Verdict(r)
                      ELSE IF fate[r] = "waiting" THEN "abandoned" ELSE fate[r]]

Next ==
  \/ \E r \in Rows : Accept(r) \/ WriteThrough(r)
  \/ \E S \in SUBSET Rows : Settle(S)

Spec == Init /\ [][Next]_<<fate, up>>
=============================================================================
