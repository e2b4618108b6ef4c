---------------------------- MODULE FallbackOrder ----------------------------
(***************************************************************************)
(* What passes between the router and the fallback loops: a list of        *)
(* backends of which some are to be called first and the others, excluded  *)
(* by a cooldown or an open circuit, are deferred, not dropped.  The loops *)
(* (Failover) go through such a list; the router (RouterSelect) makes one. *)
(***************************************************************************)
EXTENDS SequencesExt

\* The lists of the good ones in some order, then the others in some order.
Deferring(good, others) ==
  UNION {{p \o q : q \in SetToSeqs(others)} : p \in SetToSeqs(good)}
=============================================================================
