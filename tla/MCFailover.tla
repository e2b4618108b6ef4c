----------------------------- MODULE MCFailover -----------------------------
(***************************************************************************)
(* Two requests, alike or not, over two backends, with a breaker           *)
(* that trips on the first failure and may be switched off between two     *)
(* requests.                                                               *)
(***************************************************************************)
EXTENDS Failover

MCSettings == { [enabled |-> e, threshold |-> 1, backoff |-> 1] : e \in BOOLEAN }

\* A chat stream beside each of the others, and two raw streams.
MCForms ==
  LET of(a, b) == CHOOSE f \in [Requests -> {a, b}] : \A x \in {a, b} : \E r \in Requests : f[r] = x
  IN  {of("chat", "whole"), of("chat", "raw"), of("raw", "raw")}
=============================================================================
