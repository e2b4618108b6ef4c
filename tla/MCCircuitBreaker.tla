-------------------------- MODULE MCCircuitBreaker --------------------------
(***************************************************************************)
(* Small instances of CircuitBreaker.  The settings hold a breaker that is *)
(* off, two thresholds, a threshold below 1 (clamped), and two base        *)
(* backoffs, the longer of which reaches the cap on its second trip.       *)
(***************************************************************************)
EXTENDS CircuitBreaker

MCSettings ==
  { [enabled |-> TRUE,  threshold |-> 2,  backoff |-> 1],
    [enabled |-> TRUE,  threshold |-> -1, backoff |-> 2],
    [enabled |-> FALSE, threshold |-> 0,  backoff |-> 0] }
=============================================================================
