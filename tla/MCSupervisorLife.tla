-------------------------- MODULE MCSupervisorLife --------------------------
(***************************************************************************)
(* Two worker processes and three commands: a restart after a crash, a     *)
(* stop during a stream, a supervisor that comes back beside an orphan.    *)
(***************************************************************************)
EXTENDS SupervisorLife

CONSTANTS stream, plain, reset

MCRequests == {stream, plain, reset}
MCKind == [r \in MCRequests |-> CASE r = stream -> "stream" [] r = plain -> "plain"
                                  [] OTHER -> "reset"]
=============================================================================
