--------------------------- MODULE MCProcRecorder ---------------------------
(* Small instances of ProcRecorder: two processes, that may bear one name, *)
(* and a third name for one of them to take.                               *)
EXTENDS ProcRecorder

CONSTANTS eth, tether, curl, sshd, wget

(* Names and interfaces are interchangeable: a behaviour from any other    *)
(* initial state is one from these with names and interfaces permuted.     *)
MCInit ==
  /\ Init
  /\ commOf[1] = curl /\ commOf[2] \in {curl, sshd}
  /\ tether \in up => eth \in up

MCSpec ==
  MCInit /\ [][Next]_vars /\ WF_vars(CaptureLoop) /\ WF_vars(DaemonLoop)
=============================================================================
