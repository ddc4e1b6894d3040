--------------------------- MODULE MCCoreHostIpc ----------------------------
(* A small instance of CoreHostIpc: every thread in one application.       *)
EXTENDS CoreHostIpc

MCAppOf == [t \in Threads |-> CHOOSE a \in Apps : TRUE]

\* A host that is started and shut down, to race hosts against each other.
MCStartStop == {c \in Command : c.op \in {"initialize", "shutdown"}}
=============================================================================
