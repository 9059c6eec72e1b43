---------------------------- MODULE MCTraceStore ----------------------------
(***************************************************************************)
(* TraceStore for TLC: one call of the gateway and one of the CLI, so that *)
(* each can meet the other's rows, a cleanup and a reader.                 *)
(***************************************************************************)
EXTENDS TraceStore

\* One provider, a model of its own for each call.
OneProvider == [w \in Writers |-> "provider"]
OwnModel    == [w \in Writers |-> w]

=============================================================================
