---------------------------- MODULE MCPlcBridge ----------------------------
(***************************************************************************)
(* Instances of PlcBridge for TLC.                                         *)
(***************************************************************************)
EXTENDS PlcBridge

\* Every call may give every class of result.
AnyOutcome == [call \in {"create", "read", "write"} |-> NmbsError]

\* A PLC that knows the register: it never answers a read with an exception.
NoReadException == [AnyOutcome EXCEPT !["read"] = {"none", "transport"}]
=============================================================================
