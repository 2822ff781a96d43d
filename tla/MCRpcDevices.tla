----------------------------- MODULE MCRpcDevices -----------------------------
(* The device farm for TLC. *)
EXTENDS RpcDevices

MCPriority == [c \in Clients |-> 1]
=============================================================================
