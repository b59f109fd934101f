------------------------------- MODULE MCPod -------------------------------
(***************************************************************************)
(* Small instances of Pod for TLC.                                         *)
(***************************************************************************)
EXTENDS Pod, TLC

MCPids == 1..5

MCExposed == [c \in Containers |-> Ports]

=============================================================================
