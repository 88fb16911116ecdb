------------------------------ MODULE MCPulumi ------------------------------
(* Two operations of one stack, each with its own target generation. *)
EXTENDS Pulumi

MCGeneration == [o \in Ops |-> o]
=============================================================================
