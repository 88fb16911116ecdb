----------------------------- MODULE MCOpenTofu -----------------------------
(* Two operations of one resource, each with its own target generation. *)
EXTENDS OpenTofu

MCGeneration == [o \in Ops |-> o]
=============================================================================
