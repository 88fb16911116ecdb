----------------------------- MODULE MCRecovery -----------------------------
(* An instance of Recovery for TLC; the idempotency keys are interchangeable. *)
EXTENDS Recovery, TLC

KeySymmetry == Permutations(Keys)
=============================================================================
