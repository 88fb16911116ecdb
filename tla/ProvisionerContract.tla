------------------------ MODULE ProvisionerContract ------------------------
(***************************************************************************)
(* What the worker relies on when it hands submission attempts to a        *)
(* provisioner (internal/provisioning/contract.go): an attempt does backend *)
(* work at most once, and whatever is reported as conclusive is true for   *)
(* good.  "Rejected" is the answer with correlation NotFound, after which  *)
(* no work of the attempt may ever begin; "Succeeded" and "Failed" are the *)
(* terminal states of an execution that was found.                         *)
(*                                                                         *)
(* The OpenTofu and Pulumi modules implement this specification.           *)
(***************************************************************************)
CONSTANT Attempts

VARIABLES
  work,    \* backend truth: how far the work of each attempt has come
  verdict  \* the conclusive answer that was recorded for each attempt

contract == <<work, verdict>>

WorkStates == {"None", "Running", "Done", "Broken"}

Verdicts == {"None", "Rejected", "Succeeded", "Failed"}

Init ==
  /\ work = [a \in Attempts |-> "None"]
  /\ verdict = [a \in Attempts |-> "None"]

\* Backend work begins: once, and never after a conclusive answer.
Launch(a) ==
  /\ work[a] = "None" /\ verdict[a] = "None"
  /\ work' = [work EXCEPT ![a] = "Running"]
  /\ UNCHANGED verdict

Finish(a) ==
  /\ work[a] = "Running"
  /\ \E end \in {"Done", "Broken"} : work' = [work EXCEPT ![a] = end]
  /\ UNCHANGED verdict

\* The one answer that is true of an attempt as it stands.
Conclusion(state) ==
  CASE state = "None"   -> {"Rejected"}
    [] state = "Done"   -> {"Succeeded"}
    [] state = "Broken" -> {"Failed"}
    [] OTHER            -> {}

Conclude(a) ==
  /\ verdict[a] = "None"
  /\ \E answer \in Conclusion(work[a]) : verdict' = [verdict EXCEPT ![a] = answer]
  /\ UNCHANGED work

Next == \E a \in Attempts : Launch(a) \/ Finish(a) \/ Conclude(a)

Spec == Init /\ [][Next]_contract
=============================================================================
