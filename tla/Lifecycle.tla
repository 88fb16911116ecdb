----------------------------- MODULE Lifecycle -----------------------------
(***************************************************************************)
(* The deterministic lifecycle engine (internal/lifecycle) and the         *)
(* operation state machine it drives (internal/domain/operation.go), as    *)
(* constant operators on a resource status and an operation.               *)
(*                                                                         *)
(* A status keeps the conditions that the engine and its callers read      *)
(* back: Ready, Reconciled, Reconciling and OperationFailed.  Reasons,     *)
(* messages, events and timestamps are left out; a rule that rejects a     *)
(* regressing timestamp is modelled where a caller can trip over it.       *)
(* Every condition is written with the operation's target generation,      *)
(* which the engine also makes the observed generation, so `observed'      *)
(* stands for the conditions' generation too.                              *)
(***************************************************************************)
EXTENDS Naturals

Capabilities == {"create", "update", "delete"}

ResourceStates == {"Unknown", "Pending", "Ready", "Deleting", "Deleted", "Failed"}

\* "Absent": the condition list holds no condition of that type.
ConditionStatuses == {"True", "False", "Unknown", "Absent"}

Statuses == [state: ResourceStates, observed: Nat, ready: ConditionStatuses,
             reconciled: ConditionStatuses, reconciling: ConditionStatuses,
             failed: ConditionStatuses]

\* No caller cancels an operation, so the fifth state, Canceled, is left out;
\* likewise the capability observe, which never makes an operation.
OperationStates == {"Pending", "Running", "Succeeded", "Failed"}

Phases == {"Requested", "Validating", "Planning", "Applying", "Destroying"}

Operations == [cap: Capabilities, state: OperationStates, phase: Phases, target: Nat]

\* The status of a resource that was stored before any lifecycle request.
UnknownStatus == [state |-> "Unknown", observed |-> 0, ready |-> "Absent",
                  reconciled |-> "Absent", reconciling |-> "Absent", failed |-> "Absent"]

-----------------------------------------------------------------------------
(* Operation state machine. *)

IsTerminal(op) == op.state \in {"Succeeded", "Failed"}

IsFinalPhase(op) == op.phase = IF op.cap = "delete" THEN "Destroying" ELSE "Applying"

\* The one phase an operation may advance to, "None" once it is dispatchable.
NextPhase(op) ==
  CASE op.phase = "Requested"  -> "Validating"
    [] op.phase = "Validating" -> IF op.cap = "delete" THEN "Destroying" ELSE "Planning"
    [] op.phase = "Planning"   -> "Applying"
    [] OTHER                   -> "None"

AdvancePhase(op, next) == [op EXCEPT !.state = "Running", !.phase = next]

-----------------------------------------------------------------------------
(* Which operation a status says is active. *)

ActiveCapability(st) ==
  CASE st.state = "Pending"                              -> "create"
    [] st.state = "Deleting"                             -> "delete"
    [] st.state = "Ready" /\ st.reconciling = "True"     -> "update"
    [] OTHER                                             -> "None"

StatusActive(st) == ActiveCapability(st) # "None"

\* An active operation may only move while the status represents it.
ValidOperationContext(gen, st, op) ==
  /\ op.target <= gen
  /\ st.observed = op.target
  /\ ~IsTerminal(op) => ActiveCapability(st) = op.cap

-----------------------------------------------------------------------------
(* Request: admission of a create, update or delete. *)

RequestPrecondition(gen, st, cap, retry) ==
  \/ /\ cap = "create"
     /\ \/ st.state \in {"Unknown", "Pending"}
        \/ st.state = "Failed" /\ retry
        \/ st.state = "Deleted" /\ gen > st.observed
  \/ /\ cap = "update"
     /\ st.state = "Ready"
     /\ gen > st.observed \/ retry
  \/ cap = "delete" /\ st.state \in {"Ready", "Failed"}

\* `hasActive' says that the caller passed a latest operation that is active.
CanRequest(gen, st, cap, retry, hasActive) ==
  /\ st.observed <= gen
  /\ StatusActive(st) = hasActive
  /\ ~hasActive
  /\ RequestPrecondition(gen, st, cap, retry)

\* From which state the application lets a failed operation be retried.
RetryStateCompatible(cap, state) ==
  CASE cap = "create" -> state = "Failed"
    [] cap = "update" -> state = "Ready"
    [] OTHER          -> state \in {"Ready", "Failed"}

RequestedOperation(cap, target) ==
  [cap |-> cap, state |-> "Pending", phase |-> "Requested", target |-> target]

\* Mutant: nothing is marked.
EnsureNothing(st) == st

\* A Ready resource is marked previously ready before its conditions change.
EnsurePreviouslyReady(st) == IF st.state = "Ready" THEN [st EXCEPT !.ready = "True"] ELSE st

RequestedState(st, cap) ==
  CASE cap = "create" -> "Pending"
    [] cap = "delete" -> "Deleting"
    [] OTHER          -> st.state

\* Mutant: Reconciled is not reset.
RequestedStatusKeepsReconciled(st, cap, target) ==
  [EnsurePreviouslyReady(st) EXCEPT
     !.state = RequestedState(st, cap), !.observed = target,
     !.ready = IF cap = "create" THEN "False" ELSE @,
     !.reconciling = "True", !.failed = "False"]

RequestedStatus(st, cap, target) ==
  [EnsurePreviouslyReady(st) EXCEPT
     !.state       = RequestedState(st, cap),
     !.observed    = target,
     !.ready       = IF cap = "create" THEN "False" ELSE @,
     !.reconciled  = "False",
     !.reconciling = "True",
     !.failed      = "False"]

-----------------------------------------------------------------------------
(* Advance, Complete and Fail. *)

AdvancedStatus(st) == [st EXCEPT !.reconciling = "True", !.reconciled = "False"]

CanComplete(gen, st, op) ==
  /\ ValidOperationContext(gen, st, op)
  /\ op.state = "Running"
  /\ IsFinalPhase(op)

CompletedStatus(gen, st, op) ==
  [st EXCEPT !.state       = IF op.cap = "delete" THEN "Deleted" ELSE "Ready",
             !.ready       = IF op.cap = "delete" THEN "False" ELSE "True",
             !.reconciled  = IF gen > op.target THEN "False" ELSE "True",
             !.reconciling = "False",
             !.failed      = "False"]

CanFail(gen, st, op) ==
  /\ ValidOperationContext(gen, st, op)
  /\ ~IsTerminal(op)

\* Mutant: the failure does not end the reconciliation.
FailedStatusReconciling(gen, st, op) ==
  [st EXCEPT !.state = IF op.cap = "update" THEN "Ready" ELSE "Failed",
             !.reconciled = "False", !.failed = "True"]

\* A failed update leaves the resource Ready; a failed delete goes back to
\* Ready only when the Ready condition says it was usable.
FailedStatus(gen, st, op) ==
  [st EXCEPT !.state       = CASE op.cap = "create" -> "Failed"
                               [] op.cap = "update" -> "Ready"
                               [] OTHER -> IF st.ready = "True" THEN "Ready" ELSE "Failed",
             !.ready       = IF op.cap = "create" THEN "False" ELSE st.ready,
             !.reconciled  = "False",
             !.reconciling = "False",
             !.failed      = "True"]

-----------------------------------------------------------------------------
(* Observed facts. *)

Facts ==
  {f \in [presence: {"Present", "NotFound", "Unknown"},
          readiness: {"Ready", "NotReady", "Unknown"},
          drift: {"InSync", "Drifted", "Unknown"}] :
     f.presence # "Present" => f.readiness = "Unknown"}

ReadinessCondition(f) ==
  CASE f.presence = "NotFound"    -> "False"
    [] f.readiness = "Ready"      -> "True"
    [] f.readiness = "NotReady"   -> "False"
    [] OTHER                      -> "Unknown"

\* Mutant: absence reported for a tombstone makes it Unknown again.
ObservedStatusRevives(st, f, preserve) ==
  [st EXCEPT
     !.state = IF preserve \/ st.state = "Failed" THEN st.state
               ELSE IF f.presence = "NotFound" \/ f.readiness = "NotReady" THEN "Unknown"
               ELSE IF f.readiness = "Ready" /\ st.state # "Deleted" THEN "Ready"
               ELSE st.state,
     !.ready = ReadinessCondition(f),
     !.reconciled = IF f.drift = "Drifted" THEN "False" ELSE st.reconciled]

\* `preserve' is set for the facts that accompany a terminal execution.
ObservedStatus(st, f, preserve) ==
  [st EXCEPT
     !.state = IF preserve \/ st.state \in {"Deleted", "Failed"} THEN st.state
               ELSE IF f.presence = "Present" /\ f.readiness = "Ready" THEN "Ready"
               ELSE IF f.presence = "NotFound" \/ f.readiness = "NotReady" THEN "Unknown"
               ELSE st.state,
     !.ready = IF f.presence # "Unknown" \/ f.readiness # "Unknown" \/ st.ready = "Absent"
               THEN ReadinessCondition(f) ELSE st.ready,
     !.reconciled = IF f.drift = "Drifted" /\ st.reconciled \in {"True", "Absent"}
                    THEN "False" ELSE st.reconciled]
=============================================================================
