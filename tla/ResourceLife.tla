---------------------------- MODULE ResourceLife ----------------------------
(***************************************************************************)
(* The life of one resource: the admission service (internal/application)  *)
(* creates, updates, deletes and retries it, the worker advances and       *)
(* finishes its one active operation, and passive observations refresh its *)
(* status in between.  Each action is one committed transaction under the  *)
(* resource row lock.                                                      *)
(***************************************************************************)
EXTENDS Lifecycle

CONSTANT MaxGeneration   \* bound on the generations that updates create

ASSUME MaxGenerationAssumption == MaxGeneration \in Nat \ {0}

VARIABLES
  gen,       \* desired generation of the resource
  status,    \* its status row
  latest,    \* its latest operation
  before,    \* history: resource state when the latest operation was requested
  converged  \* history: generation of the last successful create or update

lifeVars == <<gen, status, latest, before, converged>>

LifeTypeOK ==
  /\ gen \in 1..MaxGeneration
  /\ status \in Statuses
  /\ latest \in Operations
  /\ before \in ResourceStates
  /\ converged \in Nat

\* Creation stores the resource, its first operation and its status at once.
LifeInit ==
  /\ gen = 1
  /\ latest = RequestedOperation("create", 1)
  /\ status = RequestedStatus(UnknownStatus, "create", 1)
  /\ before = "Unknown"
  /\ converged = 0

Admit(cap, target, g) ==
  /\ gen' = g
  /\ latest' = RequestedOperation(cap, target)
  /\ status' = RequestedStatus(status, cap, target)
  /\ before' = status.state
  /\ UNCHANGED converged

\* The engine sees the active operation, if any, and never a retry.
AdmitUpdate ==
  /\ gen < MaxGeneration
  /\ CanRequest(gen + 1, status, "update", FALSE, ~IsTerminal(latest))
  /\ Admit("update", gen + 1, gen + 1)

AdmitDelete ==
  /\ CanRequest(gen, status, "delete", FALSE, ~IsTerminal(latest))
  /\ Admit("delete", gen, gen)

\* An explicit retry names the latest operation, failed at this generation.
AdmitRetry ==
  /\ latest.state = "Failed"
  /\ latest.target = gen
  /\ RetryStateCompatible(latest.cap, status.state)
  /\ CanRequest(gen, status, latest.cap, TRUE, FALSE)
  /\ Admit(latest.cap, latest.target, gen)

-----------------------------------------------------------------------------
\* Mutant: a dispatchable operation is advanced once more.
AdvanceUnguarded ==
  /\ ~IsTerminal(latest)
  /\ ValidOperationContext(gen, status, latest)
  /\ latest' = AdvancePhase(latest, NextPhase(latest))
  /\ status' = AdvancedStatus(status)
  /\ UNCHANGED <<gen, before, converged>>

Advance ==
  /\ ~IsTerminal(latest)
  /\ NextPhase(latest) # "None"
  /\ ValidOperationContext(gen, status, latest)
  /\ latest' = AdvancePhase(latest, NextPhase(latest))
  /\ status' = AdvancedStatus(status)
  /\ UNCHANGED <<gen, before, converged>>

\* Terminal evidence may carry observed facts, applied after the outcome.
FinishStatuses(st) == {st} \cup {ObservedStatus(st, f, TRUE) : f \in Facts}

CompleteOperation ==
  /\ CanComplete(gen, status, latest)
  /\ latest' = [latest EXCEPT !.state = "Succeeded"]
  /\ status' \in FinishStatuses(CompletedStatus(gen, status, latest))
  /\ converged' = IF latest.cap = "delete" THEN converged ELSE latest.target
  /\ UNCHANGED <<gen, before>>

FailOperation ==
  /\ IsFinalPhase(latest)
  /\ CanFail(gen, status, latest)
  /\ latest' = [latest EXCEPT !.state = "Failed"]
  /\ status' \in FinishStatuses(FailedStatus(gen, status, latest))
  /\ UNCHANGED <<gen, before, converged>>

\* The dependency gate fails an operation before it is ever submitted.
FailAtGate ==
  /\ latest.phase = "Planning"
  /\ CanFail(gen, status, latest)
  /\ latest' = [latest EXCEPT !.state = "Failed"]
  /\ status' = FailedStatus(gen, status, latest)
  /\ UNCHANGED <<gen, before, converged>>

\* The transaction that applies passive facts looks for an active operation,
\* and the engine refuses facts for a status that represents one.
PassiveObserve ==
  /\ IsTerminal(latest)
  /\ ~StatusActive(status)
  /\ \E f \in Facts : status' = ObservedStatus(status, f, FALSE)
  /\ UNCHANGED <<gen, latest, before, converged>>

\* A deleted resource that nothing observes any more just stays.
LifeNext ==
  \/ AdmitUpdate \/ AdmitDelete \/ AdmitRetry
  \/ Advance \/ CompleteOperation \/ FailOperation \/ FailAtGate
  \/ PassiveObserve

LifeSpec == LifeInit /\ [][LifeNext]_lifeVars
-----------------------------------------------------------------------------
(* Properties. *)

\* What validateOperationContext demands of every later transition: an
\* unfinished operation targets the current generation and the status
\* represents it, and the status claims activity only then.  If it broke,
\* the engine would refuse the terminal evidence of a live operation and
\* the worker would quarantine it (engine.go, validateOperationContext).
ActiveRepresented ==
  /\ ~IsTerminal(latest) => /\ latest.target = gen
                            /\ ActiveCapability(status) = latest.cap
  /\ IsTerminal(latest) => ~StatusActive(status)
  /\ status.observed = latest.target

\* The dependency gate reads Ready with Reconciled=True at the current
\* generation as convergence (classifyDependency): it may only hold when the
\* last create or update that succeeded was for that very generation.
ReconciledMeansConverged ==
  status.state = "Ready" /\ status.reconciled = "True" /\ status.observed = gen
    => converged = gen

\* A tombstone never comes back: no request, evidence or passive fact moves
\* a Deleted resource out of Deleted.
DeletedIsFinal == [][status.state = "Deleted" => status'.state = "Deleted"]_lifeVars

\* A resource that became usable once is never reported Failed by an update:
\* only a create, or a delete of a resource that was Failed before, ends in
\* Failed (engine.go, Fail).
FailedOnlyIfNeverUsable ==
  [][status'.state = "Failed" /\ status.state # "Failed"
       => latest.cap = "create" \/ before = "Failed"]_lifeVars

\* ADR-0011: "cleanup deletes of Failed Resources remain Failed".  A passive
\* observation may leave Ready=True on a Failed resource, and Fail reads that
\* condition, so a failed cleanup can report the resource Ready.
CleanupStaysFailed ==
  latest.cap = "delete" /\ latest.state = "Failed" /\ before = "Failed" => status.state = "Failed"
=============================================================================
