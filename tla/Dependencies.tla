---------------------------- MODULE Dependencies ----------------------------
(***************************************************************************)
(* The dependency gate and its wake protocol (internal/worker/drive.go and *)
(* dependencies.go, internal/application/dependencies.go, the wait rows of *)
(* internal/persistence/postgres/references.go).                           *)
(*                                                                         *)
(* Resources refer to each other; an operation whose targets have not      *)
(* converged registers wait rows and gives up its Drive, and every later   *)
(* transition of a target schedules one WakeDependents that hands the      *)
(* waiters fresh Drives.  PostgreSQL runs at READ COMMITTED: the page of   *)
(* waiters and the operation rows that are locked after it are read at     *)
(* different moments.                                                      *)
(*                                                                         *)
(* Admission refuses to delete a resource that others refer to, so targets *)
(* are created, updated and retried only.  A page takes all waiters of a   *)
(* target.  Everything between the gate and the end of an operation        *)
(* (module Execution) is one action.                                       *)
(***************************************************************************)
EXTENDS Lifecycle, SequencesExt

CONSTANTS
  Resources,
  Refs,       \* the targets of each resource, in ascending identifier order
  Workers,
  Nobody,     \* the resource of a worker that has claimed nothing
  MaxChanges  \* bound on admissions, passive observations and crashes

ASSUME DependenciesAssumption ==
  /\ Refs \in [Resources -> Seq(Resources)]
  /\ Nobody \notin Resources
  /\ MaxChanges \in Nat

VARIABLES
  res,      \* resource rows: state, Reconciled condition, record version
  op,       \* latest operation of each resource
  drive,    \* newest Drive of that operation
  waits,    \* wait rows
  wake,     \* newest WakeDependents of each resource
  worker,   \* what each worker loop is doing
  changes   \* admissions, passive observations and crashes so far

vars == <<res, op, drive, waits, wake, worker, changes>>

Targets(r) == ToSet(Refs[r])

OpPhases == {"Planning", "Applying", "Done"}

Jobs == {"idle", "drive", "page", "revalidate", "finalize"}

Waits == [r: Resources, id: Nat, target: Resources, version: Nat]

TypeOK ==
  /\ res \in [Resources -> [state: ResourceStates, reconciled: BOOLEAN, version: Nat]]
  /\ op \in [Resources -> [id: Nat, cap: Capabilities, phase: OpPhases, version: Nat]]
  /\ drive \in [Resources -> [state: {"Pending", "Leased", "Completed"}, version: Nat]]
  /\ waits \subseteq Waits
  /\ wake \in [Resources -> [state: {"Pending", "Leased", "Completed"}, expected: Nat]]
  /\ worker \in [Workers -> [job: Jobs, r: Resources \cup {Nobody}, page: SUBSET Waits]]
  /\ changes \in 0..MaxChanges

IsActive(m) == m.state \in {"Pending", "Leased"}

HasActiveOperation(r) == op[r].phase # "Done"

\* Every resource was created together with its operation and first Drive.
Init ==
  /\ res = [r \in Resources |-> [state |-> "Pending", reconciled |-> FALSE, version |-> 1]]
  /\ op = [r \in Resources |-> [id |-> 1, cap |-> "create", phase |-> "Planning", version |-> 1]]
  /\ drive = [r \in Resources |-> [state |-> "Pending", version |-> 1]]
  /\ waits = {}
  /\ wake = [r \in Resources |-> [state |-> "Completed", expected |-> 0]]
  /\ worker = [w \in Workers |-> [job |-> "idle", r |-> Nobody, page |-> {}]]
  /\ changes = 0

Change == changes < MaxChanges /\ changes' = changes + 1

BecomeIdle(w) == worker' = [worker EXCEPT ![w] = [job |-> "idle", r |-> Nobody, page |-> {}]]

-----------------------------------------------------------------------------
(* The gate. *)

ClassifyDependency(t) ==
  LET state == res[t].state
  IN  CASE state \in {"Deleting", "Deleted"}             -> "INVALID"
        [] state = "Failed" /\ ~HasActiveOperation(t)    -> "TERMINAL"
        [] state = "Ready" /\ res[t].reconciled /\ ~HasActiveOperation(t) -> "READY"
        [] OTHER                                         -> "WAIT"

\* One target after the other: a later one overrides what an earlier one said,
\* except that a failed target does not override an invalid one.
EvaluateDependencies(r) ==
  LET class[i \in 0..Len(Refs[r])] ==
        IF i = 0 THEN "READY"
        ELSE LET c == ClassifyDependency(Refs[r][i])
             IN  IF c = "READY" \/ (c = "TERMINAL" /\ class[i - 1] = "INVALID") THEN class[i - 1]
                 ELSE c
  IN  class[Len(Refs[r])]

Blocking(r) == {t \in Targets(r) : ClassifyDependency(t) # "READY"}

\* Upsert by operation and target: rows of targets that block no longer stay.
RegisterDependencyWaits(r) ==
  {x \in waits : x.r = r => x.target \notin Blocking(r)} \cup
  {[r |-> r, id |-> op[r].id, target |-> t, version |-> op[r].version + 1] : t \in Blocking(r)}

DeleteDependencyWaits(r) == {x \in waits : x.r # r}

\* Mutant: the wake is never inserted.
EnqueueNoWake(box, t, version) == box

\* Coalesces behind an active wake and ignores a spent version.
EnqueueWakeDependents(box, t, version) ==
  IF IsActive(box[t]) \/ version <= box[t].expected THEN box
  ELSE [box EXCEPT ![t] = [state |-> "Pending", expected |-> version]]

EnqueueWakeDependentsIfWaited(rows, t, version) ==
  IF \E x \in rows : x.target = t THEN EnqueueWakeDependents(wake, t, version) ELSE wake

ClaimDrive(w, r) ==
  /\ worker[w].job = "idle"
  /\ drive[r].state = "Pending"
  /\ drive' = [drive EXCEPT ![r].state = "Leased"]
  /\ worker' = [worker EXCEPT ![w] = [job |-> "drive", r |-> r, page |-> {}]]
  /\ UNCHANGED <<res, op, waits, wake, changes>>

\* Mutant: the wait rows survive the gate.
DriveReadyKeepsWaits(r) ==
  /\ EvaluateDependencies(r) = "READY"
  /\ op' = [op EXCEPT ![r].phase = "Applying", ![r].version = @ + 1]
  /\ UNCHANGED waits

\* The Drive transaction locks the source and its targets.
DriveReady(r) ==
  /\ EvaluateDependencies(r) = "READY"
  /\ op' = [op EXCEPT ![r].phase = "Applying", ![r].version = @ + 1]
  /\ waits' = DeleteDependencyWaits(r)

DriveWaits(r) ==
  /\ EvaluateDependencies(r) = "WAIT"
  /\ op' = [op EXCEPT ![r].version = @ + 1]
  /\ waits' = RegisterDependencyWaits(r)

\* A failed update leaves its resource Ready, though not reconciled.
FailedState(r) == IF op[r].cap = "create" THEN "Failed" ELSE "Ready"

\* The operation fails before any submission.
DriveFails(r) ==
  /\ EvaluateDependencies(r) \in {"TERMINAL", "INVALID"}
  /\ op' = [op EXCEPT ![r].phase = "Done", ![r].version = @ + 1]
  /\ waits' = DeleteDependencyWaits(r)

Drive(w) ==
  LET r == worker[w].r
  IN  /\ worker[w].job = "drive"
      /\ drive' = [drive EXCEPT ![r].state = "Completed"]
      /\ BecomeIdle(w)
      /\ IF op[r].version # drive[r].version \/ op[r].phase # "Planning"
         THEN UNCHANGED <<res, op, waits>>
         ELSE /\ DriveReady(r) \/ DriveWaits(r) \/ DriveFails(r)
              /\ res' = [res EXCEPT ![r].version = @ + 1,
                                    ![r].state = IF op'[r].phase = "Done" THEN FailedState(r) ELSE @]
      /\ UNCHANGED <<wake, changes>>

-----------------------------------------------------------------------------
(* Transitions of the targets. *)

\* A terminal transition of a dispatched operation, with its side effects.
Finish(r, succeeded) ==
  LET rows == DeleteDependencyWaits(r)
  IN  /\ op[r].phase = "Applying"
      /\ op' = [op EXCEPT ![r].phase = "Done", ![r].version = @ + 1]
      /\ res' = [res EXCEPT ![r] = [state |-> IF succeeded THEN "Ready" ELSE FailedState(r),
                                    reconciled |-> succeeded, version |-> @.version + 1]]
      /\ waits' = rows
      /\ wake' = EnqueueWakeDependentsIfWaited(rows, r, res[r].version + 1)
      /\ UNCHANGED <<drive, worker, changes>>

\* An update of a Ready resource or an explicit retry; nobody is woken.
AdmitOperation(r) ==
  /\ ~HasActiveOperation(r)
  /\ res[r].state \in {"Ready", "Failed"}
  /\ Change
  /\ LET cap == IF res[r].state = "Failed" THEN "create" ELSE "update"
     IN  /\ op' = [op EXCEPT ![r] = [id |-> @.id + 1, cap |-> cap, phase |-> "Planning", version |-> 1]]
         /\ res' = [res EXCEPT ![r] = [state |-> IF cap = "create" THEN "Pending" ELSE "Ready",
                                       reconciled |-> FALSE, version |-> @.version + 1]]
  /\ drive' = [drive EXCEPT ![r] = [state |-> "Pending", version |-> 1]]
  /\ UNCHANGED <<waits, wake, worker>>

\* Facts make a resource without active operation Ready, Unknown or drifted.
PassiveObserve(r) ==
  /\ ~HasActiveOperation(r)
  /\ res[r].state \in {"Ready", "Unknown"}
  /\ Change
  /\ \E state \in {"Ready", "Unknown"}, inSync \in BOOLEAN :
       res' = [res EXCEPT ![r] = [state |-> state, reconciled |-> @.reconciled /\ inSync,
                                  version |-> @.version + 1]]
  /\ wake' = EnqueueWakeDependentsIfWaited(waits, r, res[r].version + 1)
  /\ UNCHANGED <<op, drive, waits, worker>>

-----------------------------------------------------------------------------
(* WakeDependents: page, revalidate, finalize. *)

ClaimWake(w, t) ==
  /\ worker[w].job = "idle"
  /\ wake[t].state = "Pending"
  /\ wake' = [wake EXCEPT ![t].state = "Leased"]
  /\ worker' = [worker EXCEPT ![w] = [job |-> "page", r |-> t, page |-> {}]]
  /\ UNCHANGED <<res, op, drive, waits, changes>>

PageDependencyWaiters(w) ==
  /\ worker[w].job = "page"
  /\ worker' = [worker EXCEPT ![w].job = "revalidate",
                              ![w].page = {x \in waits : x.target = worker[w].r}]
  /\ UNCHANGED <<res, op, drive, waits, wake, changes>>

\* A wait read from the page binds the operation as it was then.
StaleWaiter(x) ==
  \/ op[x.r].id # x.id
  \/ op[x.r].phase # "Planning"
  \/ op[x.r].version # x.version

\* The operation rows are locked now; stale waiters lose all of their rows,
\* the others get a Drive for their version unless its key is spent.
RevalidateWaiters(w) ==
  LET page == worker[w].page
      stale == {<<x.r, x.id>> : x \in {y \in page : StaleWaiter(y)}}
      woken == {x.r : x \in {y \in page : ~StaleWaiter(y)}}
  IN  /\ worker[w].job = "revalidate"
      /\ waits' = {x \in waits : <<x.r, x.id>> \notin stale}
      /\ drive' = [r \in Resources |->
                     IF r \in woken /\ drive[r].version < op[r].version
                     THEN [state |-> "Pending", version |-> op[r].version] ELSE drive[r]]
      /\ worker' = [worker EXCEPT ![w].job = "finalize", ![w].page = {}]
      /\ UNCHANGED <<res, op, wake, changes>>

\* Mutant: the target's version is not compared again.
FinalizeWithoutHandshake(w) ==
  LET t == worker[w].r
  IN  /\ worker[w].job = "finalize"
      /\ wake' = [wake EXCEPT ![t].state = "Completed"]
      /\ BecomeIdle(w)
      /\ UNCHANGED <<res, op, drive, waits, changes>>

\* The version handshake under the target's row lock.
FinalizeWake(w) ==
  LET t == worker[w].r
      done == [wake EXCEPT ![t].state = "Completed"]
  IN  /\ worker[w].job = "finalize"
      /\ wake' = IF res[t].version # wake[t].expected
                 THEN EnqueueWakeDependents(done, t, res[t].version) ELSE done
      /\ BecomeIdle(w)
      /\ UNCHANGED <<res, op, drive, waits, changes>>

\* The worker dies; once its lease has expired the message is claimed again.
Crash(w) ==
  /\ worker[w].job # "idle"
  /\ Change
  /\ LET r == worker[w].r
     IN  IF worker[w].job = "drive"
         THEN drive' = [drive EXCEPT ![r].state = "Pending"] /\ UNCHANGED wake
         ELSE wake' = [wake EXCEPT ![r].state = "Pending"] /\ UNCHANGED drive
  /\ BecomeIdle(w)
  /\ UNCHANGED <<res, op, waits>>

-----------------------------------------------------------------------------
WorkerStep(w) ==
  \/ \E r \in Resources : ClaimDrive(w, r) \/ ClaimWake(w, r)
  \/ Drive(w)
  \/ PageDependencyWaiters(w)
  \/ RevalidateWaiters(w)
  \/ FinalizeWake(w)

Next ==
  \/ \E w \in Workers : WorkerStep(w) \/ Crash(w)
  \/ \E r \in Resources : \/ \E succeeded \in BOOLEAN : Finish(r, succeeded)
                          \/ AdmitOperation(r)
                          \/ PassiveObserve(r)

Spec == Init /\ [][Next]_vars

\* Workers keep polling, and dispatched operations finish (module Execution).
Fairness ==
  /\ \A w \in Workers : WF_vars(WorkerStep(w))
  /\ \A r \in Resources : WF_vars(\E succeeded \in BOOLEAN : Finish(r, succeeded))

FairSpec == Spec /\ Fairness

-----------------------------------------------------------------------------
(* Properties. *)

\* Blocked at the gate with its Drive given up.
Blocked(r) == op[r].phase = "Planning" /\ ~IsActive(drive[r])

CurrentWaits(r) == {x \in waits : x.r = r /\ ~StaleWaiter(x)}

\* The version handshake of wakeDependents and ADR-0022 ("No version change can
\* be lost"): once the gate would no longer make a blocked operation wait, a
\* wake is active for a target that it holds a current wait row for.
RegisteredWaiterIsWoken ==
  \A r \in Resources :
    Blocked(r) /\ CurrentWaits(r) # {} /\ EvaluateDependencies(r) # "WAIT"
      => \E x \in CurrentWaits(r) : IsActive(wake[x.target])

\* The lost-wake invariant of EvaluateDependencies and ADR-0022 ("no window
\* remains"): in addition, a blocked operation never loses its wait rows.
NoLostWake ==
  /\ RegisteredWaiterIsWoken
  /\ \A r \in Resources : Blocked(r) => CurrentWaits(r) # {}

\* An active Drive is always for the current version of an operation at the
\* gate, so the conflicting Drive that revalidateWaiter tolerates never exists
\* and no operation passes the gate twice.
DriveIsCurrent ==
  \A r \in Resources :
    IsActive(drive[r]) => op[r].phase = "Planning" /\ drive[r].version = op[r].version

\* ADR-0022: "Waits are removed when the gate passes, the Operation
\* terminalizes": every wait row belongs to an operation still at the gate,
\* and is not newer than it.
NoOrphanWait ==
  \A x \in waits : op[x.r].id = x.id /\ op[x.r].phase = "Planning" /\ x.version <= op[x.r].version

\* The rows of the gate never lie: whatever order drives, wakes, updates, retries
\* and crashes come in, a Drive is for the version its operation has now, and a
\* wait for an operation that is still waiting (drive, revalidateWaiter).
GateRowsCurrent == TypeOK /\ DriveIsCurrent /\ NoOrphanWait

\* Once its dependencies have converged for good, a gated operation passes,
\* provided that it has not been robbed of its wait rows (wakeDependents).
WaitingReleases ==
  \A r \in Resources :
    <>[](EvaluateDependencies(r) = "READY" /\ (Blocked(r) => CurrentWaits(r) # {}))
      => []<>(op[r].phase # "Planning")
=============================================================================
