------------------------- MODULE DependenciesProofs -------------------------
(***************************************************************************)
(* Proofs about Dependencies for every reference graph and any number of   *)
(* workers and changes.                                                    *)
(***************************************************************************)
EXTENDS Dependencies, SequenceTheorems, WellFoundedInduction, TLAPS

\* A Drive is leased to one worker, and a worker is busy with a resource.
LeasesAgree ==
  \A w \in Workers :
    /\ worker[w].job # "idle" => worker[w].r \in Resources
    /\ worker[w].job = "drive" => drive[worker[w].r].state = "Leased"
    /\ \A v \in Workers :
         worker[v].job = "drive" /\ worker[w].job = "drive" /\ worker[v].r = worker[w].r => v = w

IInv == TypeOK /\ LeasesAgree /\ DriveIsCurrent /\ NoOrphanWait

-----------------------------------------------------------------------------
(* Types. *)

\* Rows, by field.
LEMMA RowTypes ==
  ASSUME TypeOK, NEW r \in Resources
  PROVE  /\ res[r].state \in ResourceStates /\ res[r].reconciled \in BOOLEAN /\ res[r].version \in Nat
         /\ op[r].id \in Nat /\ op[r].cap \in Capabilities /\ op[r].phase \in OpPhases
         /\ op[r].version \in Nat
         /\ drive[r].state \in {"Pending", "Leased", "Completed"} /\ drive[r].version \in Nat
         /\ wake[r].state \in {"Pending", "Leased", "Completed"} /\ wake[r].expected \in Nat
BY DEF TypeOK

\* A worker that has dealt with its message claims the next one.
LEMMA IdleFields ==
  ASSUME TypeOK, NEW w \in Workers, BecomeIdle(w)
  PROVE  /\ worker' \in [Workers -> [job: Jobs, r: Resources \cup {Nobody}, page: SUBSET Waits]]
         /\ worker'[w].job = "idle" /\ worker'[w].r = Nobody /\ worker'[w].page = {}
         /\ \A v \in Workers \ {w} : worker'[v] = worker[v]
BY DEF TypeOK, BecomeIdle, Jobs

\* Admissions, passive observations and crashes are bounded.
LEMMA ChangeBound ==
  ASSUME TypeOK, Change \/ UNCHANGED changes PROVE changes' \in 0..MaxChanges
BY DependenciesAssumption DEF TypeOK, Change

\* A wake is inserted at the version of its target, or coalesces.
LEMMA EnqueueFields ==
  ASSUME NEW box \in [Resources -> [state: {"Pending", "Leased", "Completed"}, expected: Nat]],
         NEW t \in Resources, NEW version \in Nat
  PROVE  /\ EnqueueWakeDependents(box, t, version) \in
              [Resources -> [state: {"Pending", "Leased", "Completed"}, expected: Nat]]
         /\ \A r \in Resources \ {t} : EnqueueWakeDependents(box, t, version)[r] = box[r]
         /\ IsActive(box[t]) => EnqueueWakeDependents(box, t, version)[t] = box[t]
         /\ ~IsActive(box[t]) /\ version <= box[t].expected =>
              EnqueueWakeDependents(box, t, version)[t] = box[t]
         /\ ~IsActive(box[t]) /\ version > box[t].expected =>
              EnqueueWakeDependents(box, t, version)[t] = [state |-> "Pending", expected |-> version]
<1>1. CASE IsActive(box[t]) \/ version <= box[t].expected
  BY <1>1 DEF EnqueueWakeDependents
<1>2. CASE ~(IsActive(box[t]) \/ version <= box[t].expected)
  <2>1. box[t].expected \in Nat
    OBVIOUS
  <2>2. EnqueueWakeDependents(box, t, version) =
          [box EXCEPT ![t] = [state |-> "Pending", expected |-> version]]
    BY <1>2 DEF EnqueueWakeDependents
  <2>3. QED
    BY <1>2, <2>1, <2>2
<1>3. QED
  BY <1>1, <1>2

\* What the gate writes for an operation that it makes wait: one row for each
\* target that blocks, at the operation's next version.
LEMMA RegisteredRows ==
  ASSUME TypeOK, NEW r \in Resources, NEW x \in RegisterDependencyWaits(r)
  PROVE  \/ x \in waits
         \/ x.r = r /\ x.id = op[r].id /\ x.version = op[r].version + 1 /\ x \in Waits
<1>1. Targets(r) \subseteq Resources
  BY DependenciesAssumption DEF Targets, ToSet
<1>2. CASE x \notin waits
  <2>1. PICK t \in Blocking(r) :
          x = [r |-> r, id |-> op[r].id, target |-> t, version |-> op[r].version + 1]
    BY <1>2 DEF RegisterDependencyWaits
  <2>2. t \in Resources /\ op[r].id \in Nat /\ op[r].version \in Nat
    BY <1>1, RowTypes DEF Blocking
  <2>3. QED
    BY <2>1, <2>2 DEF Waits
<1>3. QED
  BY <1>2

-----------------------------------------------------------------------------
(* The steps. *)

\* The gate: whatever it decides, the Drive is completed and the wait rows are
\* those of the operation's next version, or none.
LEMMA DriveStep ==
  ASSUME IInv, NEW w \in Workers, Drive(w) PROVE IInv'
<1> USE DEF IInv
<1> DEFINE r == worker[w].r
<1>1. /\ worker[w].job = "drive" /\ r \in Resources
      /\ drive' = [drive EXCEPT ![r].state = "Completed"] /\ BecomeIdle(w)
      /\ wake' = wake /\ changes' = changes
  BY DEF Drive, LeasesAgree
<1>2. /\ worker' \in [Workers -> [job: Jobs, r: Resources \cup {Nobody}, page: SUBSET Waits]]
      /\ worker'[w].job = "idle"
      /\ \A v \in Workers \ {w} : worker'[v] = worker[v]
  BY <1>1, IdleFields
<1>3. /\ drive' \in [Resources -> [state: {"Pending", "Leased", "Completed"}, version: Nat]]
      /\ drive'[r].state = "Completed"
      /\ \A s \in Resources \ {r} : drive'[s] = drive[s]
  BY <1>1 DEF TypeOK
<1> HIDE DEF r
<1>4. LeasesAgree'
  <2>1. \A v \in Workers : worker'[v].job # "idle" => worker'[v] = worker[v] /\ v # w
    BY <1>2
  <2>2. \A v \in Workers \ {w} : worker[v].job = "drive" => worker[v].r # r
    BY <1>1 DEF LeasesAgree, r
  <2>3. QED
    BY <1>3, <2>1, <2>2 DEF LeasesAgree
<1>5. CASE UNCHANGED <<res, op, waits>>
  <2>1. TypeOK' /\ NoOrphanWait'
    BY <1>1, <1>2, <1>3, <1>5 DEF TypeOK, NoOrphanWait
  <2>2. DriveIsCurrent'
    BY <1>3, <1>5 DEF DriveIsCurrent, IsActive
  <2>3. QED
    BY <1>4, <2>1, <2>2
<1>6. CASE /\ op[r].version = drive[r].version /\ op[r].phase = "Planning"
           /\ DriveReady(r) \/ DriveWaits(r) \/ DriveFails(r)
           /\ res' = [res EXCEPT ![r].version = @ + 1,
                                 ![r].state = IF op'[r].phase = "Done" THEN FailedState(r) ELSE @]
  <2>1. /\ op' \in [Resources -> [id: Nat, cap: Capabilities, phase: OpPhases, version: Nat]]
        /\ op'[r].id = op[r].id /\ op'[r].version = op[r].version + 1
        /\ \A s \in Resources \ {r} : op'[s] = op[s]
    <3>1. op[r].version \in Nat
      BY <1>1, RowTypes
    <3>2. PICK phase \in OpPhases : op' = [op EXCEPT ![r].phase = phase, ![r].version = @ + 1]
      <4>1. CASE DriveReady(r)
        BY <4>1 DEF DriveReady, OpPhases
      <4>2. CASE DriveWaits(r)
        <5>1. op' = [op EXCEPT ![r].version = @ + 1] /\ op[r].phase = "Planning"
          BY <1>6, <4>2 DEF DriveWaits
        <5>2. op' = [op EXCEPT ![r].phase = "Planning", ![r].version = @ + 1]
          BY <1>1, <5>1 DEF TypeOK
        <5>3. QED
          BY <5>2 DEF OpPhases
      <4>3. CASE DriveFails(r)
        BY <4>3 DEF DriveFails, OpPhases
      <4>4. QED
        BY <1>6, <4>1, <4>2, <4>3
    <3>3. QED
      BY <1>1, <3>1, <3>2 DEF TypeOK
  <2>2. res' \in [Resources -> [state: ResourceStates, reconciled: BOOLEAN, version: Nat]]
    <3> DEFINE state == IF op'[r].phase = "Done" THEN FailedState(r) ELSE res[r].state
    <3>1. state \in ResourceStates
      BY <1>1, RowTypes DEF FailedState, ResourceStates
    <3>2. res' = [res EXCEPT ![r].version = @ + 1, ![r].state = state]
      BY <1>1, <1>6 DEF TypeOK
    <3>3. res[r].version + 1 \in Nat
      BY <1>1, RowTypes
    <3> HIDE DEF state
    <3> DEFINE y == [res[r] EXCEPT !.version = @ + 1, !.state = state]
    <3>4. res[r] \in [state: ResourceStates, reconciled: BOOLEAN, version: Nat]
      BY <1>1 DEF TypeOK
    <3>5. y \in [state: ResourceStates, reconciled: BOOLEAN, version: Nat]
      BY <3>1, <3>3, <3>4
    <3>6. res' = [res EXCEPT ![r] = y]
      BY <3>2
    <3> HIDE DEF y
    <3>7. QED
      BY <1>1, <3>5, <3>6 DEF TypeOK
  <2>3. /\ waits' \subseteq Waits
        /\ \A x \in waits' :
             \/ x \in waits /\ (x.r = r => op'[r].phase = "Planning")
             \/ x.r = r /\ x.id = op[r].id /\ x.version = op[r].version + 1
                /\ op'[r].phase = "Planning"
    <3>1. CASE DriveWaits(r)
      <4>1. waits' = RegisterDependencyWaits(r) /\ op' = [op EXCEPT ![r].version = @ + 1]
        BY <3>1 DEF DriveWaits
      <4>2. op'[r].phase = "Planning"
        BY <1>1, <1>6, <4>1 DEF TypeOK
      <4>3. QED
        BY <1>1, <4>1, <4>2, RegisteredRows DEF TypeOK
    <3>2. CASE DriveReady(r) \/ DriveFails(r)
      BY <3>2 DEF DriveReady, DriveFails, DeleteDependencyWaits, TypeOK
    <3>3. QED
      BY <1>6, <3>1, <3>2
  <2>4. TypeOK'
    BY <1>1, <1>2, <1>3, <2>1, <2>2, <2>3 DEF TypeOK
  <2>5. DriveIsCurrent'
    BY <1>3, <2>1 DEF DriveIsCurrent, IsActive
  <2>6. NoOrphanWait'
    <3> SUFFICES ASSUME NEW x \in waits'
                 PROVE  /\ op'[x.r].id = x.id /\ op'[x.r].phase = "Planning"
                        /\ x.version <= op'[x.r].version
      BY DEF NoOrphanWait
    <3>1. x \in Waits
      BY <2>3
    <3>2. x.r \in Resources /\ x.version \in Nat /\ op[r].version \in Nat
      BY <1>1, <3>1, RowTypes DEF Waits
    <3>3. CASE x.r = r
      BY <2>1, <2>3, <3>2, <3>3 DEF NoOrphanWait
    <3>4. CASE x.r # r
      BY <2>1, <2>3, <3>2, <3>4 DEF NoOrphanWait
    <3>5. QED
      BY <3>3, <3>4
  <2>7. QED
    BY <1>4, <2>4, <2>5, <2>6
<1>7. QED
  BY <1>5, <1>6 DEF Drive, r


\* A Drive is claimed by one worker.
LEMMA ClaimDriveStep ==
  ASSUME IInv, NEW w \in Workers, NEW r \in Resources, ClaimDrive(w, r) PROVE IInv'
<1> USE DEF IInv
<1>1. /\ worker[w].job = "idle" /\ drive[r].state = "Pending"
      /\ drive' = [drive EXCEPT ![r].state = "Leased"]
      /\ worker' = [worker EXCEPT ![w] = [job |-> "drive", r |-> r, page |-> {}]]
      /\ res' = res /\ op' = op /\ waits' = waits /\ wake' = wake /\ changes' = changes
  BY DEF ClaimDrive
<1>2. /\ drive' \in [Resources -> [state: {"Pending", "Leased", "Completed"}, version: Nat]]
      /\ drive'[r].state = "Leased" /\ drive'[r].version = drive[r].version
      /\ \A s \in Resources \ {r} : drive'[s] = drive[s]
  BY <1>1 DEF TypeOK
<1>3. /\ worker' \in [Workers -> [job: Jobs, r: Resources \cup {Nobody}, page: SUBSET Waits]]
      /\ worker'[w].job = "drive" /\ worker'[w].r = r
      /\ \A v \in Workers \ {w} : worker'[v] = worker[v]
  BY <1>1 DEF TypeOK, Jobs
<1>4. TypeOK' /\ NoOrphanWait'
  BY <1>1, <1>2, <1>3 DEF TypeOK, NoOrphanWait
<1>5. DriveIsCurrent'
  BY <1>1, <1>2 DEF DriveIsCurrent, IsActive
<1>6. \A v \in Workers \ {w} : worker[v].job = "drive" => worker[v].r # r
  BY <1>1 DEF LeasesAgree
<1>7. LeasesAgree'
  BY <1>1, <1>2, <1>3, <1>6 DEF LeasesAgree
<1>8. QED
  BY <1>4, <1>5, <1>7

\* Steps that leave the gate's rows alone.
LEMMA OtherRowsStep ==
  ASSUME IInv, TypeOK', UNCHANGED <<op, drive, waits>>,
         \A v \in Workers : \/ worker'[v] = worker[v]
                            \/ worker'[v].job # "drive"
                               /\ (worker'[v].job # "idle" => worker'[v].r \in Resources)
  PROVE  IInv'
<1> USE DEF IInv
<1>1. DriveIsCurrent' /\ NoOrphanWait'
  BY DEF DriveIsCurrent, NoOrphanWait
<1>2. LeasesAgree'
  <2>1. \A v \in Workers : worker'[v].job = "drive" => worker'[v] = worker[v]
    OBVIOUS
  <2>2. QED
    BY <2>1 DEF LeasesAgree
<1>3. QED
  BY <1>1, <1>2

\* A wake is claimed.
LEMMA ClaimWakeStep ==
  ASSUME IInv, NEW w \in Workers, NEW t \in Resources, ClaimWake(w, t) PROVE IInv'
<1>1. /\ worker' = [worker EXCEPT ![w] = [job |-> "page", r |-> t, page |-> {}]]
      /\ wake' = [wake EXCEPT ![t].state = "Leased"]
      /\ UNCHANGED <<res, op, drive, waits, changes>>
  BY DEF ClaimWake
<1>2. /\ worker' \in [Workers -> [job: Jobs, r: Resources \cup {Nobody}, page: SUBSET Waits]]
      /\ worker'[w].job = "page" /\ worker'[w].r = t
      /\ \A v \in Workers \ {w} : worker'[v] = worker[v]
  BY <1>1 DEF IInv, TypeOK, Jobs
<1>3. TypeOK'
  BY <1>1, <1>2 DEF IInv, TypeOK
<1>4. QED
  BY <1>1, <1>2, <1>3, OtherRowsStep

\* The page of waiters is read.
LEMMA PageStep ==
  ASSUME IInv, NEW w \in Workers, PageDependencyWaiters(w) PROVE IInv'
<1> DEFINE rows == {x \in waits : x.target = worker[w].r}
<1>1. /\ worker[w].job = "page"
      /\ worker' = [worker EXCEPT ![w].job = "revalidate", ![w].page = rows]
      /\ UNCHANGED <<res, op, drive, waits, wake, changes>>
  BY DEF PageDependencyWaiters
<1>2. rows \in SUBSET Waits
  BY DEF IInv, TypeOK
<1> HIDE DEF rows
<1>3. /\ worker' \in [Workers -> [job: Jobs, r: Resources \cup {Nobody}, page: SUBSET Waits]]
      /\ worker'[w].job = "revalidate" /\ worker'[w].r = worker[w].r
      /\ \A v \in Workers \ {w} : worker'[v] = worker[v]
  BY <1>1, <1>2 DEF IInv, TypeOK, Jobs
<1>4. TypeOK'
  BY <1>1, <1>3 DEF IInv, TypeOK
<1>5. worker[w].r \in Resources
  BY <1>1 DEF IInv, LeasesAgree
<1>6. QED
  BY <1>1, <1>3, <1>4, <1>5, OtherRowsStep

\* The wake is finalized or replaced.
LEMMA FinalizeStep ==
  ASSUME IInv, NEW w \in Workers, FinalizeWake(w) PROVE IInv'
<1> DEFINE t == worker[w].r
           done == [wake EXCEPT ![t].state = "Completed"]
<1>1. /\ worker[w].job = "finalize" /\ BecomeIdle(w)
      /\ wake' = IF res[t].version # wake[t].expected
                 THEN EnqueueWakeDependents(done, t, res[t].version) ELSE done
      /\ UNCHANGED <<res, op, drive, waits, changes>>
  BY DEF FinalizeWake
<1>2. t \in Resources /\ res[t].version \in Nat
  BY <1>1, RowTypes DEF IInv, LeasesAgree
<1>3. done \in [Resources -> [state: {"Pending", "Leased", "Completed"}, expected: Nat]]
  BY <1>2 DEF IInv, TypeOK
<1>4. wake' \in [Resources -> [state: {"Pending", "Leased", "Completed"}, expected: Nat]]
  <2> HIDE DEF done, t
  <2>1. QED
    BY <1>1, <1>2, <1>3, EnqueueFields
<1>5. /\ worker' \in [Workers -> [job: Jobs, r: Resources \cup {Nobody}, page: SUBSET Waits]]
      /\ worker'[w].job = "idle" /\ \A v \in Workers \ {w} : worker'[v] = worker[v]
  BY <1>1, IdleFields DEF IInv
<1>6. TypeOK'
  BY <1>1, <1>4, <1>5 DEF IInv, TypeOK
<1>7. QED
  BY <1>1, <1>5, <1>6, OtherRowsStep

\* Revalidation gives a Drive only to operations at the gate, for the version
\* they have under the row lock.
LEMMA RevalidateStep ==
  ASSUME IInv, NEW w \in Workers, RevalidateWaiters(w) PROVE IInv'
<1> USE DEF IInv
<1> DEFINE page == worker[w].page
           stale == {<<x.r, x.id>> : x \in {y \in page : StaleWaiter(y)}}
           woken == {x.r : x \in {y \in page : ~StaleWaiter(y)}}
<1>1. /\ worker[w].job = "revalidate"
      /\ waits' = {x \in waits : <<x.r, x.id>> \notin stale}
      /\ drive' = [r \in Resources |->
                     IF r \in woken /\ drive[r].version < op[r].version
                     THEN [state |-> "Pending", version |-> op[r].version] ELSE drive[r]]
      /\ worker' = [worker EXCEPT ![w].job = "finalize", ![w].page = {}]
      /\ res' = res /\ op' = op /\ wake' = wake /\ changes' = changes
  BY DEF RevalidateWaiters
<1>2. \A r \in woken : op[r].phase = "Planning"
  BY DEF StaleWaiter
<1>3. waits' \subseteq waits
  BY <1>1
<1> HIDE DEF page, stale, woken
<1>4. ASSUME NEW r \in Resources
      PROVE  /\ drive'[r] \in [state: {"Pending", "Leased", "Completed"}, version: Nat]
             /\ \/ drive'[r] = drive[r]
                \/ /\ drive'[r].state = "Pending" /\ drive'[r].version = op[r].version
                   /\ op[r].phase = "Planning" /\ drive[r].version # op[r].version
  <2>1. op[r].version \in Nat /\ drive[r].version \in Nat
        /\ drive[r] \in [state: {"Pending", "Leased", "Completed"}, version: Nat]
    BY RowTypes DEF TypeOK
  <2>2. CASE r \in woken /\ drive[r].version < op[r].version
    BY <1>1, <1>2, <2>1, <2>2
  <2>3. CASE ~(r \in woken /\ drive[r].version < op[r].version)
    BY <1>1, <2>1, <2>3
  <2>4. QED
    BY <2>2, <2>3
<1>5. /\ worker' \in [Workers -> [job: Jobs, r: Resources \cup {Nobody}, page: SUBSET Waits]]
      /\ worker'[w].job = "finalize" /\ worker'[w].r = worker[w].r
      /\ \A v \in Workers \ {w} : worker'[v] = worker[v]
  BY <1>1 DEF TypeOK, Jobs
<1>6. TypeOK'
  <2>1. drive' \in [Resources -> [state: {"Pending", "Leased", "Completed"}, version: Nat]]
    BY <1>1, <1>4
  <2>2. QED
    BY <1>1, <1>3, <1>5, <2>1 DEF TypeOK
<1>7. DriveIsCurrent'
  BY <1>1, <1>4 DEF DriveIsCurrent, IsActive
<1>8. NoOrphanWait'
  BY <1>1, <1>3 DEF NoOrphanWait
<1>9. \A v \in Workers : worker'[v].job = "drive" =>
        worker'[v] = worker[v] /\ worker[v].r \in Resources /\ drive'[worker[v].r] = drive[worker[v].r]
  <2> SUFFICES ASSUME NEW v \in Workers, worker'[v].job = "drive"
               PROVE  /\ worker'[v] = worker[v] /\ worker[v].r \in Resources
                      /\ drive'[worker[v].r] = drive[worker[v].r]
    OBVIOUS
  <2>1. worker'[v] = worker[v] /\ worker[v].job = "drive" /\ worker[v].r \in Resources
        /\ drive[worker[v].r].state = "Leased"
    BY <1>5 DEF LeasesAgree
  <2>2. drive[worker[v].r].version = op[worker[v].r].version
    BY <2>1 DEF DriveIsCurrent, IsActive
  <2>3. QED
    BY <1>4, <2>1, <2>2
<1>10. LeasesAgree'
  BY <1>1, <1>5, <1>9 DEF LeasesAgree
<1>11. QED
  BY <1>6, <1>7, <1>8, <1>10


\* A crash returns the message to the outbox.
LEMMA CrashStep ==
  ASSUME IInv, NEW w \in Workers, Crash(w) PROVE IInv'
<1> USE DEF IInv
<1> DEFINE r == worker[w].r
<1>1. /\ worker[w].job # "idle" /\ BecomeIdle(w) /\ r \in Resources
      /\ res' = res /\ op' = op /\ waits' = waits /\ changes' \in 0..MaxChanges
  BY ChangeBound DEF Crash, LeasesAgree
<1>2. /\ worker' \in [Workers -> [job: Jobs, r: Resources \cup {Nobody}, page: SUBSET Waits]]
      /\ worker'[w].job = "idle" /\ \A v \in Workers \ {w} : worker'[v] = worker[v]
  BY <1>1, IdleFields
<1>3. CASE /\ worker[w].job # "drive" /\ drive' = drive
           /\ wake' = [wake EXCEPT ![r].state = "Pending"]
  <2>1. TypeOK'
    BY <1>1, <1>2, <1>3 DEF TypeOK
  <2>2. QED
    BY <1>1, <1>2, <1>3, <2>1, OtherRowsStep
<1>4. CASE /\ worker[w].job = "drive" /\ wake' = wake
           /\ drive' = [drive EXCEPT ![r].state = "Pending"]
  <2>0. drive \in [Resources -> [state: {"Pending", "Leased", "Completed"}, version: Nat]]
        /\ drive' = [drive EXCEPT ![r].state = "Pending"] /\ r \in Resources
    BY <1>1, <1>4 DEF TypeOK
  <2>1. /\ drive' \in [Resources -> [state: {"Pending", "Leased", "Completed"}, version: Nat]]
        /\ drive'[r].state = "Pending" /\ drive'[r].version = drive[r].version
        /\ \A s \in Resources \ {r} : drive'[s] = drive[s]
    BY ONLY <2>0
  <2>2. IsActive(drive[r]) /\ \A v \in Workers \ {w} : worker[v].job = "drive" => worker[v].r # r
    BY <1>1, <1>4 DEF LeasesAgree, IsActive
  <2> HIDE DEF r
  <2>3. TypeOK' /\ NoOrphanWait'
    BY <1>1, <1>2, <1>4, <2>1 DEF TypeOK, NoOrphanWait
  <2>4. DriveIsCurrent'
    BY <1>1, <2>1, <2>2 DEF DriveIsCurrent, IsActive
  <2>5. LeasesAgree'
    BY <1>2, <2>1, <2>2 DEF LeasesAgree
  <2>6. QED
    BY <2>3, <2>4, <2>5
<1>5. QED
  BY <1>3, <1>4 DEF Crash

\* A dispatched operation ends: it holds no wait rows and no Drive.
LEMMA FinishStep ==
  ASSUME IInv, NEW r \in Resources, NEW succeeded \in BOOLEAN, Finish(r, succeeded) PROVE IInv'
<1> USE DEF IInv
<1> DEFINE rows == DeleteDependencyWaits(r)
           y == [state |-> IF succeeded THEN "Ready" ELSE FailedState(r),
                 reconciled |-> succeeded, version |-> res[r].version + 1]
<1>1. /\ op[r].phase = "Applying"
      /\ op' = [op EXCEPT ![r].phase = "Done", ![r].version = @ + 1]
      /\ res' = [res EXCEPT ![r] = y]
      /\ waits' = rows
      /\ wake' = EnqueueWakeDependentsIfWaited(rows, r, res[r].version + 1)
      /\ drive' = drive /\ worker' = worker /\ changes' = changes
  BY DEF Finish
<1>2. res[r].version + 1 \in Nat /\ op[r].version + 1 \in Nat
  BY RowTypes
<1>3. y \in [state: ResourceStates, reconciled: BOOLEAN, version: Nat]
  <2>1. (IF succeeded THEN "Ready" ELSE FailedState(r)) \in ResourceStates
    BY DEF FailedState, ResourceStates
  <2>2. QED
    BY <1>2, <2>1
<1> HIDE DEF y
<1>4. res' \in [Resources -> [state: ResourceStates, reconciled: BOOLEAN, version: Nat]]
  BY <1>1, <1>3 DEF TypeOK
<1>5. /\ op' \in [Resources -> [id: Nat, cap: Capabilities, phase: OpPhases, version: Nat]]
      /\ \A s \in Resources \ {r} : op'[s] = op[s]
  <2> DEFINE o == [op[r] EXCEPT !.phase = "Done", !.version = @ + 1]
  <2>1. /\ op \in [Resources -> [id: Nat, cap: Capabilities, phase: OpPhases, version: Nat]]
        /\ "Done" \in OpPhases
    BY DEF TypeOK, OpPhases
  <2>2. op' = [op EXCEPT ![r] = o]
    BY <1>1
  <2>3. o \in [id: Nat, cap: Capabilities, phase: OpPhases, version: Nat]
    BY <1>2, <2>1
  <2> HIDE DEF o
  <2>4. QED
    BY <2>1, <2>2, <2>3
<1>6. wake' \in [Resources -> [state: {"Pending", "Leased", "Completed"}, expected: Nat]]
  <2>1. wake \in [Resources -> [state: {"Pending", "Leased", "Completed"}, expected: Nat]]
    BY DEF TypeOK
  <2>2. wake' = wake \/ wake' = EnqueueWakeDependents(wake, r, res[r].version + 1)
    BY <1>1 DEF EnqueueWakeDependentsIfWaited
  <2>3. r \in Resources /\ res[r].version + 1 \in Nat
    BY <1>2
  <2>4. EnqueueWakeDependents(wake, r, res[r].version + 1) \in
          [Resources -> [state: {"Pending", "Leased", "Completed"}, expected: Nat]]
    BY ONLY <2>1, <2>3, EnqueueFields
  <2>5. QED
    BY ONLY <2>1, <2>2, <2>4
<1>7. waits' \subseteq waits /\ \A x \in waits' : x.r # r
  BY <1>1 DEF DeleteDependencyWaits
<1>8. TypeOK'
  BY <1>1, <1>4, <1>5, <1>6, <1>7 DEF TypeOK
<1>9. ~IsActive(drive[r])
  BY <1>1 DEF DriveIsCurrent
<1>10. DriveIsCurrent'
  BY <1>1, <1>5, <1>9 DEF DriveIsCurrent
<1>11. NoOrphanWait'
  <2>1. \A x \in waits' : x.r \in Resources \ {r}
    BY <1>7 DEF TypeOK, Waits
  <2>2. QED
    BY <1>5, <1>7, <2>1 DEF NoOrphanWait
<1>12. LeasesAgree'
  BY <1>1 DEF LeasesAgree
<1>13. QED
  BY <1>8, <1>10, <1>11, <1>12

\* A new operation finds neither Drive nor wait rows of the one before it.
LEMMA AdmitStep ==
  ASSUME IInv, NEW r \in Resources, AdmitOperation(r) PROVE IInv'
<1> USE DEF IInv
<1> DEFINE cap == IF res[r].state = "Failed" THEN "create" ELSE "update"
           o == [id |-> op[r].id + 1, cap |-> cap, phase |-> "Planning", version |-> 1]
           y == [state |-> IF cap = "create" THEN "Pending" ELSE "Ready",
                 reconciled |-> FALSE, version |-> res[r].version + 1]
           d == [state |-> "Pending", version |-> 1]
<1>1. /\ op[r].phase = "Done" /\ op' = [op EXCEPT ![r] = o] /\ res' = [res EXCEPT ![r] = y]
      /\ drive' = [drive EXCEPT ![r] = d] /\ changes' \in 0..MaxChanges
      /\ waits' = waits /\ wake' = wake /\ worker' = worker
  BY ChangeBound DEF AdmitOperation, HasActiveOperation
<1>2. op[r].id + 1 \in Nat /\ res[r].version + 1 \in Nat
  BY RowTypes
<1>3. /\ o \in [id: Nat, cap: Capabilities, phase: OpPhases, version: Nat]
      /\ o.phase = "Planning" /\ o.version = 1
  BY <1>2 DEF Capabilities, OpPhases
<1>4. y \in [state: ResourceStates, reconciled: BOOLEAN, version: Nat]
  BY <1>2 DEF ResourceStates
<1>5. /\ d \in [state: {"Pending", "Leased", "Completed"}, version: Nat]
      /\ d.version = 1
  OBVIOUS
<1> HIDE DEF o, y, d
<1>6. /\ op' \in [Resources -> [id: Nat, cap: Capabilities, phase: OpPhases, version: Nat]]
      /\ res' \in [Resources -> [state: ResourceStates, reconciled: BOOLEAN, version: Nat]]
      /\ drive' \in [Resources -> [state: {"Pending", "Leased", "Completed"}, version: Nat]]
      /\ op'[r] = o /\ drive'[r] = d
      /\ \A s \in Resources \ {r} : op'[s] = op[s] /\ drive'[s] = drive[s]
  BY <1>1, <1>3, <1>4, <1>5 DEF TypeOK
<1>7. TypeOK'
  BY <1>1, <1>6 DEF TypeOK
<1>8. DriveIsCurrent'
  BY <1>3, <1>5, <1>6 DEF DriveIsCurrent
<1>9. NoOrphanWait'
  <2>1. \A x \in waits : x.r \in Resources \ {r}
    BY <1>1 DEF TypeOK, Waits, NoOrphanWait
  <2>2. QED
    BY <1>1, <1>6, <2>1 DEF NoOrphanWait
<1>10. \A w \in Workers : worker[w].job = "drive" => worker[w].r # r
  BY <1>1 DEF LeasesAgree, DriveIsCurrent, IsActive
<1>11. LeasesAgree'
  BY <1>1, <1>6, <1>10 DEF LeasesAgree
<1>12. QED
  BY <1>7, <1>8, <1>9, <1>11

\* Facts about a resource without active operation.
LEMMA PassiveObserveStep ==
  ASSUME IInv, NEW r \in Resources, PassiveObserve(r) PROVE IInv'
<1> USE DEF IInv
<1>1. /\ wake' = EnqueueWakeDependentsIfWaited(waits, r, res[r].version + 1)
      /\ op' = op /\ drive' = drive /\ waits' = waits /\ worker' = worker
      /\ changes' \in 0..MaxChanges
  BY ChangeBound DEF PassiveObserve
<1>2. PICK state \in {"Ready", "Unknown"}, inSync \in BOOLEAN :
        res' = [res EXCEPT ![r] = [state |-> state, reconciled |-> @.reconciled /\ inSync,
                                   version |-> @.version + 1]]
  BY DEF PassiveObserve
<1>3. res[r].version + 1 \in Nat
  BY RowTypes
<1>4. res' \in [Resources -> [state: ResourceStates, reconciled: BOOLEAN, version: Nat]]
  <2> DEFINE b == res[r].reconciled /\ inSync
             y == [state |-> state, reconciled |-> b, version |-> res[r].version + 1]
  <2>1. b \in BOOLEAN
    OBVIOUS
  <2>2. res' = [res EXCEPT ![r] = y]
    BY <1>2
  <2> HIDE DEF b
  <2>3. y \in [state: ResourceStates, reconciled: BOOLEAN, version: Nat]
    BY <1>3, <2>1 DEF ResourceStates
  <2> HIDE DEF y
  <2>4. QED
    BY <2>2, <2>3 DEF TypeOK
<1>5. wake' \in [Resources -> [state: {"Pending", "Leased", "Completed"}, expected: Nat]]
  <2>1. wake \in [Resources -> [state: {"Pending", "Leased", "Completed"}, expected: Nat]]
    BY DEF TypeOK
  <2>2. wake' = wake \/ wake' = EnqueueWakeDependents(wake, r, res[r].version + 1)
    BY <1>1 DEF EnqueueWakeDependentsIfWaited
  <2>3. r \in Resources /\ res[r].version + 1 \in Nat
    BY <1>3
  <2>4. EnqueueWakeDependents(wake, r, res[r].version + 1) \in
          [Resources -> [state: {"Pending", "Leased", "Completed"}, expected: Nat]]
    BY ONLY <2>1, <2>3, EnqueueFields
  <2>5. QED
    BY ONLY <2>1, <2>2, <2>4
<1>6. TypeOK'
  BY <1>1, <1>4, <1>5 DEF TypeOK
<1>7. QED
  BY <1>1, <1>6, OtherRowsStep

-----------------------------------------------------------------------------
(* The rows of the gate. *)

\* Every resource was created with its operation and first Drive.
LEMMA Initially == Init => IInv
<1> SUFFICES ASSUME Init PROVE IInv
  OBVIOUS
<1>1. TypeOK
  BY DependenciesAssumption DEF Init, TypeOK, ResourceStates, Capabilities, OpPhases, Jobs
<1>2. LeasesAgree /\ DriveIsCurrent /\ NoOrphanWait
  BY DEF Init, LeasesAgree, DriveIsCurrent, NoOrphanWait
<1>3. QED
  BY <1>1, <1>2 DEF IInv

\* Every step of the gate, of the wakes and of the targets.
LEMMA Inductive == IInv /\ [Next]_vars => IInv'
<1> SUFFICES ASSUME IInv, [Next]_vars PROVE IInv'
  OBVIOUS
<1>1. CASE UNCHANGED vars
  <2>1. TypeOK' /\ UNCHANGED <<op, drive, waits, worker>>
    BY <1>1 DEF vars, IInv, TypeOK
  <2>2. QED
    BY <2>1, OtherRowsStep
<1>2. ASSUME NEW w \in Workers, WorkerStep(w) PROVE IInv'
  BY <1>2, ClaimDriveStep, ClaimWakeStep, DriveStep, PageStep, RevalidateStep, FinalizeStep
     DEF WorkerStep
<1>3. QED
  BY <1>1, <1>2, CrashStep, FinishStep, AdmitStep, PassiveObserveStep DEF Next

\* What every reachable state of the gate's rows has in common.
LEMMA Invariant == Spec => []IInv
BY Initially, Inductive, PTL DEF Spec

\* In every reference graph, a Drive is only ever active for the version its
\* operation has now, and every wait row belongs to an operation that is still
\* at the gate (drive, revalidateWaiter, RegisterDependencyWaits).
THEOREM GateRowsAreCurrent == Spec => []GateRowsCurrent
<1>1. IInv => GateRowsCurrent
  BY DEF IInv, GateRowsCurrent
<1>2. QED
  BY <1>1, Invariant, PTL


-----------------------------------------------------------------------------
(* The loop over the targets of an operation. *)

\* Every non-empty set of naturals has a least member.
LEMMA LeastNatural ==
  ASSUME NEW T, T \subseteq Nat, T # {}
  PROVE  \E x \in T : \A y \in T : x <= y
<1> SUFFICES ASSUME NEW R, IsWellFoundedOn(R, Nat), \A x, y \in Nat : x < y => <<x, y>> \in R
             PROVE  \E x \in T : \A y \in T : x <= y
  <2> DEFINE L == OpToRel(<, Nat)
  <2>1. IsWellFoundedOn(L, Nat)
    BY NatLessThanWellFounded, Zenon
  <2>2. \A x, y \in Nat : x < y => <<x, y>> \in L
    BY DEF OpToRel
  <2> HIDE DEF L
  <2>3. QED
    BY <2>1, <2>2, Zenon
<1>1. \E x \in T : \A y \in T : ~ (<<y, x>> \in R)
  <2>1. IsWellFoundedOn(R, Nat) /\ T \subseteq Nat /\ T # {}
    OBVIOUS
  <2>2. QED
    BY ONLY <2>1, WFMin
<1>2. PICK x \in T : \A y \in T : ~ (<<y, x>> \in R)
  BY <1>1
<1>3. ASSUME NEW y \in T PROVE x <= y
  <2>1. y \in Nat /\ x \in Nat
    OBVIOUS
  <2>2. ~ (y < x)
    BY <1>2, <2>1, Zenon
  <2>3. QED
    BY <2>1, <2>2
<1>4. QED
  BY <1>3

Classes == {"INVALID", "TERMINAL", "READY", "WAIT"}

\* A loop of n rounds, each of which computes a class from the one before it,
\* has a trace.
LEMMA LoopTrace ==
  ASSUME NEW n \in Nat, NEW T \in [1..n -> [Classes -> Classes]]
  PROVE  \E f \in [0..n -> Classes] : f[0] = "READY" /\ \A i \in 1..n : f[i] = T[i][f[i - 1]]
<1> DEFINE Traced(k) == \E f \in [0..k -> Classes] : f[0] = "READY" /\ \A i \in 1..k : f[i] = T[i][f[i - 1]]
           S == {k \in 0..n : ~Traced(k)}
<1>1. CASE S = {}
  <2>1. n \in 0..n
    OBVIOUS
  <2> HIDE DEF Traced
  <2>2. Traced(n)
    BY <1>1, <2>1
  <2>3. QED
    BY <2>2 DEF Traced
<1>2. CASE S # {}
  <2>1. PICK k \in S : \A j \in S : k <= j
    <3>1. S \subseteq Nat
      OBVIOUS
    <3> HIDE DEF S
    <3>2. QED
      BY <1>2, <3>1, LeastNatural
  <2>2. k # 0
    <3>1. [i \in 0..0 |-> "READY"] \in [0..0 -> Classes] /\ [i \in 0..0 |-> "READY"][0] = "READY"
      BY DEF Classes
    <3>2. 1..0 = {}
      OBVIOUS
    <3>3. Traced(0)
      BY <3>1, <3>2
    <3>4. QED
      BY <2>1, <3>3
  <2>3. k \in 1..n /\ k - 1 \in 0..n /\ k - 1 \notin S
    <3>1. k \in 0..n
      OBVIOUS
    <3> HIDE DEF S
    <3>2. k \in 1..n /\ k - 1 \in 0..n /\ ~(k <= k - 1)
      BY <2>2, <3>1
    <3>3. QED
      BY <2>1, <3>2
  <2>4. PICK f \in [0..(k - 1) -> Classes] : f[0] = "READY" /\ \A i \in 1..(k - 1) : f[i] = T[i][f[i - 1]]
    BY <2>3
  <2> DEFINE g == [i \in 0..k |-> IF i = k THEN T[k][f[k - 1]] ELSE f[i]]
  <2>5. f[k - 1] \in Classes /\ T[k][f[k - 1]] \in Classes
    BY <2>3
  <2>6. g \in [0..k -> Classes]
    BY <2>3, <2>5
  <2>7. g[0] = "READY"
    BY <2>3, <2>4
  <2>8. ASSUME NEW i \in 1..k PROVE g[i] = T[i][g[i - 1]]
    <3>1. CASE i = k
      BY <2>3, <3>1
    <3>2. CASE i # k
      BY <2>3, <2>4, <3>2
    <3>3. QED
      BY <3>1, <3>2
  <2> HIDE DEF g
  <2>9. Traced(k)
    BY <2>6, <2>7, <2>8
  <2>10. QED
    BY <2>1, <2>9
<1>3. QED
  BY <1>1, <1>2

\* The classes that EvaluateDependencies goes through, target by target.
LEMMA GateTrace ==
  ASSUME NEW r \in Resources
  PROVE  \E f :
           /\ f[0] = "READY"
           /\ \A i \in 1..Len(Refs[r]) :
                LET c == ClassifyDependency(Refs[r][i])
                IN  f[i] = IF c = "READY" \/ (c = "TERMINAL" /\ f[i - 1] = "INVALID")
                           THEN f[i - 1] ELSE c
           /\ EvaluateDependencies(r) = f[Len(Refs[r])]
<1> DEFINE n == Len(Refs[r])
           c(i) == ClassifyDependency(Refs[r][i])
           T == [i \in 1..n |-> [b \in Classes |->
                   IF c(i) = "READY" \/ (c(i) = "TERMINAL" /\ b = "INVALID") THEN b ELSE c(i)]]
           Body(f) == [i \in 0..n |->
                         IF i = 0 THEN "READY"
                         ELSE IF c(i) = "READY" \/ (c(i) = "TERMINAL" /\ f[i - 1] = "INVALID")
                              THEN f[i - 1] ELSE c(i)]
           class == CHOOSE f : f = Body(f)
<1>1. n \in Nat
  BY DependenciesAssumption
<1>2. \A t : ClassifyDependency(t) \in Classes
  BY DEF ClassifyDependency, Classes
<1>3. EvaluateDependencies(r) = class[n]
  BY Zenon DEF EvaluateDependencies
<1>4. PICK f \in [0..n -> Classes] : f[0] = "READY" /\ \A i \in 1..n : f[i] = T[i][f[i - 1]]
  <2>1. T \in [1..n -> [Classes -> Classes]]
    BY <1>2
  <2> HIDE DEF T, n
  <2>2. QED
    BY <1>1, <2>1, LoopTrace
<1>5. f = Body(f)
  <2>1. ASSUME NEW i \in 1..n
        PROVE  f[i] = IF c(i) = "READY" \/ (c(i) = "TERMINAL" /\ f[i - 1] = "INVALID")
                      THEN f[i - 1] ELSE c(i)
    <3>1. f[i - 1] \in Classes
      BY <1>1
    <3>2. QED
      BY <1>4, <3>1
  <2> HIDE DEF c, T
  <2>2. QED
    BY <1>1, <1>4, <2>1
<1>6. class = Body(class)
  <2> HIDE DEF Body
  <2>1. QED
    BY <1>5, Zenon
<1>7. class[0] = "READY" /\ \A i \in 1..n : class[i] =
        IF c(i) = "READY" \/ (c(i) = "TERMINAL" /\ class[i - 1] = "INVALID") THEN class[i - 1] ELSE c(i)
  <2> HIDE DEF class, c
  <2>1. QED
    BY <1>1, <1>6
<1>8. QED
  BY <1>3, <1>7, Zenon


\* An operation without targets passes the gate.
LEMMA EmptyGate ==
  ASSUME NEW r \in Resources, Refs[r] = <<>> PROVE EvaluateDependencies(r) = "READY"
<1>1. Len(Refs[r]) = 0
  OBVIOUS
<1>2. QED
  BY <1>1, GateTrace

\* A target that makes an operation wait is only overruled by a later one.
LEMMA GateOverrules ==
  ASSUME NEW r \in Resources, NEW j \in 1..Len(Refs[r]),
         ClassifyDependency(Refs[r][j]) = "WAIT", EvaluateDependencies(r) # "WAIT"
  PROVE  \E i \in j + 1 .. Len(Refs[r]) : ClassifyDependency(Refs[r][i]) \in {"TERMINAL", "INVALID"}
<1> DEFINE n == Len(Refs[r])
           c(i) == ClassifyDependency(Refs[r][i])
<1>1. n \in Nat
  BY DependenciesAssumption
<1>2. PICK f : /\ f[0] = "READY"
               /\ \A i \in 1..n : f[i] = IF c(i) = "READY" \/ (c(i) = "TERMINAL" /\ f[i - 1] = "INVALID")
                                         THEN f[i - 1] ELSE c(i)
               /\ EvaluateDependencies(r) = f[n]
  BY GateTrace
<1>3. \A i : c(i) \in Classes
  BY DEF ClassifyDependency, Classes
<1>4. j \in 1..n /\ c(j) = "WAIT"
  OBVIOUS
<1> HIDE DEF n, c
<1> DEFINE S == {i \in j..n : f[i] # "WAIT"}
<1>5. PICK m \in S : \A i \in S : m <= i
  <2>1. S \subseteq Nat /\ n \in S
    BY <1>1, <1>2, <1>4
  <2> HIDE DEF S
  <2>2. QED
    BY <2>1, LeastNatural
<1>6. m \in j + 1 .. n /\ f[m - 1] = "WAIT"
  <2>1. f[j] = "WAIT"
    BY <1>2, <1>4
  <2>2. m \in j..n /\ m # j
    BY <2>1
  <2>3. m - 1 \in j..n /\ ~(m <= m - 1)
    BY <1>1, <1>4, <2>2
  <2>4. m - 1 \notin S
    <3> HIDE DEF S
    <3>1. QED
      BY <1>5, <2>3
  <2>5. QED
    BY <1>1, <1>4, <2>2, <2>3, <2>4
<1>7. c(m) \in {"TERMINAL", "INVALID"}
  <2>1. m \in 1..n /\ f[m] # "WAIT"
    BY <1>1, <1>4, <1>6
  <2>2. QED
    BY <1>2, <1>3, <1>6, <2>1 DEF Classes
<1>8. QED
  BY <1>6, <1>7 DEF n, c

\* The target that makes an operation wait is followed by no failed one.
LEMMA GateWaitsFor ==
  ASSUME NEW r \in Resources, EvaluateDependencies(r) = "WAIT"
  PROVE  \E j \in 1..Len(Refs[r]) :
           /\ ClassifyDependency(Refs[r][j]) = "WAIT"
           /\ \A i \in j + 1 .. Len(Refs[r]) : ClassifyDependency(Refs[r][i]) # "TERMINAL"
<1> DEFINE n == Len(Refs[r])
           c(i) == ClassifyDependency(Refs[r][i])
<1>1. n \in Nat
  BY DependenciesAssumption
<1>2. PICK f : /\ f[0] = "READY"
               /\ \A i \in 1..n : f[i] = IF c(i) = "READY" \/ (c(i) = "TERMINAL" /\ f[i - 1] = "INVALID")
                                         THEN f[i - 1] ELSE c(i)
               /\ EvaluateDependencies(r) = f[n]
  BY GateTrace
<1> HIDE DEF n, c
<1> DEFINE S == {k \in 0..n : \A i \in k..n : f[i] = "WAIT"}
<1>3. PICK m \in S : \A k \in S : m <= k
  <2>1. S \subseteq Nat /\ n \in S
    <3>1. \A i \in n..n : i = n
      BY <1>1
    <3>2. QED
      BY <1>1, <1>2, <3>1
  <2> HIDE DEF S
  <2>2. QED
    BY <2>1, LeastNatural
<1>4. m \in 1..n
  BY <1>1, <1>2
<1>5. \A i \in m..n : f[i] = "WAIT"
  OBVIOUS
<1>6. f[m - 1] # "WAIT"
  <2>1. m - 1 \in 0..n /\ ~(m <= m - 1)
    BY <1>1, <1>4
  <2>2. m - 1 \notin S
    <3> HIDE DEF S
    <3>1. QED
      BY <1>3, <2>1
  <2>3. PICK i \in (m - 1)..n : f[i] # "WAIT"
    BY <2>1, <2>2
  <2>4. i = m - 1
    BY <1>1, <1>4, <1>5, <2>3
  <2>5. QED
    BY <2>3, <2>4
<1> HIDE DEF S
<1>7. c(m) = "WAIT"
  <2>1. f[m] = "WAIT"
    BY <1>1, <1>4, <1>5
  <2>2. QED
    BY <1>2, <1>4, <1>6, <2>1
<1>8. ASSUME NEW i \in m + 1 .. n PROVE c(i) # "TERMINAL"
  <2>1. f[i] = "WAIT" /\ f[i - 1] = "WAIT" /\ i \in 1..n
    BY <1>1, <1>4, <1>5
  <2>2. QED
    BY <1>2, <2>1
<1>9. QED
  BY <1>4, <1>7, <1>8 DEF n, c

-----------------------------------------------------------------------------
(* The wake protocol, where targets have no references of their own.  (Where *)
(* they have, a target that fails at its own gate wakes nobody, and the      *)
(* statement is false.)                                                      *)

\* Targets need no targets.
Flat == \A r \in Resources : \A t \in Targets(r) : Refs[t] = <<>>

\* What a resource without active operation, being created or updated, can be.
StatesAgree ==
  \A r \in Resources :
    IF HasActiveOperation(r)
    THEN \/ op[r].cap = "create" /\ res[r].state = "Pending"
         \/ op[r].cap = "update" /\ res[r].state = "Ready"
    ELSE res[r].state \in {"Ready", "Failed", "Unknown"}

\* The Drive that an operation at the gate has given up is spent.
DrivesSpent == \A r \in Resources : Blocked(r) => drive[r].version < op[r].version

Waking(w) == worker[w].job \in {"page", "revalidate", "finalize"}

\* A wake is leased to one worker, and is not ahead of its target.
WakesAgree ==
  /\ \A r \in Resources : wake[r].expected <= res[r].version
  /\ \A w \in Workers : Waking(w) => wake[worker[w].r].state = "Leased"
  /\ \A v, w \in Workers : Waking(v) /\ Waking(w) /\ worker[v].r = worker[w].r => v = w

\* The current wait row of r for t, if there is one.
Row(r, t) == [r |-> r, id |-> op[r].id, target |-> t, version |-> op[r].version]

Waiting(r) == Blocked(r) /\ \E t \in Resources : Row(r, t) \in waits

\* A waiting operation has a row for every target that could still fail.
RowsComplete ==
  /\ \A x \in waits : x.target \in Targets(x.r)
  /\ \A r \in Resources : Waiting(r) =>
       \A t \in Targets(r) : Row(r, t) \in waits \/ res[t].state \in {"Ready", "Unknown"}

\* A wake of t is under way that will yet look at the wait row x.
Covered(x) ==
  /\ IsActive(wake[x.target])
  /\ \/ wake[x.target].state = "Pending"
     \/ res[x.target].version # wake[x.target].expected
     \/ \E w \in Workers : /\ worker[w].r = x.target
                           /\ \/ worker[w].job = "page"
                              \/ worker[w].job = "revalidate" /\ x \in worker[w].page

\* The j-th target keeps r waiting: its wake is under way, or it has not
\* converged, and later targets that have failed are waking r.
Holds(r, j) ==
  /\ Row(r, Refs[r][j]) \in waits
  /\ \/ Covered(Row(r, Refs[r][j]))
     \/ /\ ClassifyDependency(Refs[r][j]) = "WAIT"
        /\ \A i \in j + 1 .. Len(Refs[r]) :
             ClassifyDependency(Refs[r][i]) = "TERMINAL" =>
               Row(r, Refs[r][i]) \in waits /\ Covered(Row(r, Refs[r][i]))

SomethingHolds == \A r \in Resources : Waiting(r) => \E j \in 1..Len(Refs[r]) : Holds(r, j)

WInv == IInv /\ StatesAgree /\ DrivesSpent /\ WakesAgree /\ RowsComplete /\ SomethingHolds


-----------------------------------------------------------------------------
(* What a waiting operation relies on. *)

\* The positions of the targets.
LEMMA TargetAt ==
  ASSUME NEW r \in Resources
  PROVE  /\ \A j \in 1..Len(Refs[r]) : Refs[r][j] \in Targets(r)
         /\ \A t \in Targets(r) : \E j \in 1..Len(Refs[r]) : Refs[r][j] = t
         /\ Targets(r) \subseteq Resources
<1>1. Refs[r] \in Seq(Resources)
  BY DependenciesAssumption
<1>2. QED
  BY <1>1 DEF Targets, ToSet

\* No target is ever invalid, and only a failed one is terminal.
LEMMA TargetClasses ==
  ASSUME StatesAgree, NEW t \in Resources
  PROVE  /\ ClassifyDependency(t) # "INVALID"
         /\ ClassifyDependency(t) = "TERMINAL" <=> res[t].state = "Failed"
         /\ HasActiveOperation(t) => ClassifyDependency(t) = "WAIT"
BY DEF StatesAgree, ClassifyDependency

\* The same after a step.
LEMMA TargetClassesNext ==
  ASSUME StatesAgree', NEW t \in Resources
  PROVE  /\ ClassifyDependency(t)' = "TERMINAL" <=> res'[t].state = "Failed"
         /\ HasActiveOperation(t)' => ClassifyDependency(t)' = "WAIT"
BY DEF StatesAgree, ClassifyDependency, HasActiveOperation

\* The fields of a row.
LEMMA RowFields ==
  ASSUME NEW r, NEW t
  PROVE  /\ Row(r, t).r = r /\ Row(r, t).target = t
         /\ Row(r, t).id = op[r].id /\ Row(r, t).version = op[r].version
BY DEF Row

\* An operation that stays blocked with its rows keeps being held, when its
\* targets settle only under a wake and no wake is dropped.
LEMMA StillWaiting ==
  ASSUME WInv, NEW r \in Resources, Blocked(r), Waiting(r)', op'[r] = op[r],
         \A t \in Resources : Row(r, t) \in waits' <=> Row(r, t) \in waits,
         \A x \in waits : x.r = r /\ Covered(x) => Covered(x)',
         \A t \in Targets(r) :
           /\ res[t].state \in {"Ready", "Unknown"} => res'[t].state \in {"Ready", "Unknown"}
           /\ \/ ClassifyDependency(t) = "WAIT" => ClassifyDependency(t)' = "WAIT"
              \/ \A x \in waits : x.r = r /\ x.target = t => Covered(x)'
           /\ \/ ClassifyDependency(t)' = "TERMINAL" => ClassifyDependency(t) = "TERMINAL"
              \/ Row(r, t) \in waits /\ \A x \in waits : x.r = r /\ x.target = t => Covered(x)'
  PROVE  /\ \A t \in Targets(r) : Row(r, t)' \in waits' \/ res'[t].state \in {"Ready", "Unknown"}
         /\ \E j \in 1..Len(Refs[r]) : Holds(r, j)'
<1>1. \A t : Row(r, t)' = Row(r, t)
  BY DEF Row
<1>2. Waiting(r)
  BY <1>1 DEF Waiting
<1>3. Targets(r) \subseteq Resources
  BY TargetAt
<1>4. ASSUME NEW t \in Targets(r) PROVE Row(r, t)' \in waits' \/ res'[t].state \in {"Ready", "Unknown"}
  BY <1>1, <1>2, <1>3 DEF WInv, RowsComplete
<1>5. PICK j \in 1..Len(Refs[r]) : Holds(r, j)
  BY <1>2 DEF WInv, SomethingHolds
<1>6. \A i \in 1..Len(Refs[r]) : Refs[r][i] \in Targets(r) /\ Refs[r][i] \in Resources
  BY <1>3, TargetAt
<1>7. ASSUME NEW t \in Targets(r), Row(r, t) \in waits, Covered(Row(r, t))
      PROVE  Row(r, t)' \in waits' /\ Covered(Row(r, t))'
  <2>1. PICK x \in waits : x = Row(r, t)
    BY <1>7
  <2>2. x.r = r
    BY <2>1, RowFields
  <2>3. Covered(x)
    BY <1>7, <2>1
  <2>4. Covered(x)'
    BY <2>2, <2>3
  <2>5. Row(r, t)' = x
    BY <1>1, <2>1
  <2>6. QED
    BY <1>1, <1>3, <1>7, <2>4, <2>5 DEF Covered
<1>8. ASSUME NEW t \in Targets(r), Row(r, t) \in waits,
             \A x \in waits : x.r = r /\ x.target = t => Covered(x)'
      PROVE  Row(r, t)' \in waits' /\ Covered(Row(r, t))'
  <2>1. PICK x \in waits : x = Row(r, t)
    BY <1>8
  <2>2. x.r = r /\ x.target = t
    BY <2>1, RowFields
  <2>3. Covered(x)'
    BY <1>8, <2>2
  <2>4. Row(r, t)' = x
    BY <1>1, <2>1
  <2>5. QED
    BY <1>1, <1>3, <1>8, <2>3, <2>4 DEF Covered
<1>9. Holds(r, j)'
  <2> DEFINE t == Refs[r][j]
  <2>1. Row(r, t) \in waits
    BY <1>5 DEF Holds
  <2>2. CASE Covered(Row(r, t)) \/ \A x \in waits : x.r = r /\ x.target = t => Covered(x)'
    <3>1. t \in Targets(r)
      BY <1>6
    <3>2. Row(r, t)' \in waits' /\ Covered(Row(r, t))'
      BY <1>7, <1>8, <2>1, <2>2, <3>1
    <3>3. QED
      BY <3>2 DEF Holds
  <2>3. CASE ~(Covered(Row(r, t)) \/ \A x \in waits : x.r = r /\ x.target = t => Covered(x)')
    <3>1. ClassifyDependency(t) = "WAIT"
      BY <1>5, <2>3 DEF Holds
    <3>2. ClassifyDependency(t)' = "WAIT"
      BY <1>6, <2>3, <3>1
    <3>3. Row(r, t)' \in waits'
      BY <1>1, <1>6, <2>1
    <3>4. ASSUME NEW i \in j + 1 .. Len(Refs[r]), ClassifyDependency(Refs[r][i])' = "TERMINAL"
          PROVE  Row(r, Refs[r][i])' \in waits' /\ Covered(Row(r, Refs[r][i]))'
      <4> DEFINE u == Refs[r][i]
      <4>1. i \in 1..Len(Refs[r])
        BY DependenciesAssumption
      <4>2. u \in Targets(r)
        BY <1>6, <4>1
      <4>3. CASE ClassifyDependency(u) = "TERMINAL"
        <5>1. Row(r, u) \in waits /\ Covered(Row(r, u))
          BY <1>5, <2>3, <4>3 DEF Holds
        <5> HIDE DEF u
        <5>2. QED
          BY <1>7, <4>2, <5>1 DEF u
      <4>4. CASE ClassifyDependency(u) # "TERMINAL"
        <5>1. Row(r, u) \in waits /\ \A x \in waits : x.r = r /\ x.target = u => Covered(x)'
          BY <3>4, <4>2, <4>4
        <5>2. QED
          BY <1>8, <4>2, <5>1
      <4>5. QED
        BY <4>3, <4>4
    <3>5. QED
      BY <3>2, <3>3, <3>4 DEF Holds
  <2>4. QED
    BY <2>2, <2>3
<1>10. QED
  BY <1>4, <1>9


\* While no wake message moves, targets only advance and enqueue wakes: a wake
\* under way stays under way.
LEMMA WakesGoOn ==
  ASSUME WInv, TypeOK',
         \A w \in Workers : Waking(w) \/ Waking(w)' => worker'[w] = worker[w],
         \A r \in Resources : res[r].version <= res'[r].version,
         \A r \in Resources : \/ wake'[r] = wake[r]
                              \/ /\ ~IsActive(wake[r])
                                 /\ wake'[r].state = "Pending" /\ wake'[r].expected = res'[r].version
  PROVE  WakesAgree' /\ \A x \in waits : Covered(x) => Covered(x)'
<1> USE DEF WInv, IInv
<1>1. \A r \in Resources : res[r].version \in Nat /\ wake[r].expected \in Nat /\ res'[r].version \in Nat
                           /\ wake[r].expected <= res[r].version
  BY RowTypes DEF TypeOK, WakesAgree
<1>2. ASSUME NEW r \in Resources PROVE wake'[r].expected <= res'[r].version
  BY <1>1
<1>3. ASSUME NEW w \in Workers, Waking(w)' PROVE Waking(w) /\ worker'[w] = worker[w]
  BY <1>3 DEF Waking
<1>4. ASSUME NEW w \in Workers, Waking(w)' PROVE wake'[worker'[w].r].state = "Leased"
  <2>1. worker[w].r \in Resources /\ wake[worker[w].r].state = "Leased"
    BY <1>3, <1>4 DEF LeasesAgree, WakesAgree, Waking
  <2>2. QED
    BY <1>3, <1>4, <2>1 DEF IsActive
<1>5. ASSUME NEW v \in Workers, NEW w \in Workers, Waking(v)', Waking(w)', worker'[v].r = worker'[w].r
      PROVE  v = w
  BY <1>3, <1>5 DEF WakesAgree
<1>6. ASSUME NEW x \in waits, Covered(x) PROVE Covered(x)'
  <2> DEFINE t == x.target
  <2>1. t \in Resources
    BY DEF TypeOK, Waits
  <2>2. wake'[t] = wake[t] /\ IsActive(wake[t])
    BY <1>6, <2>1 DEF Covered
  <2>3. CASE wake[t].state = "Pending" \/ res[t].version # wake[t].expected
    BY <1>1, <2>1, <2>2, <2>3 DEF Covered, IsActive
  <2>4. CASE \E w \in Workers : /\ worker[w].r = t
                                /\ \/ worker[w].job = "page"
                                   \/ worker[w].job = "revalidate" /\ x \in worker[w].page
    <3>1. PICK w \in Workers : /\ worker[w].r = t
                               /\ \/ worker[w].job = "page"
                                  \/ worker[w].job = "revalidate" /\ x \in worker[w].page
      BY <2>4
    <3>2. worker'[w] = worker[w]
      BY <3>1 DEF Waking
    <3>3. QED
      BY <2>2, <3>1, <3>2 DEF Covered, IsActive
  <2>5. QED
    BY <1>6, <2>3, <2>4 DEF Covered
<1>7. QED
  BY <1>2, <1>4, <1>5, <1>6 DEF WakesAgree

\* The waiting operations, one by one.
LEMMA WaitersStep ==
  ASSUME \A x \in waits' : x.target \in Targets(x.r),
         \A r \in Resources : Waiting(r)' =>
            /\ \A t \in Targets(r) : Row(r, t)' \in waits' \/ res'[t].state \in {"Ready", "Unknown"}
            /\ \E j \in 1..Len(Refs[r]) : Holds(r, j)'
  PROVE  RowsComplete' /\ SomethingHolds'
<1>1. RowsComplete'
  BY DEF RowsComplete
<1>2. SomethingHolds'
  BY DEF SomethingHolds
<1>3. QED
  BY <1>1, <1>2

\* A step that moves no row, no wake and no Drive that had been given up.
LEMMA NothingMoves ==
  ASSUME WInv, IInv', UNCHANGED <<res, op, waits, wake>>,
         \A w \in Workers : Waking(w) \/ Waking(w)' => worker'[w] = worker[w],
         \A r \in Resources : Blocked(r)' => Blocked(r) /\ drive'[r] = drive[r]
  PROVE  WInv'
<1>1. StatesAgree'
  BY DEF WInv, StatesAgree, HasActiveOperation
<1>2. DrivesSpent'
  BY DEF WInv, DrivesSpent
<1>3. WakesAgree' /\ \A x \in waits : Covered(x) => Covered(x)'
  <2>1. \A r \in Resources : res[r].version <= res'[r].version
    BY RowTypes DEF WInv, IInv
  <2>2. QED
    BY <2>1, WakesGoOn DEF IInv
<1>4. \A t : ClassifyDependency(t)' = ClassifyDependency(t)
  BY DEF ClassifyDependency, HasActiveOperation
<1>5. ASSUME NEW r \in Resources, Waiting(r)'
      PROVE  /\ \A t \in Targets(r) : Row(r, t)' \in waits' \/ res'[t].state \in {"Ready", "Unknown"}
             /\ \E j \in 1..Len(Refs[r]) : Holds(r, j)'
  <2>1. Blocked(r)
    BY <1>5 DEF Waiting
  <2>2. QED
    BY <1>3, <1>4, <1>5, <2>1, StillWaiting
<1>6. RowsComplete' /\ SomethingHolds'
  BY <1>5, WaitersStep DEF WInv, RowsComplete
<1>7. QED
  BY <1>1, <1>2, <1>3, <1>6 DEF WInv


\* The row of resource s changes: whoever waits for s is woken, unless s does
\* not converge by it, and whoever waits for others is left alone.
LEMMA ResourceMoves ==
  ASSUME WInv, TypeOK', StatesAgree', NEW s \in Resources,
         \A q \in Resources \ {s} : op'[q] = op[q] /\ drive'[q] = drive[q] /\ res'[q] = res[q],
         \A x \in Waits : x.r # s => (x \in waits' <=> x \in waits),
         \A w \in Workers : Waking(w) \/ Waking(w)' => worker'[w] = worker[w],
         res'[s].version > res[s].version,
         \/ wake' = wake /\ (ClassifyDependency(s)' = "WAIT" \/ \A r \in Resources : s \notin Targets(r))
         \/ wake' = EnqueueWakeDependentsIfWaited(waits', s, res'[s].version),
         (\E r \in Resources : s \in Targets(r)) /\ res[s].state \in {"Ready", "Unknown"} =>
           res'[s].state \in {"Ready", "Unknown"}
  PROVE  /\ WakesAgree'
         /\ \A r \in Resources \ {s} : Waiting(r)' =>
              /\ \A t \in Targets(r) : Row(r, t)' \in waits' \/ res'[t].state \in {"Ready", "Unknown"}
              /\ \E j \in 1..Len(Refs[r]) : Holds(r, j)'
<1>1. /\ wake \in [Resources -> [state: {"Pending", "Leased", "Completed"}, expected: Nat]]
      /\ res[s].version \in Nat /\ res'[s].version \in Nat /\ wake[s].expected \in Nat
      /\ wake[s].expected <= res[s].version /\ ~(res'[s].version <= wake[s].expected)
      /\ waits \subseteq Waits /\ waits' \subseteq Waits
  <2>1. res[s].version \in Nat /\ res'[s].version \in Nat /\ wake[s].expected \in Nat
        /\ wake \in [Resources -> [state: {"Pending", "Leased", "Completed"}, expected: Nat]]
        /\ waits \subseteq Waits /\ waits' \subseteq Waits
    BY DEF WInv, IInv, TypeOK
  <2>2. wake[s].expected <= res[s].version
    BY DEF WInv, WakesAgree
  <2>3. QED
    BY <2>1, <2>2
<1>2. /\ \A q \in Resources \ {s} : wake'[q] = wake[q]
      /\ \/ wake'[s] = wake[s]
         \/ ~IsActive(wake[s]) /\ wake'[s].state = "Pending" /\ wake'[s].expected = res'[s].version
      /\ \/ wake' = wake /\ (ClassifyDependency(s)' = "WAIT" \/ \A r \in Resources : s \notin Targets(r))
         \/ \A x \in waits' : x.target = s =>
              IsActive(wake'[s]) /\ (wake'[s].state = "Pending" \/ res'[s].version # wake'[s].expected)
  <2>1. CASE wake' = wake /\ (ClassifyDependency(s)' = "WAIT" \/ \A r \in Resources : s \notin Targets(r))
    BY <2>1
  <2>2. CASE wake' = EnqueueWakeDependentsIfWaited(waits', s, res'[s].version)
    <3>1. CASE ~\E x \in waits' : x.target = s
      <4>1. wake' = wake
        BY <2>2, <3>1 DEF EnqueueWakeDependentsIfWaited
      <4>2. QED
        BY <3>1, <4>1
    <3>2. CASE \E x \in waits' : x.target = s
      <4>1. wake' = EnqueueWakeDependents(wake, s, res'[s].version)
        BY <2>2, <3>2 DEF EnqueueWakeDependentsIfWaited
      <4>2. CASE IsActive(wake[s])
        BY <1>1, <4>1, <4>2 DEF EnqueueWakeDependents
      <4>3. CASE ~IsActive(wake[s])
        <5>1. wake' = [wake EXCEPT ![s] = [state |-> "Pending", expected |-> res'[s].version]]
          BY <1>1, <4>1, <4>3 DEF EnqueueWakeDependents
        <5>2. QED
          BY <1>1, <4>3, <5>1 DEF IsActive
      <4>4. QED
        BY <4>2, <4>3
    <3>3. QED
      BY <3>1, <3>2
  <2>3. QED
    BY <2>1, <2>2
<1>3. WakesAgree' /\ \A x \in waits : Covered(x) => Covered(x)'
  <2>1. \A r \in Resources : res[r].version <= res'[r].version
    <3>1. \A r \in Resources : res[r].version \in Nat
      BY RowTypes DEF WInv, IInv
    <3>2. QED
      BY <1>1, <3>1
  <2>2. \A r \in Resources : \/ wake'[r] = wake[r]
                             \/ /\ ~IsActive(wake[r])
                                /\ wake'[r].state = "Pending" /\ wake'[r].expected = res'[r].version
    BY <1>2
  <2>3. QED
    BY <2>1, <2>2, WakesGoOn
<1>4. ASSUME NEW r \in Resources \ {s}, Waiting(r)'
      PROVE  /\ \A t \in Targets(r) : Row(r, t)' \in waits' \/ res'[t].state \in {"Ready", "Unknown"}
             /\ \E j \in 1..Len(Refs[r]) : Holds(r, j)'
  <2>1. op'[r] = op[r] /\ drive'[r] = drive[r]
    OBVIOUS
  <2>2. Blocked(r)
    BY <1>4, <2>1 DEF Waiting, Blocked
  <2>3. ASSUME NEW t \in Resources PROVE Row(r, t) \in waits' <=> Row(r, t) \in waits
    <3>1. Row(r, t).r # s
      BY RowFields
    <3>2. QED
      BY <1>1, <3>1
  <2>4. Waiting(r)
    <3>1. \A t : Row(r, t)' = Row(r, t)
      BY <2>1 DEF Row
    <3>2. QED
      BY <1>4, <2>2, <2>3, <3>1 DEF Waiting
  <2>5. Targets(r) \subseteq Resources
    BY TargetAt
  <2>6. \A t \in Targets(r) : t # s => ClassifyDependency(t)' = ClassifyDependency(t)
    BY <2>5 DEF ClassifyDependency, HasActiveOperation
  <2>7. \A x \in waits : x.r = r => x \in waits'
    BY <1>1
  <2>8. CASE s \notin Targets(r)
    <3>1. \A t \in Targets(r) : res'[t] = res[t] /\ ClassifyDependency(t)' = ClassifyDependency(t)
      BY <2>5, <2>6, <2>8
    <3>2. QED
      BY <1>3, <1>4, <2>1, <2>2, <2>3, <3>1, StillWaiting
  <2>9. CASE s \in Targets(r) /\ wake' = wake /\ ClassifyDependency(s)' = "WAIT"
    <3>1. \A t \in Targets(r) :
           /\ res[t].state \in {"Ready", "Unknown"} => res'[t].state \in {"Ready", "Unknown"}
           /\ ClassifyDependency(t) = "WAIT" => ClassifyDependency(t)' = "WAIT"
           /\ ClassifyDependency(t)' = "TERMINAL" => ClassifyDependency(t) = "TERMINAL"
      BY <2>5, <2>6, <2>9
    <3>2. QED
      BY <1>3, <1>4, <2>1, <2>2, <2>3, <3>1, StillWaiting
  <2>10. CASE /\ s \in Targets(r)
              /\ \A x \in waits' : x.target = s =>
                   IsActive(wake'[s]) /\ (wake'[s].state = "Pending" \/ res'[s].version # wake'[s].expected)
    <3>1. \A x \in waits : x.r = r /\ x.target = s => Covered(x)'
      BY <2>7, <2>10 DEF Covered
    <3>2. ClassifyDependency(s)' = "TERMINAL" => Row(r, s) \in waits
      <4>1. SUFFICES ASSUME ClassifyDependency(s)' = "TERMINAL" PROVE Row(r, s) \in waits
        OBVIOUS
      <4>2. res'[s].state = "Failed"
        BY <4>1, TargetClassesNext
      <4>3. res[s].state \notin {"Ready", "Unknown"}
        BY <2>10, <4>2
      <4>4. QED
        BY <2>4, <2>10, <4>3 DEF WInv, RowsComplete
    <3>3. \A t \in Targets(r) :
           /\ res[t].state \in {"Ready", "Unknown"} => res'[t].state \in {"Ready", "Unknown"}
           /\ \/ ClassifyDependency(t) = "WAIT" => ClassifyDependency(t)' = "WAIT"
              \/ \A x \in waits : x.r = r /\ x.target = t => Covered(x)'
           /\ \/ ClassifyDependency(t)' = "TERMINAL" => ClassifyDependency(t) = "TERMINAL"
              \/ Row(r, t) \in waits /\ \A x \in waits : x.r = r /\ x.target = t => Covered(x)'
      <4> SUFFICES ASSUME NEW t \in Targets(r)
                   PROVE
           /\ res[t].state \in {"Ready", "Unknown"} => res'[t].state \in {"Ready", "Unknown"}
           /\ \/ ClassifyDependency(t) = "WAIT" => ClassifyDependency(t)' = "WAIT"
              \/ \A x \in waits : x.r = r /\ x.target = t => Covered(x)'
           /\ \/ ClassifyDependency(t)' = "TERMINAL" => ClassifyDependency(t) = "TERMINAL"
              \/ Row(r, t) \in waits /\ \A x \in waits : x.r = r /\ x.target = t => Covered(x)'
        OBVIOUS
      <4>1. CASE t = s
        BY <2>10, <3>1, <3>2, <4>1
      <4>2. CASE t # s
        BY <2>5, <2>6, <4>2
      <4>3. QED
        BY <4>1, <4>2
    <3>4. QED
      BY <1>3, <1>4, <2>1, <2>2, <2>3, <3>3, StillWaiting
  <2>11. QED
    BY <1>2, <2>8, <2>9, <2>10
<1>5. QED
  BY <1>3, <1>4


-----------------------------------------------------------------------------
(* The steps of the targets. *)

\* A target ends its operation and wakes its waiters.
LEMMA FinishWakes ==
  ASSUME WInv, IInv', NEW s \in Resources, NEW succeeded \in BOOLEAN, Finish(s, succeeded) PROVE WInv'
<1> DEFINE state == IF succeeded THEN "Ready" ELSE FailedState(s)
           y == [state |-> state, reconciled |-> succeeded, version |-> res[s].version + 1]
<1>1. /\ op[s].phase = "Applying"
      /\ op' = [op EXCEPT ![s].phase = "Done", ![s].version = @ + 1]
      /\ res' = [res EXCEPT ![s] = y]
      /\ waits' = DeleteDependencyWaits(s)
      /\ wake' = EnqueueWakeDependentsIfWaited(DeleteDependencyWaits(s), s, res[s].version + 1)
      /\ drive' = drive /\ worker' = worker
  BY DEF Finish
<1>2. res \in [Resources -> [state: ResourceStates, reconciled: BOOLEAN, version: Nat]]
      /\ op \in [Resources -> [id: Nat, cap: Capabilities, phase: OpPhases, version: Nat]]
      /\ waits \subseteq Waits
  BY DEF WInv, IInv, TypeOK
<1>3. y.state = state /\ y.version = res[s].version + 1
  OBVIOUS
<1>4. \/ op[s].cap = "create" /\ res[s].state = "Pending" /\ state \in {"Ready", "Failed"}
      \/ op[s].cap = "update" /\ res[s].state = "Ready" /\ state = "Ready"
  BY <1>1 DEF WInv, StatesAgree, HasActiveOperation, FailedState
<1> HIDE DEF y, state
<1>5. /\ res'[s].state = state /\ res'[s].version = res[s].version + 1
      /\ op'[s].phase = "Done"
      /\ \A q \in Resources \ {s} : op'[q] = op[q] /\ drive'[q] = drive[q] /\ res'[q] = res[q]
  BY <1>1, <1>2, <1>3
<1>6. StatesAgree'
  <2> SUFFICES ASSUME NEW r \in Resources
               PROVE  IF op'[r].phase # "Done"
                      THEN \/ op'[r].cap = "create" /\ res'[r].state = "Pending"
                           \/ op'[r].cap = "update" /\ res'[r].state = "Ready"
                      ELSE res'[r].state \in {"Ready", "Failed", "Unknown"}
    BY DEF StatesAgree, HasActiveOperation
  <2>1. CASE r = s
    BY <1>4, <1>5, <2>1
  <2>2. CASE r # s
    BY <1>5, <2>2 DEF WInv, StatesAgree, HasActiveOperation
  <2>3. QED
    BY <2>1, <2>2
<1>7. DrivesSpent'
  BY <1>5 DEF WInv, DrivesSpent, Blocked
<1>8. /\ \A x \in Waits : x.r # s => (x \in waits' <=> x \in waits)
      /\ waits' \subseteq waits
  BY <1>1 DEF DeleteDependencyWaits
<1>9. wake' = EnqueueWakeDependentsIfWaited(waits', s, res'[s].version)
  BY <1>1, <1>5
<1>10. res'[s].version > res[s].version
  BY <1>2, <1>5
<1>11. /\ WakesAgree'
       /\ \A r \in Resources \ {s} : Waiting(r)' =>
            /\ \A t \in Targets(r) : Row(r, t)' \in waits' \/ res'[t].state \in {"Ready", "Unknown"}
            /\ \E j \in 1..Len(Refs[r]) : Holds(r, j)'
  BY <1>1, <1>4, <1>5, <1>6, <1>8, <1>9, <1>10, ResourceMoves DEF IInv
<1>12. ~Waiting(s)'
  BY <1>5 DEF Waiting, Blocked
<1>13. RowsComplete' /\ SomethingHolds'
  <2>1. \A x \in waits' : x.target \in Targets(x.r)
    BY <1>8 DEF WInv, RowsComplete
  <2>2. QED
    BY <1>11, <1>12, <2>1, WaitersStep
<1>14. QED
  BY <1>6, <1>7, <1>11, <1>13 DEF WInv

\* A target is updated or retried: it has not converged.
LEMMA AdmitWakes ==
  ASSUME WInv, IInv', NEW s \in Resources, AdmitOperation(s) PROVE WInv'
<1> DEFINE cap == IF res[s].state = "Failed" THEN "create" ELSE "update"
           state == IF cap = "create" THEN "Pending" ELSE "Ready"
           o == [id |-> op[s].id + 1, cap |-> cap, phase |-> "Planning", version |-> 1]
           y == [state |-> state, reconciled |-> FALSE, version |-> res[s].version + 1]
           d == [state |-> "Pending", version |-> 1]
<1>1. /\ op' = [op EXCEPT ![s] = o] /\ res' = [res EXCEPT ![s] = y]
      /\ drive' = [drive EXCEPT ![s] = d] /\ res[s].state \in {"Ready", "Failed"}
      /\ waits' = waits /\ wake' = wake /\ worker' = worker
  BY DEF AdmitOperation
<1>2. res \in [Resources -> [state: ResourceStates, reconciled: BOOLEAN, version: Nat]]
      /\ op \in [Resources -> [id: Nat, cap: Capabilities, phase: OpPhases, version: Nat]]
      /\ drive \in [Resources -> [state: {"Pending", "Leased", "Completed"}, version: Nat]]
  BY DEF WInv, IInv, TypeOK
<1>3. /\ o.cap = cap /\ o.phase = "Planning" /\ y.state = state /\ y.version = res[s].version + 1
      /\ d.state = "Pending"
      /\ \/ cap = "create" /\ state = "Pending" /\ res[s].state = "Failed"
         \/ cap = "update" /\ state = "Ready" /\ res[s].state = "Ready"
  BY <1>1
<1> HIDE DEF cap, state, o, y, d
<1>4. /\ res'[s].state = state /\ res'[s].version = res[s].version + 1
      /\ op'[s].cap = cap /\ op'[s].phase = "Planning" /\ drive'[s].state = "Pending"
      /\ \A q \in Resources \ {s} : op'[q] = op[q] /\ drive'[q] = drive[q] /\ res'[q] = res[q]
  BY <1>1, <1>2, <1>3
<1>5. StatesAgree'
  <2> SUFFICES ASSUME NEW r \in Resources
               PROVE  IF op'[r].phase # "Done"
                      THEN \/ op'[r].cap = "create" /\ res'[r].state = "Pending"
                           \/ op'[r].cap = "update" /\ res'[r].state = "Ready"
                      ELSE res'[r].state \in {"Ready", "Failed", "Unknown"}
    BY DEF StatesAgree, HasActiveOperation
  <2>1. CASE r = s
    BY <1>3, <1>4, <2>1
  <2>2. CASE r # s
    BY <1>4, <2>2 DEF WInv, StatesAgree, HasActiveOperation
  <2>3. QED
    BY <2>1, <2>2
<1>6. ~Blocked(s)'
  BY <1>4 DEF Blocked, IsActive
<1>7. DrivesSpent'
  BY <1>4, <1>6 DEF WInv, DrivesSpent, Blocked
<1>8. ClassifyDependency(s)' = "WAIT"
  BY <1>4, <1>5, TargetClassesNext DEF HasActiveOperation
<1>9. res'[s].version > res[s].version
  BY <1>2, <1>4
<1>10. /\ WakesAgree'
       /\ \A r \in Resources \ {s} : Waiting(r)' =>
            /\ \A t \in Targets(r) : Row(r, t)' \in waits' \/ res'[t].state \in {"Ready", "Unknown"}
            /\ \E j \in 1..Len(Refs[r]) : Holds(r, j)'
  BY <1>1, <1>3, <1>4, <1>5, <1>8, <1>9, ResourceMoves DEF IInv
<1>11. RowsComplete' /\ SomethingHolds'
  <2>1. \A x \in waits' : x.target \in Targets(x.r)
    BY <1>1 DEF WInv, RowsComplete
  <2>2. ~Waiting(s)'
    BY <1>6 DEF Waiting
  <2>3. QED
    BY <1>10, <2>1, <2>2, WaitersStep
<1>12. QED
  BY <1>5, <1>7, <1>10, <1>11 DEF WInv

\* A target is observed and wakes its waiters.
LEMMA PassiveObserveWakes ==
  ASSUME WInv, IInv', NEW s \in Resources, PassiveObserve(s) PROVE WInv'
<1>1. /\ wake' = EnqueueWakeDependentsIfWaited(waits, s, res[s].version + 1)
      /\ op' = op /\ drive' = drive /\ waits' = waits /\ worker' = worker
      /\ op[s].phase = "Done"
  BY DEF PassiveObserve, HasActiveOperation
<1>2. PICK state \in {"Ready", "Unknown"}, inSync \in BOOLEAN :
        res' = [res EXCEPT ![s] = [state |-> state, reconciled |-> @.reconciled /\ inSync,
                                   version |-> @.version + 1]]
  BY DEF PassiveObserve
<1>3. res \in [Resources -> [state: ResourceStates, reconciled: BOOLEAN, version: Nat]]
  BY DEF WInv, IInv, TypeOK
<1>4. /\ res'[s].state = state /\ res'[s].version = res[s].version + 1
      /\ \A q \in Resources \ {s} : res'[q] = res[q]
  BY <1>2, <1>3
<1>5. StatesAgree'
  <2> SUFFICES ASSUME NEW r \in Resources
               PROVE  IF op'[r].phase # "Done"
                      THEN \/ op'[r].cap = "create" /\ res'[r].state = "Pending"
                           \/ op'[r].cap = "update" /\ res'[r].state = "Ready"
                      ELSE res'[r].state \in {"Ready", "Failed", "Unknown"}
    BY DEF StatesAgree, HasActiveOperation
  <2>1. CASE r = s
    BY <1>1, <1>2, <1>4, <2>1
  <2>2. CASE r # s
    BY <1>1, <1>4, <2>2 DEF WInv, StatesAgree, HasActiveOperation
  <2>3. QED
    BY <2>1, <2>2
<1>6. DrivesSpent'
  BY <1>1 DEF WInv, DrivesSpent, Blocked
<1>7. res'[s].version > res[s].version
  BY <1>3, <1>4
<1>8. /\ WakesAgree'
      /\ \A r \in Resources \ {s} : Waiting(r)' =>
           /\ \A t \in Targets(r) : Row(r, t)' \in waits' \/ res'[t].state \in {"Ready", "Unknown"}
           /\ \E j \in 1..Len(Refs[r]) : Holds(r, j)'
  BY <1>1, <1>2, <1>4, <1>5, <1>7, ResourceMoves DEF IInv
<1>9. RowsComplete' /\ SomethingHolds'
  <2>1. \A x \in waits' : x.target \in Targets(x.r)
    BY <1>1 DEF WInv, RowsComplete
  <2>2. ~Waiting(s)'
    BY <1>1 DEF Waiting, Blocked
  <2>3. QED
    BY <1>8, <2>1, <2>2, WaitersStep
<1>10. QED
  BY <1>5, <1>6, <1>8, <1>9 DEF WInv


\* No target is blocked at a gate of its own.
LEMMA TargetsPass ==
  ASSUME Flat, NEW s \in Resources, EvaluateDependencies(s) # "READY"
  PROVE  \A r \in Resources : s \notin Targets(r)
BY EmptyGate DEF Flat

\* The rows that the gate registers for the targets of s.
LEMMA RegisteredRow ==
  ASSUME NEW s \in Resources, NEW t \in Blocking(s), op'[s].id = op[s].id,
         op'[s].version = op[s].version + 1, waits' = RegisterDependencyWaits(s)
  PROVE  Row(s, t)' \in waits'
<1>1. Row(s, t)' = [r |-> s, id |-> op[s].id, target |-> t, version |-> op[s].version + 1]
  BY DEF Row
<1>2. QED
  BY <1>1 DEF RegisterDependencyWaits

\* An operation that the gate makes wait is held by the target it waits for.
LEMMA WaitsAtGate ==
  ASSUME WInv, Flat, NEW s \in Resources, EvaluateDependencies(s) = "WAIT",
         op'[s].id = op[s].id, op'[s].version = op[s].version + 1,
         waits' = RegisterDependencyWaits(s),
         \A q \in Resources \ {s} : op'[q] = op[q] /\ res'[q] = res[q]
  PROVE  /\ \A t \in Targets(s) : Row(s, t)' \in waits' \/ res'[t].state \in {"Ready", "Unknown"}
         /\ \E j \in 1..Len(Refs[s]) : Holds(s, j)'
<1>1. Targets(s) \subseteq Resources \ {s}
  BY TargetAt, TargetsPass
<1>2. \A t \in Targets(s) : ClassifyDependency(t)' = ClassifyDependency(t) /\ res'[t] = res[t]
  BY <1>1 DEF ClassifyDependency, HasActiveOperation
<1>3. ASSUME NEW t \in Targets(s), ClassifyDependency(t) # "READY" PROVE Row(s, t)' \in waits'
  <2>1. t \in Blocking(s)
    BY <1>3 DEF Blocking
  <2>2. QED
    BY <2>1, RegisteredRow
<1>4. ASSUME NEW t \in Targets(s) PROVE Row(s, t)' \in waits' \/ res'[t].state \in {"Ready", "Unknown"}
  <2>1. CASE ClassifyDependency(t) = "READY"
    BY <1>2, <2>1 DEF ClassifyDependency
  <2>2. QED
    BY <1>3, <2>1
<1>5. PICK j \in 1..Len(Refs[s]) :
        /\ ClassifyDependency(Refs[s][j]) = "WAIT"
        /\ \A i \in j + 1 .. Len(Refs[s]) : ClassifyDependency(Refs[s][i]) # "TERMINAL"
  BY GateWaitsFor
<1>6. Len(Refs[s]) \in Nat /\ \A i \in 1..Len(Refs[s]) : Refs[s][i] \in Targets(s)
  BY TargetAt, DependenciesAssumption
<1>7. Row(s, Refs[s][j])' \in waits'
  BY <1>3, <1>5, <1>6
<1>8. ClassifyDependency(Refs[s][j])' = "WAIT"
  BY <1>2, <1>5, <1>6
<1>9. ASSUME NEW i \in j + 1 .. Len(Refs[s]) PROVE ClassifyDependency(Refs[s][i])' # "TERMINAL"
  <2>1. i \in 1..Len(Refs[s])
    BY <1>6
  <2>2. QED
    BY <1>2, <1>5, <1>6, <2>1
<1>10. Holds(s, j)'
  BY <1>7, <1>8, <1>9 DEF Holds
<1>11. QED
  BY <1>4, <1>10

\* The gate itself.
LEMMA DriveWakes ==
  ASSUME WInv, Flat, IInv', NEW w \in Workers, Drive(w) PROVE WInv'
<1>0. worker[w].job = "drive" /\ worker[w].r \in Resources
  BY DEF Drive, WInv, IInv, LeasesAgree
<1> PICK s \in Resources : s = worker[w].r
  BY <1>0
<1>1. /\ worker[w].job = "drive" /\ s \in Resources /\ BecomeIdle(w)
      /\ drive' = [drive EXCEPT ![s].state = "Completed"] /\ wake' = wake
      /\ drive[s].state = "Leased"
  BY DEF Drive, WInv, IInv, LeasesAgree
<1>2. op[s].phase = "Planning" /\ op[s].version = drive[s].version
  BY <1>1 DEF WInv, IInv, DriveIsCurrent, IsActive
<1>3. /\ DriveReady(s) \/ DriveWaits(s) \/ DriveFails(s)
      /\ res' = [res EXCEPT ![s].version = @ + 1,
                            ![s].state = IF op'[s].phase = "Done" THEN FailedState(s) ELSE @]
  BY <1>2 DEF Drive
<1>4. res \in [Resources -> [state: ResourceStates, reconciled: BOOLEAN, version: Nat]]
      /\ op \in [Resources -> [id: Nat, cap: Capabilities, phase: OpPhases, version: Nat]]
      /\ drive \in [Resources -> [state: {"Pending", "Leased", "Completed"}, version: Nat]]
      /\ waits \subseteq Waits
  BY DEF WInv, IInv, TypeOK
<1>5. worker'[w].job = "idle" /\ \A v \in Workers \ {w} : worker'[v] = worker[v]
  BY <1>1, IdleFields DEF WInv, IInv
<1>6. \A v \in Workers : Waking(v) \/ Waking(v)' => worker'[v] = worker[v]
  BY <1>1, <1>5 DEF Waking
<1>7. \/ op[s].cap = "create" /\ res[s].state = "Pending"
      \/ op[s].cap = "update" /\ res[s].state = "Ready"
  BY <1>1, <1>2 DEF WInv, StatesAgree, HasActiveOperation
<1>8. /\ drive'[s].state = "Completed" /\ drive'[s].version = drive[s].version
      /\ \A q \in Resources \ {s} : drive'[q] = drive[q]
  BY <1>1, <1>4
<1>9. /\ \A q \in Resources \ {s} : op'[q] = op[q]
      /\ op'[s].id = op[s].id /\ op'[s].cap = op[s].cap /\ op'[s].version = op[s].version + 1
      /\ \/ DriveReady(s) /\ op'[s].phase = "Applying"
         \/ DriveWaits(s) /\ op'[s].phase = "Planning"
         \/ DriveFails(s) /\ op'[s].phase = "Done"
  <2>1. CASE DriveReady(s)
    BY <1>1, <1>4, <2>1 DEF DriveReady
  <2>2. CASE DriveWaits(s)
    BY <1>1, <1>2, <1>4, <2>2 DEF DriveWaits
  <2>3. CASE DriveFails(s)
    BY <1>1, <1>4, <2>3 DEF DriveFails
  <2>4. QED
    BY <1>3, <2>1, <2>2, <2>3
<1>10. /\ \A q \in Resources \ {s} : res'[q] = res[q]
       /\ res'[s].version = res[s].version + 1
       /\ res'[s].state = IF op'[s].phase = "Done" THEN FailedState(s) ELSE res[s].state
  <2> DEFINE state == IF op'[s].phase = "Done" THEN FailedState(s) ELSE res[s].state
  <2>1. res' = [res EXCEPT ![s].version = @ + 1, ![s].state = state]
    BY <1>1, <1>3, <1>4
  <2> HIDE DEF state
  <2>2. QED
    BY <1>1, <1>4, <2>1 DEF state
<1>11. StatesAgree'
  <2> SUFFICES ASSUME NEW r \in Resources
               PROVE  IF op'[r].phase # "Done"
                      THEN \/ op'[r].cap = "create" /\ res'[r].state = "Pending"
                           \/ op'[r].cap = "update" /\ res'[r].state = "Ready"
                      ELSE res'[r].state \in {"Ready", "Failed", "Unknown"}
    BY DEF StatesAgree, HasActiveOperation
  <2>1. CASE r = s
    BY <1>7, <1>9, <1>10, <2>1 DEF FailedState
  <2>2. CASE r # s
    BY <1>9, <1>10, <2>2 DEF WInv, StatesAgree, HasActiveOperation
  <2>3. QED
    BY <2>1, <2>2
<1>12. DrivesSpent'
  <2> SUFFICES ASSUME NEW r \in Resources, Blocked(r)' PROVE drive'[r].version < op'[r].version
    BY DEF DrivesSpent
  <2>1. CASE r = s
    BY <1>2, <1>4, <1>8, <1>9, <2>1
  <2>2. CASE r # s
    BY <1>8, <1>9, <2>2 DEF WInv, DrivesSpent, Blocked
  <2>3. QED
    BY <2>1, <2>2
<1>13. waits' = DeleteDependencyWaits(s) \/ (DriveWaits(s) /\ waits' = RegisterDependencyWaits(s))
  BY <1>9 DEF DriveReady, DriveWaits, DriveFails
<1>14. \A x \in Waits : x.r # s => (x \in waits' <=> x \in waits)
  BY <1>13 DEF DeleteDependencyWaits, RegisterDependencyWaits
<1>15. ClassifyDependency(s)' = "WAIT" \/ \A r \in Resources : s \notin Targets(r)
  <2>1. CASE op'[s].phase = "Done"
    <3>1. EvaluateDependencies(s) # "READY"
      BY <1>9, <2>1 DEF DriveFails
    <3>2. QED
      BY <1>1, <3>1, TargetsPass
  <2>2. CASE op'[s].phase # "Done"
    BY <1>1, <1>11, <2>2, TargetClassesNext DEF HasActiveOperation
  <2>3. QED
    BY <2>1, <2>2
<1>16. (\E r \in Resources : s \in Targets(r)) /\ res[s].state \in {"Ready", "Unknown"} =>
         res'[s].state \in {"Ready", "Unknown"}
  BY <1>7, <1>10 DEF FailedState
<1>17. res'[s].version > res[s].version
  BY <1>1, <1>4, <1>10
<1>18. /\ WakesAgree'
       /\ \A r \in Resources \ {s} : Waiting(r)' =>
            /\ \A t \in Targets(r) : Row(r, t)' \in waits' \/ res'[t].state \in {"Ready", "Unknown"}
            /\ \E j \in 1..Len(Refs[r]) : Holds(r, j)'
  BY <1>1, <1>6, <1>8, <1>9, <1>10, <1>11, <1>14, <1>15, <1>16, <1>17, ResourceMoves DEF IInv
<1>19. Waiting(s)' =>
         /\ \A t \in Targets(s) : Row(s, t)' \in waits' \/ res'[t].state \in {"Ready", "Unknown"}
         /\ \E j \in 1..Len(Refs[s]) : Holds(s, j)'
  <2>1. CASE DriveWaits(s) /\ op'[s].phase = "Planning"
    <3>1. EvaluateDependencies(s) = "WAIT" /\ waits' = RegisterDependencyWaits(s)
      BY <2>1 DEF DriveWaits
    <3>2. QED
      BY <1>1, <1>9, <1>10, <3>1, WaitsAtGate
  <2>2. CASE op'[s].phase # "Planning"
    BY <2>2 DEF Waiting, Blocked
  <2>3. QED
    BY <1>9, <2>1, <2>2
<1>20. \A x \in waits' : x.target \in Targets(x.r)
  <2>1. CASE waits' = DeleteDependencyWaits(s)
    BY <2>1 DEF DeleteDependencyWaits, WInv, RowsComplete
  <2>2. CASE waits' = RegisterDependencyWaits(s)
    BY <2>2 DEF RegisterDependencyWaits, Blocking, WInv, RowsComplete
  <2>3. QED
    BY <1>13, <2>1, <2>2
<1>21. RowsComplete' /\ SomethingHolds'
  BY <1>18, <1>19, <1>20, WaitersStep
<1>22. QED
  BY <1>11, <1>12, <1>18, <1>21 DEF WInv


-----------------------------------------------------------------------------
(* The steps of a wake. *)

\* A step of a wake that keeps looking at every wait row.
LEMMA WakeMoves ==
  ASSUME WInv, IInv', WakesAgree', UNCHANGED <<res, op, drive, waits>>,
         \A x \in waits : Covered(x) => Covered(x)'
  PROVE  WInv'
<1>1. StatesAgree' /\ DrivesSpent'
  BY DEF WInv, StatesAgree, HasActiveOperation, DrivesSpent, Blocked
<1>2. \A t : ClassifyDependency(t)' = ClassifyDependency(t)
  BY DEF ClassifyDependency, HasActiveOperation
<1>3. ASSUME NEW r \in Resources, Waiting(r)'
      PROVE  /\ \A t \in Targets(r) : Row(r, t)' \in waits' \/ res'[t].state \in {"Ready", "Unknown"}
             /\ \E j \in 1..Len(Refs[r]) : Holds(r, j)'
  <2>1. Blocked(r)
    BY <1>3 DEF Waiting, Blocked
  <2>2. QED
    BY <1>2, <1>3, <2>1, StillWaiting
<1>4. RowsComplete' /\ SomethingHolds'
  BY <1>3, WaitersStep DEF WInv, RowsComplete
<1>5. QED
  BY <1>1, <1>4 DEF WInv

\* A claimed wake will read its page.
LEMMA ClaimWakeWakes ==
  ASSUME WInv, IInv', NEW w \in Workers, NEW t \in Resources, ClaimWake(w, t) PROVE WInv'
<1>1. /\ worker[w].job = "idle" /\ wake[t].state = "Pending"
      /\ wake' = [wake EXCEPT ![t].state = "Leased"]
      /\ worker' = [worker EXCEPT ![w] = [job |-> "page", r |-> t, page |-> {}]]
      /\ UNCHANGED <<res, op, drive, waits>>
  BY DEF ClaimWake
<1>2. /\ worker'[w].job = "page" /\ worker'[w].r = t
      /\ \A v \in Workers \ {w} : worker'[v] = worker[v]
      /\ wake'[t].state = "Leased" /\ wake'[t].expected = wake[t].expected
      /\ \A q \in Resources \ {t} : wake'[q] = wake[q]
      /\ waits \subseteq Waits
  BY <1>1 DEF WInv, IInv, TypeOK
<1>3. \A v \in Workers : Waking(v) => worker[v].r \in Resources /\ worker[v].r # t /\ v # w
  BY <1>1 DEF WInv, IInv, WakesAgree, LeasesAgree, Waking
<1>4. WakesAgree'
  <2>1. \A r \in Resources : wake'[r].expected <= res'[r].version
    BY <1>1, <1>2 DEF WInv, WakesAgree
  <2>2. \A v \in Workers : Waking(v)' => v = w \/ (Waking(v) /\ worker'[v] = worker[v])
    BY <1>2 DEF Waking
  <2>3. \A v \in Workers : Waking(v)' => wake'[worker'[v].r].state = "Leased"
    BY <1>2, <1>3, <2>2 DEF WInv, WakesAgree
  <2>4. \A u, v \in Workers : Waking(u)' /\ Waking(v)' /\ worker'[u].r = worker'[v].r => u = v
    BY <1>2, <1>3, <2>2 DEF WInv, WakesAgree
  <2>5. QED
    BY <2>1, <2>3, <2>4 DEF WakesAgree
<1>5. ASSUME NEW x \in waits, Covered(x) PROVE Covered(x)'
  <2>1. CASE x.target = t
    BY <1>2, <2>1 DEF Covered, IsActive
  <2>2. CASE x.target # t
    <3>1. x.target \in Resources \ {t}
      BY <1>2, <2>2 DEF Waits
    <3>2. wake'[x.target] = wake[x.target]
      BY <1>2, <3>1
    <3>3. \A v \in Workers : worker[v].job \in {"page", "revalidate"} => worker'[v] = worker[v]
      BY <1>2, <1>1
    <3>4. QED
      BY <1>1, <1>5, <3>2, <3>3 DEF Covered
  <2>3. QED
    BY <2>1, <2>2
<1>6. QED
  BY <1>1, <1>4, <1>5, WakeMoves

\* The page holds every waiter there is when it is read.
LEMMA PageWakes ==
  ASSUME WInv, IInv', NEW w \in Workers, PageDependencyWaiters(w) PROVE WInv'
<1> DEFINE rows == {x \in waits : x.target = worker[w].r}
<1>1. /\ worker[w].job = "page"
      /\ worker' = [worker EXCEPT ![w].job = "revalidate", ![w].page = rows]
      /\ UNCHANGED <<res, op, drive, waits, wake>>
  BY DEF PageDependencyWaiters
<1>2. /\ worker'[w].job = "revalidate" /\ worker'[w].r = worker[w].r /\ worker'[w].page = rows
      /\ \A v \in Workers \ {w} : worker'[v] = worker[v]
  BY <1>1 DEF WInv, IInv, TypeOK
<1>3. WakesAgree'
  <2>1. \A v \in Workers : (Waking(v)' <=> Waking(v)) /\ worker'[v].r = worker[v].r
    BY <1>1, <1>2 DEF Waking
  <2>2. QED
    BY <1>1, <2>1 DEF WInv, WakesAgree
<1>4. ASSUME NEW x \in waits, Covered(x) PROVE Covered(x)'
  <2>1. CASE x.target = worker[w].r
    <3>1. x \in rows
      BY <2>1
    <3>2. IsActive(wake[x.target])
      BY <1>4 DEF Covered
    <3>3. QED
      BY <1>1, <1>2, <2>1, <3>1, <3>2 DEF Covered, IsActive
  <2>2. CASE x.target # worker[w].r
    BY <1>1, <1>2, <1>4, <2>2 DEF Covered
  <2>3. QED
    BY <2>1, <2>2
<1>5. QED
  BY <1>1, <1>3, <1>4, WakeMoves

\* A wake that ends although its target has moved on is replaced.
LEMMA FinalizeWakes ==
  ASSUME WInv, IInv', NEW w \in Workers, FinalizeWake(w) PROVE WInv'
<1>1. worker[w].job = "finalize" /\ worker[w].r \in Resources
  BY DEF FinalizeWake, WInv, IInv, LeasesAgree
<1> PICK t \in Resources : t = worker[w].r
  BY <1>1
<1> DEFINE done == [wake EXCEPT ![t].state = "Completed"]
<1>2. /\ BecomeIdle(w) /\ UNCHANGED <<res, op, drive, waits>>
      /\ wake' = IF res[t].version # wake[t].expected
                 THEN EnqueueWakeDependents(done, t, res[t].version) ELSE done
  BY DEF FinalizeWake
<1>3. /\ res[t].version \in Nat /\ wake[t].expected \in Nat /\ wake[t].expected <= res[t].version
      /\ waits \subseteq Waits
      /\ wake \in [Resources -> [state: {"Pending", "Leased", "Completed"}, expected: Nat]]
  BY RowTypes DEF WInv, IInv, WakesAgree, TypeOK
<1>4. /\ done \in [Resources -> [state: {"Pending", "Leased", "Completed"}, expected: Nat]]
      /\ done[t].state = "Completed" /\ done[t].expected = wake[t].expected
      /\ \A q \in Resources \ {t} : done[q] = wake[q]
  BY <1>3
<1>5. ~IsActive(done[t])
  BY <1>4 DEF IsActive
<1> HIDE DEF done
<1>6. /\ \A q \in Resources \ {t} : wake'[q] = wake[q]
      /\ wake'[t].expected <= res[t].version
      /\ res[t].version # wake[t].expected => wake'[t].state = "Pending"
  <2>1. CASE res[t].version = wake[t].expected
    BY <1>2, <1>3, <1>4, <2>1
  <2>2. CASE res[t].version # wake[t].expected
    <3>1. wake' = EnqueueWakeDependents(done, t, res[t].version)
      BY <1>2, <2>2
    <3>0. res[t].version > done[t].expected
      <4>1. /\ res[t].version \in Nat /\ wake[t].expected \in Nat /\ wake[t].expected <= res[t].version
            /\ done[t].expected = wake[t].expected
        BY <1>3, <1>4
      <4>2. QED
        BY ONLY <2>2, <4>1
    <3>2. wake'[t] = [state |-> "Pending", expected |-> res[t].version]
          /\ \A q \in Resources \ {t} : wake'[q] = done[q]
      BY <1>3, <1>4, <1>5, <3>0, <3>1, EnqueueFields
    <3>3. QED
      BY <1>3, <1>4, <3>2
  <2>3. QED
    BY <2>1, <2>2
<1>7. worker'[w].job = "idle" /\ \A v \in Workers \ {w} : worker'[v] = worker[v]
  BY <1>2, IdleFields DEF WInv, IInv
<1>8. \A v \in Workers : Waking(v) /\ worker[v].r = t => v = w
  BY <1>1 DEF WInv, WakesAgree, Waking
<1>9. \A v \in Workers : Waking(v)' =>
        v # w /\ Waking(v) /\ worker'[v] = worker[v] /\ worker[v].r \in Resources \ {t}
  BY <1>7, <1>8 DEF Waking, WInv, IInv, LeasesAgree
<1>10. WakesAgree'
  <2>1. \A r \in Resources : wake'[r].expected <= res'[r].version
    BY <1>2, <1>6 DEF WInv, WakesAgree
  <2>2. \A v \in Workers : Waking(v)' => wake'[worker'[v].r].state = "Leased"
    BY <1>6, <1>9 DEF WInv, WakesAgree
  <2>3. \A u, v \in Workers : Waking(u)' /\ Waking(v)' /\ worker'[u].r = worker'[v].r => u = v
    BY <1>9 DEF WInv, WakesAgree
  <2>4. QED
    BY <2>1, <2>2, <2>3 DEF WakesAgree
<1>11. ASSUME NEW x \in waits, Covered(x) PROVE Covered(x)'
  <2>1. x.target \in Resources
    BY <1>3 DEF Waits
  <2>2. CASE x.target = t
    <3>1. \A v \in Workers : worker[v].r = t => worker[v].job \notin {"page", "revalidate"}
      BY <1>1, <1>8 DEF Waking
    <3>2. wake[t].state # "Pending"
      BY <1>1 DEF WInv, WakesAgree, Waking
    <3>3. res[t].version # wake[t].expected
      BY <1>11, <2>2, <3>1, <3>2 DEF Covered
    <3>4. QED
      BY <1>6, <2>2, <3>3 DEF Covered, IsActive
  <2>3. CASE x.target # t
    <3>1. wake'[x.target] = wake[x.target]
      BY <1>6, <2>1, <2>3
    <3>2. \A v \in Workers : worker[v].job \in {"page", "revalidate"} => worker'[v] = worker[v]
      BY <1>1, <1>7
    <3>3. QED
      BY <1>2, <1>11, <3>1, <3>2 DEF Covered
  <2>4. QED
    BY <2>2, <2>3
<1>12. QED
  BY <1>2, <1>10, <1>11, WakeMoves

\* A crash returns the wake to the outbox.
LEMMA CrashWakes ==
  ASSUME WInv, IInv', NEW w \in Workers, Crash(w) PROVE WInv'
<1>1. worker[w].job # "idle" /\ worker[w].r \in Resources
  BY DEF Crash, WInv, IInv, LeasesAgree
<1> PICK t \in Resources : t = worker[w].r
  BY <1>1
<1>2. BecomeIdle(w) /\ UNCHANGED <<res, op, waits>>
  BY DEF Crash
<1>3. worker'[w].job = "idle" /\ \A v \in Workers \ {w} : worker'[v] = worker[v]
  BY <1>2, IdleFields DEF WInv, IInv
<1>4. CASE worker[w].job = "drive" /\ drive' = [drive EXCEPT ![t].state = "Pending"] /\ wake' = wake
  <2>1. \A v \in Workers : Waking(v) \/ Waking(v)' => worker'[v] = worker[v]
    BY <1>3, <1>4 DEF Waking
  <2>2. drive'[t].state = "Pending" /\ \A q \in Resources \ {t} : drive'[q] = drive[q]
    BY <1>4 DEF WInv, IInv, TypeOK
  <2>3. \A r \in Resources : Blocked(r)' => Blocked(r) /\ drive'[r] = drive[r]
    BY <1>2, <2>2 DEF Blocked, IsActive
  <2>4. QED
    BY <1>2, <1>4, <2>1, <2>3, NothingMoves
<1>5. CASE /\ worker[w].job # "drive" /\ drive' = drive
           /\ wake' = [wake EXCEPT ![t].state = "Pending"]
  <2>1. /\ wake'[t].state = "Pending" /\ wake'[t].expected = wake[t].expected
        /\ \A q \in Resources \ {t} : wake'[q] = wake[q]
        /\ waits \subseteq Waits /\ worker[w].job \in Jobs
    BY <1>5 DEF WInv, IInv, TypeOK
  <2>2. Waking(w)
    BY <1>1, <1>5, <2>1 DEF Waking, Jobs
  <2>3. \A v \in Workers : Waking(v)' =>
          v # w /\ Waking(v) /\ worker'[v] = worker[v] /\ worker[v].r \in Resources \ {t}
    BY <1>3, <2>2 DEF Waking, WInv, IInv, LeasesAgree, WakesAgree
  <2>4. WakesAgree'
    <3>1. \A r \in Resources : wake'[r].expected <= res'[r].version
      BY <1>2, <2>1 DEF WInv, WakesAgree
    <3>2. \A v \in Workers : Waking(v)' => wake'[worker'[v].r].state = "Leased"
      BY <2>1, <2>3 DEF WInv, WakesAgree
    <3>3. \A u, v \in Workers : Waking(u)' /\ Waking(v)' /\ worker'[u].r = worker'[v].r => u = v
      BY <2>3 DEF WInv, WakesAgree
    <3>4. QED
      BY <3>1, <3>2, <3>3 DEF WakesAgree
  <2>5. ASSUME NEW x \in waits, Covered(x) PROVE Covered(x)'
    <3>1. x.target \in Resources
      BY <2>1 DEF Waits
    <3>2. CASE x.target = t
      BY <2>1, <3>2 DEF Covered, IsActive
    <3>3. CASE x.target # t
      <4>1. wake'[x.target] = wake[x.target]
        BY <2>1, <3>1, <3>3
      <4>2. \A v \in Workers : worker[v].r = x.target => worker'[v] = worker[v]
        BY <1>3, <3>3
      <4>3. QED
        BY <1>2, <2>5, <4>1, <4>2 DEF Covered
    <3>4. QED
      BY <3>2, <3>3
  <2>6. QED
    BY <1>2, <1>5, <2>4, <2>5, WakeMoves
<1>6. QED
  BY <1>4, <1>5 DEF Crash


\* A waiter found on the page gets a Drive, one that has moved on loses all of
\* its rows, and everyone else is left alone.
LEMMA RevalidateWakes ==
  ASSUME WInv, IInv', NEW w \in Workers, RevalidateWaiters(w) PROVE WInv'
<1> DEFINE page == worker[w].page
           stale == {<<x.r, x.id>> : x \in {y \in page : StaleWaiter(y)}}
           woken == {x.r : x \in {y \in page : ~StaleWaiter(y)}}
<1>1. /\ worker[w].job = "revalidate"
      /\ waits' = {x \in waits : <<x.r, x.id>> \notin stale}
      /\ drive' = [r \in Resources |->
                     IF r \in woken /\ drive[r].version < op[r].version
                     THEN [state |-> "Pending", version |-> op[r].version] ELSE drive[r]]
      /\ worker' = [worker EXCEPT ![w].job = "finalize", ![w].page = {}]
      /\ res' = res /\ op' = op /\ wake' = wake
  BY DEF RevalidateWaiters
<1>2. \A x \in page : <<x.r, x.id>> \in stale \/ x.r \in woken
  OBVIOUS
<1>3. /\ worker'[w].job = "finalize" /\ worker'[w].r = worker[w].r
      /\ \A v \in Workers \ {w} : worker'[v] = worker[v]
  BY <1>1 DEF WInv, IInv, TypeOK
<1> HIDE DEF stale, woken
<1>4. StatesAgree'
  BY <1>1 DEF WInv, StatesAgree, HasActiveOperation
<1>5. ASSUME NEW r \in Resources, Blocked(r)' PROVE Blocked(r) /\ drive'[r] = drive[r] /\ r \notin woken
  <2>1. CASE r \in woken /\ drive[r].version < op[r].version
    <3>1. drive'[r].state = "Pending"
      BY <1>1, <2>1
    <3>2. QED
      BY <1>5, <3>1 DEF Blocked, IsActive
  <2>2. CASE ~(r \in woken /\ drive[r].version < op[r].version)
    <3>1. drive'[r] = drive[r]
      BY <1>1, <2>2
    <3>2. Blocked(r)
      BY <1>1, <1>5, <3>1 DEF Blocked
    <3>3. QED
      BY <2>2, <3>1, <3>2 DEF WInv, DrivesSpent
  <2>3. QED
    BY <2>1, <2>2
<1>6. DrivesSpent'
  BY <1>1, <1>5 DEF WInv, DrivesSpent
<1>7. WakesAgree'
  <2>1. \A v \in Workers : (Waking(v)' <=> Waking(v)) /\ worker'[v].r = worker[v].r
    BY <1>1, <1>3 DEF Waking
  <2>2. QED
    BY <1>1, <2>1 DEF WInv, WakesAgree
<1>8. \A t : ClassifyDependency(t)' = ClassifyDependency(t)
  BY <1>1 DEF ClassifyDependency, HasActiveOperation
<1>9. ASSUME NEW r \in Resources, Waiting(r)'
      PROVE  /\ \A t \in Targets(r) : Row(r, t)' \in waits' \/ res'[t].state \in {"Ready", "Unknown"}
             /\ \E j \in 1..Len(Refs[r]) : Holds(r, j)'
  <2>1. Blocked(r) /\ r \notin woken
    BY <1>5, <1>9 DEF Waiting
  <2>2. PICK u \in Resources : Row(r, u)' \in waits'
    BY <1>9 DEF Waiting
  <2>3. <<r, op[r].id>> \notin stale
    <3>1. Row(r, u)' = Row(r, u)
      BY <1>1 DEF Row
    <3>2. <<Row(r, u).r, Row(r, u).id>> \notin stale
      BY <1>1, <2>2, <3>1
    <3>3. QED
      BY <3>2, RowFields
  <2>4. \A t \in Resources : Row(r, t) \in waits' <=> Row(r, t) \in waits
    BY <1>1, <2>3, RowFields
  <2>5. ASSUME NEW x \in waits, x.r = r, Covered(x) PROVE Covered(x)'
    <3>1. x.id = op[r].id
      BY <2>5 DEF WInv, IInv, NoOrphanWait
    <3>2. x \notin page
      BY <1>2, <2>1, <2>3, <2>5, <3>1
    <3>3. CASE wake[x.target].state = "Pending" \/ res[x.target].version # wake[x.target].expected
      BY <1>1, <2>5, <3>3 DEF Covered
    <3>4. CASE \E v \in Workers : /\ worker[v].r = x.target
                                  /\ \/ worker[v].job = "page"
                                     \/ worker[v].job = "revalidate" /\ x \in worker[v].page
      <4>1. PICK v \in Workers : /\ worker[v].r = x.target
                                 /\ \/ worker[v].job = "page"
                                    \/ worker[v].job = "revalidate" /\ x \in worker[v].page
        BY <3>4
      <4>2. v # w
        BY <1>1, <3>2, <4>1
      <4>3. worker'[v] = worker[v]
        BY <1>3, <4>2
      <4>4. QED
        BY <1>1, <2>5, <4>1, <4>3 DEF Covered
    <3>5. QED
      BY <2>5, <3>3, <3>4 DEF Covered
  <2>6. QED
    BY <1>1, <1>8, <1>9, <2>1, <2>4, <2>5, StillWaiting
<1>10. RowsComplete' /\ SomethingHolds'
  <2>1. \A x \in waits' : x.target \in Targets(x.r)
    BY <1>1 DEF WInv, RowsComplete
  <2>2. QED
    BY <1>9, <2>1, WaitersStep
<1>11. QED
  BY <1>4, <1>6, <1>7, <1>10 DEF WInv

-----------------------------------------------------------------------------
(* The version handshake. *)

\* At first everything has a Drive and nobody waits.
LEMMA WaitersInitially == Init => WInv
<1> SUFFICES ASSUME Init PROVE WInv
  OBVIOUS
<1>1. IInv
  BY Initially
<1>2. StatesAgree /\ DrivesSpent
  BY DEF Init, StatesAgree, HasActiveOperation, DrivesSpent, Blocked, IsActive
<1>3. WakesAgree
  BY DEF Init, WakesAgree, Waking
<1>4. \A r \in Resources : ~Waiting(r)
  BY DEF Init, Waiting, Blocked, IsActive
<1>5. RowsComplete /\ SomethingHolds
  BY <1>4 DEF Init, RowsComplete, SomethingHolds
<1>6. QED
  BY <1>1, <1>2, <1>3, <1>5 DEF WInv

\* Every step of the gate, of the wakes and of the targets, in a flat graph.
LEMMA WaitersInductive == Flat /\ WInv /\ [Next]_vars => WInv'
<1> SUFFICES ASSUME Flat, WInv, [Next]_vars PROVE WInv'
  OBVIOUS
<1>1. IInv'
  BY Inductive DEF WInv
<1>2. CASE UNCHANGED vars
  BY <1>1, <1>2, NothingMoves DEF vars, Waking, Blocked
<1>3. ASSUME NEW w \in Workers, WorkerStep(w) PROVE WInv'
  <2>1. ASSUME NEW r \in Resources, ClaimDrive(w, r) PROVE WInv'
    <3>1. /\ worker[w].job = "idle" /\ worker'[w].job = "drive"
          /\ \A v \in Workers \ {w} : worker'[v] = worker[v]
          /\ drive'[r].state = "Leased" /\ \A q \in Resources \ {r} : drive'[q] = drive[q]
          /\ UNCHANGED <<res, op, waits, wake>>
      BY <2>1 DEF ClaimDrive, WInv, IInv, TypeOK
    <3>2. \A v \in Workers : Waking(v) \/ Waking(v)' => worker'[v] = worker[v]
      BY <3>1 DEF Waking
    <3>3. \A q \in Resources : Blocked(q)' => Blocked(q) /\ drive'[q] = drive[q]
      BY <3>1 DEF Blocked, IsActive
    <3>4. QED
      BY <1>1, <3>1, <3>2, <3>3, NothingMoves
  <2>2. QED
    BY <1>1, <1>3, <2>1, ClaimWakeWakes, DriveWakes, PageWakes, RevalidateWakes, FinalizeWakes
       DEF WorkerStep
<1>4. QED
  BY <1>1, <1>2, <1>3, CrashWakes, FinishWakes, AdmitWakes, PassiveObserveWakes DEF Next

\* What holds a waiting operation wakes it once the gate would let it go.
LEMMA HeldIsWoken == WInv => RegisteredWaiterIsWoken
<1> SUFFICES ASSUME WInv, NEW r \in Resources, Blocked(r), CurrentWaits(r) # {},
                    EvaluateDependencies(r) # "WAIT"
             PROVE  \E x \in CurrentWaits(r) : IsActive(wake[x.target])
  BY DEF RegisteredWaiterIsWoken
<1>1. Waiting(r)
  <2>1. PICK x \in waits : x.r = r /\ ~StaleWaiter(x)
    BY DEF CurrentWaits
  <2>2. x \in Waits
    BY DEF WInv, IInv, TypeOK
  <2>3. x.target \in Resources /\ x = Row(r, x.target)
    BY <2>1, <2>2 DEF Row, StaleWaiter, Waits
  <2>4. QED
    BY <2>1, <2>3 DEF Waiting
<1>2. PICK j \in 1..Len(Refs[r]) : Holds(r, j)
  BY <1>1 DEF WInv, SomethingHolds
<1>3. ASSUME NEW t, Row(r, t) \in waits, Covered(Row(r, t))
      PROVE  \E x \in CurrentWaits(r) : IsActive(wake[x.target])
  <2>1. Row(r, t) \in CurrentWaits(r)
    BY <1>3, RowFields DEF CurrentWaits, StaleWaiter, Blocked
  <2>2. IsActive(wake[Row(r, t).target])
    BY <1>3 DEF Covered
  <2>3. QED
    BY <2>1, <2>2
<1>4. CASE Covered(Row(r, Refs[r][j]))
  BY <1>2, <1>3, <1>4 DEF Holds
<1>5. CASE ~Covered(Row(r, Refs[r][j]))
  <2>1. /\ ClassifyDependency(Refs[r][j]) = "WAIT"
        /\ \A i \in j + 1 .. Len(Refs[r]) :
             ClassifyDependency(Refs[r][i]) = "TERMINAL" =>
               Row(r, Refs[r][i]) \in waits /\ Covered(Row(r, Refs[r][i]))
    BY <1>2, <1>5 DEF Holds
  <2>2. PICK i \in j + 1 .. Len(Refs[r]) : ClassifyDependency(Refs[r][i]) \in {"TERMINAL", "INVALID"}
    BY <2>1, GateOverrules
  <2>3. Refs[r][i] \in Resources
    <3>1. i \in 1..Len(Refs[r])
      BY DependenciesAssumption
    <3>2. QED
      BY <3>1, TargetAt
  <2>4. ClassifyDependency(Refs[r][i]) = "TERMINAL"
    BY <2>2, <2>3, TargetClasses DEF WInv
  <2>5. QED
    BY <1>3, <2>1, <2>4
<1>6. QED
  BY <1>4, <1>5

\* No version change is lost: where targets have no references of their own, and
\* whatever the number of targets, dependents and workers and however drives,
\* wakes, updates, retries and crashes interleave, a registered waiter that the
\* gate would no longer hold has a wake under way (wakeDependents, ADR-0022).
THEOREM NoVersionChangeIsLost ==
  ASSUME Flat PROVE Spec => []RegisteredWaiterIsWoken
<1>1. WInv /\ [Next]_vars => WInv'
  BY WaitersInductive
<1>2. QED
  BY <1>1, WaitersInitially, HeldIsWoken, PTL DEF Spec

=============================================================================
