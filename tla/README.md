# Verification of Liftr

TLA+ models, TLC runs and TLAPS proofs for Liftr, the provisioner-neutral
resource API in this repository. Liftr admits requests to create, update and
delete resources, stores them in PostgreSQL together with outbox messages, and
lets workers carry each operation through a provisioner (OpenTofu, Pulumi,
Crossplane) that may crash, time out or answer ambiguously. The paths below are
relative to the repository root.

## The system and its parts

| Part | State it keeps | Operations | What makes it correct |
|---|---|---|---|
| Lifecycle engine (`internal/lifecycle`, `internal/domain`) | none; it maps a resource status and an operation to their successors | Request, Advance, Complete, Fail, ApplyObservation | the status always represents the unfinished operation; a tombstone is final; Reconciled means converged |
| Admission service (`internal/application/application.go`, `references.go`) | resources, operations, executions, idempotency records, desired and applied references | create, update, delete, retry, observe | one active operation per resource; replay returns the first answer; the graph stays acyclic and referenced resources are not deleted |
| Worker (`internal/worker`) | none but its leases; everything is in the tables | Drive, Dispatch, Observe, PassiveObserve, WakeDependents, expired-dispatch recovery | an attempt reaches the provider at most once; outcomes are the provider's; no operation is stranded |
| Outbox (`internal/persistence/postgres/work.go`) | messages with dedupe key, expected version, lease token and lease end | enqueue, claim, renew, complete, retry, quarantine | one active message of a kind per operation, fenced by token and lease |
| Dependency gate (`internal/worker/dependencies.go`, `internal/application/dependencies.go`) | wait rows, WakeDependents messages | gate, register, page, revalidate, finalize | no wake is lost |
| Provisioner contract (`internal/provisioning/contract.go`) | none | Submit, Observe | backend work of an attempt begins at most once, conclusive answers stay true |
| OpenTofu (`internal/provisioning/opentofu`, `postgres/opentofu_evidence.go`) | evidence journal, state binding, workspaces | SubmitFenced, Observe, orphan scan | one apply per attempt, from the registered source, whose evidence survives every crash |
| Pulumi (`internal/provisioning/pulumi`) | stack history, workspaces | Submit, Observe, workspace clean-up | an update is recognised by its correlation message and never taken for another |
| Crossplane (`internal/provisioning/crossplane`) | annotations of the cluster object | Submit (create, conditional update, delete), Observe | foreign objects are not adopted, success needs every required condition True and current (which the code does not ensure, see below), deletion needs proven absence |
| Outputs (`internal/application/outputs.go`) | output rows, output resolution of an execution | plan, publish, defer, reject, recover | success is not reported before its outputs are resolved; they are the outputs of that operation |
| Operator control plane (`internal/application/operator_mutations.go`, `recovery_planner.go`, `operator_diagnostics.go`) | operator idempotency ledger | trigger an observation, recover dead work | recovery never races with live work and does what the operator was shown |
| Policy and quotas (`internal/policy`, `quota.go`) | the loaded document, owner locks, resource counts | plan, decide, count | every quota holds under concurrent admissions |
| Authentication (`internal/auth`) | cache of the issuer's signing keys, refresh window | authenticate, refresh, map claims | a good token is accepted in the end, a withdrawn key stops verifying, an outage changes nothing |
| Inventory list (`internal/application/inventory.go`, `resources_list.go`) | cursors in the clients' hands | list a page | a walk misses nothing that was there throughout and shows nothing twice |
| Client and command line (`internal/client`, `internal/cli`) | idempotency key, monitor link, deadline | mutate with retries, wait | the exit code is the truth about the command's own operation |
| Server process (`internal/server`, `cmd/liftr-server`) | worker loop, drain flag, listeners | serve, drain, shut down | the store outlives its users, and shutdown ends (but for the close of the store, see below) |
| Catalogue, observability, Backstage, migrations | no core state | | |

The parts meet in the database. Admission commits an operation together with
its first Drive. A worker claims a message for the length of a lease, works,
and commits the result in a transaction that checks the lease token, the lease
end and the version it loaded. Each Drive advances one phase; the last one
passes the dependency gate and creates the first submission attempt and its
Dispatch. A Dispatch prepares the attempt in one transaction, calls the
provisioner outside any transaction while a heartbeat renews the lease, and
records the answer in another. Undecided answers become Observe messages, each
of which enqueues its successor until the outcome is known. A terminal
transition enqueues a WakeDependents when somebody waits for the resource.
Outside the database, a command line retries its request under one key, and the
server authenticates every request with keys it fetched from an issuer.

What is hard here: several workers and several processes share every row; a
worker may die or be paused between any two transactions; a provider call may
have happened although its answer was lost; the provider may lose sight of a
request; provider clocks are coarser than Liftr's; READ COMMITTED lets two
statements of one transaction see different states; a cluster object, a stack
and a state file have other writers. `PROJECT.json` lists these
hazards at their lines with the properties that would notice them going wrong.

## Modules

**Lifecycle** holds the engine as constant operators on a status record (state,
observed generation, the Ready, Reconciled, Reconciling and OperationFailed
conditions) and an operation record (capability, state, phase, target
generation): `RequestedStatus`, `AdvancedStatus`, `CompletedStatus`,
`FailedStatus`, `ObservedStatus` and the guards `CanRequest`, `CanComplete`,
`CanFail`, `ValidOperationContext`. Reasons, messages and events are left out.
Timestamps are left out too, except that Execution models the one branch where
a regressing timestamp changes the course of events.

**ResourceLife** is one resource under its row lock: `AdmitUpdate`,
`AdmitDelete`, `AdmitRetry` (persistExistingRequest, persistRetryRequest),
`Advance`, `CompleteOperation`, `FailOperation` (the worker's use of the
engine), `FailAtGate` (settleGateBlock) and `PassiveObserve`. Two history
variables remember the state before the latest request and the last generation
that converged.

**Execution** is the durable execution of one operation: the operation row and
its version, the execution row, the attempts, the newest outbox message of each
kind, what each worker is in the middle of, and what the provider really did.
Actions are single transactions (`Drive`, `Prepare`, `RecordDispatch`,
`RetryNotAttempted`, `MarkDispatchUnknown`, `RecoverExpiredDispatch`,
`LoadObservation`, `RecordObservation`, `RecordPendingOutputs`,
`QuarantineObservation`, `SettleStale`, `RetryOutbox`, `TriggerObserve`), the
two ends of a provider call (`Launch`, `SubmitReturns`, `ObserveReturns`) and
faults (`Crash`, `HeldLeaseExpires`, `PrepareUnacknowledged`). The provisioner
is any truthful one: it may answer ambiguously at any time and may lose sight
of an accepted request, but it does not report an outcome that did not happen.
Whether it is fenced (OpenTofu) or not (Pulumi, Crossplane) is chosen with the
execution. Output recovery executions, which start from a durable success and
only observe, are initial states as well. In a `disturbed` behaviour the
acknowledgement of a commit may also be lost and an operator may ask for an
observation at any time; the properties of the provider calls hold there too,
`OneCurrentMessage` and `EventuallySettled` are not claimed (see below).

**Dependencies** is the gate and the wake protocol for a constant reference
graph. The phases before the gate and everything after it (module Execution)
are one action each; an expired lease and the crash that led to it are one
action. **MCDependencies** gives it graphs: `Pair` and `Star`.

**Admission** is what the application service does with concurrent requests:
`BeginCreate`, `BeginUpdate`, `BeginDelete` and `BeginRetry` start a
transaction, which takes its locks one by one (`TakeLock`, `LockSource`) in the
order idempotency key, owner, source row, target rows; answers from the
idempotency record (`Replay`), is refused (`RefuseAtSource`, `Decide`) or
commits (`CommitAdmission`) with its operation, references and record. Worker
transactions (`BeginWork`, `CommitWork`: the gate, a success, a failure) take
the same row locks. Inserting a reference row takes a key share of the target
row (foreign keys of migration 11), and PostgreSQL ends a deadlock by aborting
one of its members (`AbortDeadlocked`). `Starts` gives converged reference
graphs to start from. A reference set is a set of target identifiers: slots,
types and read authorization only ever refuse. **MCAdmission** gives it
resources, graphs and reference sets.

**Policy** holds the admission policy as operators: which rules Parse accepts
(`ValidRule`, `SemanticKeys`, `ValidPolicy`), which match (`Matches`), the plan
(`CapabilityDenied`, `CountConstraints`, tightest limit per dimension) and the
decision (`Allows`). Admission extends it and supplies the counts.

**ProvisionerContract** is the abstract specification of a provisioner: per
attempt, what the backend really did and the conclusive answer that was
recorded. Work begins at most once and never after a conclusive answer, and an
answer is the one that is true. **OpenTofu** and **Pulumi** are shown to
implement it (`ImplementsContract`); Execution assumes the same answers.

**OpenTofu** is the provisioner with its journal, for successive operations of
one resource: one action per journal transaction (`PrepareAttempt`,
`JournalMayStart`, `JournalOutcomeUnknown`, ...), per run of the tofu binary
(init, plan, show, apply, pull) and per step of the tofu process, which
outlives the worker that started it. Workspaces, the quarantine and the scan
for orphans, the registered source and its digest, the binding to a state
lineage and serial, and the decoding of outputs are part of it. The faults are
crashes, expired leases, failing calls, journal writes that fail or whose
answer is lost while the lease is held (`JournalFails`), workspaces that cannot
be removed, an edited source and a state that is rolled back or changed by
others.

**Pulumi** is one stack: the steps of Submit and Observe, the update process,
the paged history with the correlation messages, the isolated workspaces with
their locks and the clean-up by age. Others may update the stack by hand.

**Crossplane** is one object name in a cluster: each request of Submit and
Observe to the API server is an action (get, create, conditional update with
its retries, delete with preconditions, the discovery behind an absence), next
to the controllers that set conditions and finalize, and to other actors that
replace or withdraw the object or retire its kind. It does not implement
ProvisionerContract, because an update may be written twice by design: a retry
after a conflict, or a late worker, writes the same desired state again.

**Recovery** is the outbox of one resource and its operations, with quarantined
rows: the worker's steps, the passive observer's tick, diagnostics, and the
operator's three mutations with idempotency keys and optional If-Match.

**Service** is the outside: a command with its attempts, its key and its wait;
requests that are delayed, lost before or after handling, handled late, or
never answered (`Unanswered`); the order of the handlers' checks; other
developers; and the server process with its worker, drain and shutdown.

**Access** is the read side: the key cache of the OIDC authenticator against an
issuer that rotates, tokens and memberships, and a reader who walks the list
page by page with a cursor bound to query and visibility.

**ExecutionProofs**, **DependenciesProofs**, **AdmissionProofs**,
**OpenTofuProofs**, **PulumiProofs**, **CrossplaneProofs**, **RecoveryProofs**
and **ServiceProofs** hold the theorems about the modules they are named for.
ExecutionProofs has a second part about ResourceLife, and ServiceProofs one about
Access; the specifications of these two modules are called `LifeSpec` and
`AccessSpec`, so that they can be extended beside the other one. The remaining
**MC** modules give constants their values.

## Runs

| Run | Expected | What it shows |
|---|---|---|
| `resource_life` | pass | Up to three generations with every order of requests, failures, retries and passive facts: `ActiveRepresented` (the engine never refuses the evidence of a live operation), `ReconciledMeansConverged` (the gate's notion of convergence is right), `DeletedIsFinal`, `FailedOnlyIfNeverUsable` |
| `execution` | pass | Two workers, fenced or unfenced provisioner, coarse provider clock, three setbacks: `OneCurrentMessage` (an unfinished operation has exactly one message, and its versions match the records), `LaunchedOnce`, `AttemptRecordsTrue` (a superseded attempt never ran, an accepted one did), `OutcomeIsTruth`, and `EventuallySettled` under fairness |
| `admission` | pass | Two requests and a worker transaction, step by step under PostgreSQL's locks: `DesiredAcyclic` (two admissions never close a cycle together), `QuotaHeld` (every quota of a document with overlapping rules), `FreshDeletesProtected`, `RepeatIsReplayed` and `LadderNeverDeadlocks` (nobody who waits for a key or an owner is part of a deadlock) |
| `dependencies` | pass | A dependent and its target, two workers, three changes: `RegisteredWaiterIsWoken`, `GateRowsCurrent` (Drives are current, no wait row outlives the gate), and `WaitingReleases` under fairness |
| `dependencies_race` | violation | ADR-0022: "no window remains" |
| `opentofu` | pass | `AppliesAreSafe` (an attempt is applied at most once, from the registered source, never beside or after its verdict, and the workspace of an uncertain apply is kept), `StateIsTrusted` (no state is bound behind one seen before, outputs are the operation's own), the refinement `ImplementsContract`, and `FullApplySettles` under fairness |
| `pulumi` | pass | `CallsAreIsolated` (workspaces in use and outputs), the refinement `ImplementsContract`, and `EndedUpdateSettles`: an update whose entry is within the pages that are read settles its operation |
| `crossplane` | pass | `OwnObjectOnly` (foreign objects are neither touched nor adopted, an accepted one is not made again), `SettlementNotRefuted` (no success on an object of another generation, on a condition that is missing, terminal, or True for an earlier generation, or on outputs of another generation; no deletion without proven absence), and `AcceptedSettles` under fairness |
| `recovery` | pass | `NothingStranded` (work that is needed is active or can be recovered by an operator), `ActiveIsCurrent`, `AcceptedActionIsSound` (one action per key, which makes new work and was shown as allowed) |
| `passive_once` | violation | `observer.go`: "periodically ... enqueues passive observation messages" |
| `service` | pass | `CommandTellsTruth` (the exit code, about the command's own operation), `KeyAdmitsOnce`, `StoreOutlivesWork`, and, under fairness, `HangsOnlyOnOthers` (a command ends or waits for an answer that never comes; a shutdown ends or waits for store connections of what it has cut off) |
| `access` | pass | `WalkIsFaithful` (complete, without repetition, within one visibility), `CachedKeyVerifies` (neither an outage nor age is held against a key of the cache), and `KeysConverge` under fairness |

Several invariants are conjunctions of named parts (`AppliesAreSafe`,
`SettlementNotRefuted`, ...); each part is stated and commented on its own, and
the type invariant of the module is one of them.

### Bounds

* `MaxGeneration` = 3: a first generation, one that supersedes it and one after
  a failure. The proofs remove this bound.
* `MaxSetbacks` = 3 in `execution`: one counter for everything that costs the
  environment something (a crash, an expired lease of a live worker, a
  transient error, an ambiguous answer, an undecided poll, deferred outputs).
  Three allow the longest chain that matters: an ambiguous submission, its
  resubmission after a NotFound, and a further fault of the second attempt.
  The same counter makes polling finite, which `EventuallySettled` relies on.
* Two workers: one that is paused or late and one that takes over. Rows of
  different operations are disjoint.
* `MaxChanges` = 3 admissions, passive observations and crashes in
  `dependencies`: a target that converges, is updated and converges again while
  a worker dies. Waiters of one target do not interact (every row and Drive is
  per operation), so one dependent is enough for the passing run; the larger
  graphs (`Star`, `Chain`, `Fan`) serve the configurations that show a
  violation.
* `Requested`, the capabilities of an execution: update and delete. Create and
  update differ only in whether the target existed before, which only a delete
  asks.
* `disturbed` behaviours of `execution` start with one setback spent, so that
  two remain for the lost acknowledgement or the operator and one fault after.
* `admission`: the four resources of the ring need two more edges to close it,
  and two requests are what it takes to add them; the pair leaves room for two
  creates under a quota of four, of which one cache only. The document has a
  looser rule for the team beside the tighter general one, and a denial of
  cache updates. `MaxDepth` = 3 (32 in the code) truncates the search along the
  closed ring, which must refuse as well. Two requests with one key are a
  repetition or a conflict.
* Provisioners: `MaxOps` = 2, an operation and its successor, so that evidence
  of the first can be taken for the second; two workers; two faults for
  OpenTofu, three for Pulumi, one for Crossplane with `MaxRetries` = 2
  conditional writes. Two pages of two entries overflow with the manual updates
  that three faults allow, so the full window is reached.
* `recovery`: two operations, one quarantined message at a time, two operator
  actions with two keys. `MaxUnsent` bounds how often a dispatch goes back
  unsent, `MaxToggles` how often the provisioner is unregistered. `MaxShown` = 0:
  TLC reads diagnostics before the first action; the proofs remove this bound.
* `service`: two commands, two attempts each (3 in the code), two consecutive
  poll failures (5 in the code), one operation of another developer and one end of the server
  or error of the store. The violations take less: `Service_wait` one command
  and no setback, `Service_shutdown` one command of one attempt and one setback,
  `Crossplane_ready` one worker, two operations and no fault.
* `access`: three resources of two owners, pages of one, two changes, two
  signing keys of which one or both are published.

A finished system stops, so only ResourceLife, where passive observations
always remain possible, checks for deadlock; the liveness properties say what
must happen before the others stop.

### Fairness

`WF(WorkerStep(w))` for each worker: a worker process polls in a loop and each
handler runs to its end or its context ends (RunOnce). Setbacks are not part of
it. `WF(AbandonedLeaseExpires)`: database time passes. `WF(BackendFinishes)`:
the backend finishes what it runs; without it Liftr rightly observes for ever.
In Dependencies, `WF(Finish(r, _))` stands for `EventuallySettled` of module
Execution.

* OpenTofu, Pulumi, Crossplane: `WF` of each call's next step, of the backend's
  processes or controllers, of lease expiry, of the recovery of an expired
  dispatch (each worker loop looks for one) and of the clean-up at start-up.
* Recovery: the observer's ticker and the workers run.
* Service: each step of the command, its deadline, and the shutdown sequence up
  to the close of the store, whose waits are bounded by timeouts in `main.go`.
  That an answer arrives is not assumed, and neither is that a request without
  an answer ends: the client has no timeout (`client.go:84`), the deadline of
  `--timeout` acts between polls, and the server sets `ReadHeaderTimeout` only.
  `Unanswered` may take any request to the program counter `hung`, which only an
  interrupt leaves. The close of the store is fair only when nobody uses the store
  (`StoreUnused`): pgxpool's Close waits for every connection.
* Access: time passes (`Age`, `WindowPasses`), somebody goes on asking
  (`ListFirst`), and a fetch returns (the HTTP client has a timeout). `SF(Authenticate \/ Refresh)`: Go's mutex hands over
  to a waiter that starves, so a request is not overtaken for ever.
  `SF(FetchSucceeds)`: an issuer that is asked again and again answers at last.

## Refinement

`ImplementsContract` in OpenTofu and in Pulumi is
`Contract!Spec` for an instance of ProvisionerContract in which the attempts
are the operations and `work` is a function of the state of their tofu or
pulumi processes. Every step of the detailed module maps to `Launch`, `Finish`,
`Conclude` or to a stutter. For OpenTofu the fence and the journal are what
make it true, for Pulumi the worker's refusal to redeliver an expired dispatch;
a mutant of each breaks it.

## Disagreements found

1. `dependencies_race`: between the page of waiters and the lock on a waiter's
   operation, a Drive may register the waits again with a higher version. The
   row that was read looks stale, and all rows of the operation are deleted.
2. `passive_once`: each tick enqueues the passive observation of a resource
   with sequence 0, hence under one dedupe key, and an insert whose key exists
   in any state is ignored. Once the first of them is completed, the resource
   is not observed by the loop again.

Eleven more have a configuration of their own beside the listed runs; TLC finds
each violation within half a minute (`tlc -config X.cfg M`):

| Configuration | Module | Property | What it contradicts |
|---|---|---|---|
| `ResourceLife_cleanup` | ResourceLife | `CleanupStaysFailed` | ADR-0011:55 "cleanup deletes of Failed Resources remain Failed" |
| `Execution_ack` | Execution | `AmbiguousIsObserved` | ADR-0006:46 an ambiguous attempt "must be observed" |
| `Execution_quarantine` | Execution | `SuccessNeverQuarantined` | ADR-0011:44 "never quarantined" |
| `Admission_rows` | MCAdmission | `LockersNeverDeadlock` | `resources.go:98` "can never deadlock on ordering" |
| `Admission_delete` | MCAdmission | `DeletesProtected` | ADR-0022:171 "Target delete blocked while ANY inbound desired/applied row stands" |
| `Dependencies_gate` | MCDependencies | `RegisteredWaiterIsWoken` | ADR-0022:137 "Every gate-relevant target transition" enqueues wake work |
| `Dependencies_rows` | MCDependencies | `NoLostWake` | ADR-0022:123 "exact durable waits are registered" |
| `Service_replay` | MCService | `ReplayResolves` | `cli/wait.go:82` "replay the identical request" |
| `Service_wait` | MCService | `WaitIsBounded` | `cli/wait.go:20` "DefaultWaitTimeout bounds --wait" |
| `Service_shutdown` | MCService | `ShutdownIsBounded` | ADR-0010:65 "Shutdown is context-driven with bounded waits" |
| `Crossplane_ready` | Crossplane | `SuccessIsReady` | `observe.go:61` "Ready only when every required condition reports True with condition-level freshness" |

3. `ResourceLife_cleanup`: a passive observation may set Ready=True on a Failed
   resource. When a cleanup delete then fails, `Engine.Fail` takes that
   condition for earlier usability and reports the resource Ready.
4. `Execution_ack`: if the commit of `prepareDispatch`
   (`executor.go:275`) succeeds but its acknowledgement is lost, the message is
   retried with the old expected version, conflicts on the next claim and is
   completed as stale; nothing is left that could finish the operation.
5. `Execution_quarantine`: `finishSuccessInTx` lifts the evidence timestamp on
   every branch but the one that rejects the outputs (`RejectBeforeFrontier`);
   there the lifecycle refuses a regressing timestamp and the message is
   quarantined.
6. `Admission_rows`: a source row is locked before its targets whatever its
   identifier, so an update that adds T to S and the gate of T, which references
   S, do deadlock. The error is retryable and nothing was written.
7. `Admission_delete`: a delete is refused while its resource is referenced, but
   the retry of a failed delete (`application.go:1024`) is not: a resource that
   came to be referenced in between is taken away from under its dependent. It
   takes three requests, hence an instance of two resources and one client.
8. `Dependencies_gate`: an operation that fails at the gate
   (`worker/dependencies.go:100`) wakes nobody; operations that wait for its
   resource stay blocked. A chain of three resources shows it.
9. `Dependencies_rows`: `RegisterDependencyWaits` does not remove the rows of
   targets that no longer block. When the wake of such a target is repeated
   after a crash, or the target changes again, its old row looks stale and all
   rows of the operation are deleted, the needed ones included. One worker
   suffices, so this is not the race of 1.
10. `Service_replay`: without `--generation` the re-run that `cli/wait.go:82`
    advises reads the generation anew, which the first run may have advanced;
    the fingerprint contains it, and the answer is IDEMPOTENCY_CONFLICT.
    `PinnedReplayResolves` (a part of `KeyAdmitsOnce`) states what holds with the
    generation given.
11. `Service_wait`: `--timeout` is compared with the clock between two polls. The
    polls themselves have no deadline: a server that takes the connection and
    does not answer keeps the command for ever, and a mutation likewise.
12. `Service_shutdown`: the last step of `shutdownInOrder` waits for the pool
    without a bound (`main.go:223`). A handler whose listener was cut or a worker
    that outlived its window may hold a connection for any time; the rollback of
    `store.go:48` has no deadline either.
13. `Crossplane_ready`: a required condition that is False without a terminal
    reason sets NotReady (`observe.go:112`) without a look at its generation, and
    the end of the loop replaces that by Ready (`observe.go:120`). An operation
    succeeds with Ready=False, be it current or left from the previous
    generation, as soon as the other conditions are True and fresh. This goes
    against the comment at `observe.go:61` and ADR-0015:83.

Also met while modelling, each without a run of its own. In the core:

* An observation may be requested for an output recovery that has not been
  driven yet (`recovery_planner.go:108`). The last Drive then cannot insert its
  own Observe and is completed as stale, and the observation it lost to is
  quarantined. `disturbed` behaviours reach it.
* `EvaluateDependencies` keeps the class of the last target that is not ready,
  so one failed and one converging target wait or fail depending on the order
  of their identifiers. ADR-0022 says "Any WAIT" waits and "Terminal failure"
  fails, and not which of them comes first; Dependencies models the code's order.

In the provisioners:

* Crossplane: a paused worker's late write is re-based after a conflict
  (accepted by ADR-0015:75); a late create after a delete brings the object
  back; a delete lost on the way to the API server is observed as Running for
  ever; a conflict followed by 404 in `submitDelete` concludes without
  `resolveAbsence`; an envelope of an earlier generation is reported as
  permanently invalid.

In operator recovery:

* The resource diagnostics revision summarises the work of the active
  operation, while the passive trigger compares the work of the resource; an
  operation's revision leaves out DependencyBlocked.
* A quarantined wake of a deleted target cannot be recovered.
* `RecoverDeadWork` locks the operation before the resource, a Drive the
  resource before the operation; PostgreSQL aborts one of them.

In the service:

* A 503 on the last attempt, or a 404 or 500 after an attempt that was admitted
  and whose answer was lost, is reported as rejected without that advice.
* `requireAuthorizedMutation` answers 404 for errors of the store as well.
* In health-only mode the composed runtime is a typed nil, which passes the nil
  check of `shutdownInOrder`.
* A listener that is closed by force leaves its handlers running while the
  store closes; `StoreOutlivesWork` covers those that ended in time.
* `JWKSRefreshEvery` "bounds how long fetched signing keys stay trusted without
  refetch" (`auth/config.go`), while a cached key verifies at any age during an
  outage (`oidc.go:313`), which `CachedKeyVerifies` states.
* The fetch of the keys runs in the context of the request that asked for it; a
  caller who goes away spends the refresh window.

## Proofs

TLC checks small instances; the theorems below hold for every value of the
constants. Each module of proofs states an inductive invariant, checked by TLC
on the instance of the corresponding run before it was proved, one lemma per
action saying that it is preserved, and the theorems at the end.

| Module | Theorem | Statement |
|---|---|---|
| ExecutionProofs | `TypeCorrect` | `Spec => []TypeOK` |
| | `NeverLaunchedTwice` | `Spec => []LaunchedOnce` |
| | `RecordsAreTrue` | `Spec => []AttemptRecordsTrue` |
| | `OutcomesAreTrue` | `Spec => []OutcomeIsTruth` |
| | `WorkIsNeverLost` | `Spec => []OneCurrentMessage` |
| | `LifeTypeCorrect` | `LifeSpec => []LifeTypeOK` |
| | `ActiveIsRepresented` | `LifeSpec => []ActiveRepresented` |
| | `ReconciledIsConverged` | `LifeSpec => []ReconciledMeansConverged` |
| | `DeletedStaysDeleted` | `LifeSpec => DeletedIsFinal` |
| | `UsableNeverFails` | `LifeSpec => FailedOnlyIfNeverUsable` |
| DependenciesProofs | `GateRowsAreCurrent` | `Spec => []GateRowsCurrent` |
| | `NoVersionChangeIsLost` | `Flat` implies `Spec => []RegisteredWaiterIsWoken` |
| AdmissionProofs | `TypeCorrect` | `Spec => []TypeOK` |
| | `GraphStaysAcyclic` | `Spec => []DesiredAcyclic` |
| | `QuotasHold` | `StartsWithinQuotas` implies `Spec => []QuotaHeld` |
| | `DeletionIsProtected` | `Spec => []FreshDeletesProtected` |
| | `LadderIsSafe` | `Spec => []LadderNeverDeadlocks` |
| | `RepeatsAreReplayed` | `Spec => RepeatIsReplayed` |
| OpenTofuProofs | `SafeApplies` | `Spec => []AppliesAreSafe` |
| | `BoundStateIsTrusted` | `Spec => StateIsTrusted` |
| | `ContractKept` | `Spec => ImplementsContract` |
| PulumiProofs | `IsolatedCalls` | `Spec => []CallsAreIsolated` |
| | `ContractKept` | `Spec => ImplementsContract` |
| CrossplaneProofs | `SettlementHolds` | `Spec => []SettlementNotRefuted` |
| | `OwnObjectHolds` | `Spec => OwnObjectOnly` |
| RecoveryProofs | `ActiveWorkIsCurrent` | `Spec => []ActiveIsCurrent` |
| | `QuarantineIsRecoverable` | `Spec => []NothingStranded` |
| | `ActionsAreSound` | `Spec => AcceptedActionIsSound` |
| ServiceProofs | `TruthIsTold` | `Spec => []CommandTellsTruth` |
| | `KeysAdmitOnce` | `Spec => []KeyAdmitsOnce` |
| | `StoreClosesLast` | `Spec => []StoreOutlivesWork` |
| | `WalksAreFaithful` | `AccessSpec => []WalkIsFaithful` |
| | `CachedKeysVerify` | `AccessSpec => CachedKeyVerifies` |

### Assumptions

The constants are constrained only by the named assumptions of the modules that
declare them, which TLC evaluates on the instances: bounds are natural numbers,
"nobody" is not somebody, references lead to resources, the graphs from which
Admission starts are acyclic and stay within one owner (`StartsAssumption`), the
policy is one that Parse accepts, and resources and types are finitely many.
Two theorems have a hypothesis of their own, because the code makes no stronger
promise:

* `Flat`: the targets of references have no references themselves. In a longer
  chain `RegisteredWaiterIsWoken` is false: a Drive that fails at the gate
  (settleGateBlock) changes its resource's state and wakes nobody, which is one
  of the disagreements listed above.
* `StartsWithinQuotas`: the resources that exist at the start are within every
  quota. The policy document is read at start-up, so a tightened quota may find
  more resources than it allows; the code then only refuses new ones.

### Arguments

**ResourceLife.** `ActiveRepresented` alone is not inductive: a passive
observation may turn an Unknown resource Ready, which would make it look like
an active update if Reconciling had stayed True, hence `Settled`.
`ReconciledMeansConverged` speaks of Ready resources at the current generation
only, but Reconciled=True survives a detour through Unknown, hence
`ReconciledJustified`. For the last theorem the state from which a delete was
requested must be visible in the Ready condition until the delete ends:
`DeleteRemembers`. `RequestedFields`, `ObservedFields`, `CompletedFields`,
`FailedFields` and `FinishFields` say what each engine operator returns.

**Execution.** The invariant relates three records of one attempt that are
written in different transactions: the attempt row, the execution row and what
the provider did. Every handler carries what it read before its provider call,
so for each step of a handler the invariant says what is still true of it when
it comes back late: with the lease its rows are as it left them; without it,
its call may have reached a provider that does not fence, and then the attempt
is Unknown or already known to have run. `LaunchedOnce` follows because an
attempt that has been handed to a provider without a fence is never dispatched
again, and a fenced one is refused by its journal.

**Dependencies.** `GateRowsCurrent` needs the versions and identities of
operations to go up only. `NoVersionChangeIsLost` needs more: a waiting
operation has a wait row for every target that could still fail
(`RowsComplete`), and one of its targets holds it (`Holds`): a wake of that
target is under way that will yet look at the row (`Covered`), or the target has
not converged and every later target that has failed is waking the operation.
A wake reads its page of waiters before it locks them, so `Covered` follows a
waking worker through both halves.

**Admission.** What a transaction has read under a lock stays true until it
commits; `PartyOK` states what each holds at each point, and `OthersKnow` shows
that the commit of one leaves the knowledge of the others intact. For the cycle
check the knowledge is not the graph but a set closed under references that
contains the new targets and not the source (`ClosedAway`): the search of
DetectDependencyCycle leaves such a set behind, other owners' commits cannot
touch it, and a cycle would have to leave it. For the ladder, everybody in a
cycle of waiters holds an owner or a row (`CyclesHoldMore`), so none can still
be waiting for a key or an owner. For quotas the knowledge is the room that is
left (`RoomLeft`), which only the holder of the owner lock can use up.

**OpenTofu.** Only the call that holds the lease of the open message writes the
journal, and it has held the lease since its claim, so what an owner has read in
the journal is still there (`OwnerReads`). The journal leaves Prepared once;
the call that moved it is the only one that may start the apply (`OneStarter`,
`MayApply`), the journal is ahead of the process (`JournalAhead`), and a
rejection is given only while the journal is not. Success is read off a marker
that only a complete apply writes, and restored states are former states
(`MarkersTrue`). A call remembers the version of the binding it has read, and
a binding of that version has that state (`Remembers`), so the compare-and-swap
of UpdateState compares with the state that is bound.

**Pulumi.** There is no journal: an update is launched at most once because the
dispatch of an operation is delivered once (`OneDispatch`), and the answers are
true because an entry of the history under an operation's message is how its
update ended (`HistoryTrue`), and a dispatch that is rejected ended before its
launch and leaves no call that could still launch (`RefusedForGood`).

**Crossplane.** The cluster can change between any two requests of a call, so
what a call has read is worth only as much as the version or the UID it sends
along. `VerifiedIsOwned` says that an object which still has the version or the
UID a call remembers is Liftr's; every conditional write and delete therefore
hits an object of Liftr's, and foreign objects stay as they are
(`ForeignUntouched`). No object is made for an accepted operation because a
dispatch is open only before the acceptance (`RowsFit`), so the call that makes
one has lost its lease. What a call is about to answer rests on what it has
seen (`SuccessSeen`, `OutputsSeen`), which is as much as `evaluateObject` asks
for: no condition that refutes the success, not every condition True. Deletion
is the delicate part: a call that has found the name empty answers later, and what was made must still be gone by
then. Undisturbed, infrastructure is there for the present object only
(`InfraFits`), and a delete call has seen this object or its absence
(`DeleteFinishes`), because nobody makes it again while it is being deleted but
a call without a lease, the case that `DeletedMeansDestroyed` excepts.

**Recovery.** `NothingStranded` speaks of the moment at which no work is active,
so the invariant follows the work: while an operation is unfinished one row
that is not completed carries it on (`Carries`), by a Drive before the
dispatch, then by the Dispatch of the current attempt, then by the latest
Observe; what a step enqueues in its place is never swallowed, because the key
of a row has no number that is still to come (`KeyGood`). `Current` says which
versions active rows carry; it is what makes every enqueue of a handler the
only row of its kind, so that no conflict of active work drops it either. Owed
wakes are the same argument (`WakesGood`), with folding: a wake that is folded
into an older one goes on through the version handshake. For If-Match,
`ShownGood` says that what was shown as allowed is a function of the revision
(`AllowedBy`), and `RevisionDecides` that the planner computes that function.

**Service.** Requests outlive the attempt and the run of the command that sent
them, so the invariant is about everything under way (`RequestsGood`): all of
it carries the command's key and, as long as the generation comes from one
place, the same fingerprint. With that a record under the key is the record of
this command (`RecordsGood`), a conflict of generations is met by every late
attempt too (`ConflictGood`), and what the command monitors is what its key
admitted (`MonitorGood`). The steps are taken apart into what the store writes
and what the answer does to the command. `ServerGood` is the order of the
shutdown.

**Access.** Each page is cut, newest first, from the rows that are there when it
is asked for, and the cursor remembers one position. The invariant (`WalkGood`)
is that this position splits what the walk has to show: of the resources that
have matched all along, those at or above it were shown, and nothing below it
was. That a page ends where the next one begins is shown by counting the newer
rows of each row (`NewerCount`, `PageSplits`), with the well-foundedness of the
natural numbers for the last row (`LeastNumber`). Nothing is shown twice because
a page shows rows below the position only. `CachedKeyVerifies` follows from the
steps themselves.

**The refinements** map a tofu process or a Pulumi update to the contract's
work. Launching is `Launch`, ending, being refused, lost or killed is `Finish`,
recording a conclusive answer is `Conclude`, all else is a stutter.

### Model-checked only

* All liveness: `EventuallySettled`, `WaitingReleases`, `FullApplySettles`,
  `EndedUpdateSettles`, `AcceptedSettles`, `HangsOnlyOnOthers` and `KeysConverge`. It
  rests on fairness and ENABLED, which are out of the prover's reach.
* The properties of the runs that expect a violation: TLC refutes them.

Two conventions of the models serve the proofs: conditions that overlap are
IF/ELSE chains rather than CASE, so that what is chosen is a fact of logic and
not of TLC's order of evaluation, and loops are recursive functions.

## Plan

Every safety invariant and every action property that a passing run checks has
a theorem. What remains for later is breadth: the parts listed as partly
modelled, and the two hazards that no property covers yet.

## Not modelled

* A rename into the quarantine that fails (OpenTofu): the workspace stays where
  the scan at the next start finds it, like that of a crashed call.
* The resource type catalogue and the bindings are static configuration that is
  validated at start-up; observability changes no state; migrations run once;
  the in-memory store and the fake provisioner are test doubles; the Backstage
  plugin is a client in another language.
* Encoding, decoding, request limits and rendering in the HTTP layer, the
  read-only commands of the CLI, configuration parsing and wiring at start-up,
  operator grants and the per-action role checks: they refuse or format, and
  keep no state.
* The eager in-process path of `application.go` is enabled by tests only.
  `Operation.Cancel` has no caller.
* The tofu binary, the Pulumi engine, the Kubernetes API server, Crossplane's
  controllers, the OIDC issuer and PostgreSQL are external and modelled by what
  the code relies on.
