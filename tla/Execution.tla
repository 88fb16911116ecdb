----------------------------- MODULE Execution -----------------------------
(***************************************************************************)
(* The durable execution of one admitted operation: the outbox messages    *)
(* that carry it, the workers that lease them, the submission attempts and *)
(* the provisioner they are sent to (internal/worker, the outbox of        *)
(* internal/persistence/postgres, internal/application/submission.go).     *)
(*                                                                         *)
(* Every action is one committed transaction, one provider call boundary   *)
(* or one fault.  Rows of different operations are disjoint, so one        *)
(* operation and any number of workers suffice; the operation has no       *)
(* references, its dependency gate is module Dependencies.                 *)
(*                                                                         *)
(* Message identities of a kind only grow (operation version, attempt      *)
(* number, observation sequence), so outbox[kind] is the newest message of *)
(* that kind and the earlier ones are terminal history.  A lease token is  *)
(* the worker that drew it: a worker handles one claim at a time, so the   *)
(* pair (worker, message it handles) identifies the token.                 *)
(***************************************************************************)
EXTENDS Lifecycle, Sequences

CONSTANTS
  Workers,      \* worker loops sharing the outbox
  Requested,    \* capabilities of the operations under consideration
  NoWorker,     \* token of a message that is not leased
  MaxSetbacks   \* bound on crashes, pauses, transient errors and polls

ASSUME ExecutionAssumption ==
  /\ NoWorker \notin Workers
  /\ Requested \subseteq Capabilities
  /\ MaxSetbacks \in Nat \ {0}

Kinds == {"Drive", "Dispatch", "Observe"}

MessageStates == {"Absent", "Pending", "Leased", "Completed", "Dead"}

ExecutionStates == {"Pending", "Dispatching", "Unknown", "Accepted", "Succeeded", "Failed"}

AttemptStates == {"Pending", "Leased", "Unknown", "Accepted", "Rejected", "NotFound"}

OutputResolutions == {"None", "Pending", "Published", "Rejected"}

SubmitResults == {"NotAttempted", "Ambiguous", "AmbiguousFound", "Rejected", "Absent",
                  "Running", "Succeeded", "Failed"}

ObserveResults == {"Stale", "NotFound", "NotFoundFailed", "Uncorrelated", "FoundUnknown",
                   "Running", "Succeeded", "Failed"}

BackendStates == {"None", "Running", "Succeeded", "Failed"}

Steps == {"idle", "claimed", "submitting", "submitted", "observing", "observed"}

VARIABLES
  op,        \* the operation row (Lifecycle operation)
  opVersion, \* its record version
  exec,      \* the provisioning execution row
  attempts,  \* submission attempt states, by attempt number
  outbox,    \* newest message of each kind
  worker,    \* what each worker loop is doing
  backend,   \* provider truth for each attempt
  launches,  \* history: how often each attempt was launched
  late,      \* history: attempts launched by a worker that had lost its lease
  present,   \* provider truth: the managed target existed beforehand
  setbacks,  \* faults used up so far
  disturbed  \* acknowledgements of commits may be lost, operators may interfere

rows == <<op, opVersion, exec, attempts>>
provider == <<backend, launches, late, present>>
vars == <<op, opVersion, exec, attempts, outbox, worker, backend, launches, late, present,
          setbacks, disturbed>>
limits == <<setbacks, disturbed>>

Messages == [n: Nat, expected: Nat, state: MessageStates, token: Workers \cup {NoWorker},
             live: BOOLEAN]

Executions == [state: ExecutionStates, version: Nat, nextObs: Nat, accepted: BOOLEAN,
               outputs: OutputResolutions, recovery: BOOLEAN, fenced: BOOLEAN]

Claims == [step: Steps, kind: Kinds, n: Nat, version: Nat, sent: BOOLEAN,
           result: SubmitResults \cup ObserveResults]

TypeOK ==
  /\ op \in Operations
  /\ opVersion \in Nat
  /\ exec \in Executions
  /\ attempts \in Seq(AttemptStates)
  /\ outbox \in [Kinds -> Messages]
  /\ worker \in [Workers -> Claims]
  /\ backend \in Seq(BackendStates)
  /\ launches \in Seq(Nat)
  /\ late \subseteq 1..Len(attempts)
  /\ present \in BOOLEAN
  /\ setbacks \in 0..MaxSetbacks /\ disturbed \in BOOLEAN

-----------------------------------------------------------------------------
(* The outbox. *)

NoMessage == [n |-> 0, expected |-> 0, state |-> "Absent", token |-> NoWorker, live |-> FALSE]

NewMessage(n, expected) ==
  [n |-> n, expected |-> expected, state |-> "Pending", token |-> NoWorker, live |-> FALSE]

Active(m) == m.state \in {"Pending", "Leased"}

\* Insertion is ignored for a spent dedupe key and violates the unique index
\* while another message of the kind is active; the whole transaction that
\* attempts it then aborts.
CanEnqueue(box, kind, n) == n <= box[kind].n \/ ~Active(box[kind])

Enqueue(box, kind, n, expected) ==
  IF n <= box[kind].n THEN box ELSE [box EXCEPT ![kind] = NewMessage(n, expected)]

\* Releasing the lease: the row leaves state Leased.
Release(box, kind, state) ==
  [box EXCEPT ![kind].state = state, ![kind].token = NoWorker, ![kind].live = FALSE]

Complete(box, kind) == Release(box, kind, "Completed")

\* The message a worker handles is still leased to it and unexpired: what
\* every completion, renewal and retry statement demands.
Owns(w) ==
  LET m == outbox[worker[w].kind]
  IN  /\ m.n = worker[w].n
      /\ m.state = "Leased"
      /\ m.token = w
      /\ m.live

\* The execution is bound to a fenced, redeliverable provisioner (OpenTofu).
Fenced == exec.fenced

\* The execution's current attempt number.
Attempt == Len(attempts)

\* The execution is still the one this worker prepared.
DispatchHeld(w) ==
  /\ exec.version = worker[w].version
  /\ exec.state = "Dispatching"
  /\ Attempt = worker[w].n
  /\ attempts[worker[w].n] = "Leased"

Handles(w, kind) == worker[w].step # "idle" /\ worker[w].kind = kind /\ worker[w].n = outbox[kind].n

Idle == [step |-> "idle", kind |-> "Drive", n |-> 0, version |-> 0, sent |-> FALSE,
         result |-> "Ambiguous"]

BecomeIdle(w) == worker' = [worker EXCEPT ![w] = Idle]

Setback ==
  /\ setbacks < MaxSetbacks
  /\ setbacks' = setbacks + 1
  /\ UNCHANGED disturbed

-----------------------------------------------------------------------------
\* Admission committed the operation with its execution and first Drive.  An
\* output recovery starts from a source whose backend success is durable.
Init ==
  /\ op \in {RequestedOperation(cap, 1) : cap \in Requested}
  /\ opVersion = 1
  /\ \E recovery, fenced \in BOOLEAN :
       /\ recovery => op.cap # "delete"
       /\ exec = [state |-> IF recovery THEN "Succeeded" ELSE "Pending", version |-> 1,
                  nextObs |-> 1, accepted |-> FALSE,
                  outputs |-> IF recovery THEN "Pending" ELSE "None", recovery |-> recovery,
                  fenced |-> fenced]
  /\ attempts = <<>>
  /\ outbox = [k \in Kinds |-> IF k = "Drive" THEN NewMessage(1, 1) ELSE NoMessage]
  /\ worker = [w \in Workers |-> Idle]
  /\ backend = <<>>
  /\ launches = <<>>
  /\ late = {}
  /\ present \in (IF op.cap = "delete" THEN BOOLEAN ELSE {op.cap = "update"})
  /\ disturbed \in BOOLEAN
  /\ setbacks = IF disturbed THEN 1 ELSE 0

\* Pending messages, and expired leases of any kind but Dispatch.
Claim(w, kind) ==
  LET m == outbox[kind]
  IN  /\ worker[w].step = "idle"
      /\ \/ m.state = "Pending"
         \/ m.state = "Leased" /\ ~m.live /\ kind # "Dispatch"
      /\ outbox' = [outbox EXCEPT ![kind].state = "Leased", ![kind].token = w, ![kind].live = TRUE]
      /\ worker' = [worker EXCEPT ![w] = [Idle EXCEPT !.step = "claimed", !.kind = kind, !.n = m.n]]
      /\ UNCHANGED <<rows, provider, limits>>

\* The handler's fenced write fails: whatever it tried is rolled back, and the
\* stale settlement that follows fails as well.  A dispatch result that no
\* longer fits the records is dropped with its lease left to expire.
LoseClaim(w) ==
  /\ worker[w].step # "idle"
  /\ ~Owns(w) \/ (worker[w].step = "submitted" /\ ~DispatchHeld(w))
  /\ BecomeIdle(w)
  /\ UNCHANGED <<rows, outbox, provider, limits>>

\* A transient error before any provider work: retried with backoff.
RetryOutbox(w) ==
  /\ worker[w].step = "claimed" \/ worker[w].step = "observing"
  /\ Owns(w)
  /\ Setback
  /\ outbox' = Release(outbox, worker[w].kind, "Pending")
  /\ BecomeIdle(w)
  /\ UNCHANGED <<rows, provider>>

-----------------------------------------------------------------------------
(* Drive: one phase per message, then the first submission attempt. *)

\* An execution with its next observation reserved, and the message for it.
ScheduleObserve(x) == [x EXCEPT !.nextObs = @ + 1]

EnqueueObserve(box, x) == Enqueue(box, "Observe", x.nextObs, exec.version + 1)

SaveExecution(x) == exec' = [x EXCEPT !.version = exec.version + 1]

AppendAttempt ==
  /\ attempts' = Append(attempts, "Pending")
  /\ backend' = Append(backend, "None")
  /\ launches' = Append(launches, 0)
  /\ UNCHANGED <<late, present>>

\* A stale or already dispatchable Drive is completed without any effect.
DriveStale == opVersion # outbox["Drive"].expected \/ IsTerminal(op) \/ NextPhase(op) = "None"

DriveAdvances(w) ==
  LET next == NextPhase(op)
      advanced == AdvancePhase(op, next)
      box == Complete(outbox, "Drive")
  IN  /\ op' = advanced
      /\ opVersion' = opVersion + 1
      /\ \/ /\ ~IsFinalPhase(advanced)
            /\ outbox' = Enqueue(box, "Drive", opVersion + 1, opVersion + 1)
            /\ UNCHANGED <<exec, attempts, provider>>
         \/ /\ IsFinalPhase(advanced) /\ Attempt = 0 /\ exec.recovery
            /\ CanEnqueue(box, "Observe", exec.nextObs)
            /\ outbox' = EnqueueObserve(box, exec)
            /\ SaveExecution(ScheduleObserve(exec))
            /\ UNCHANGED <<attempts, provider>>
         \/ /\ IsFinalPhase(advanced) /\ Attempt = 0 /\ ~exec.recovery
            /\ CanEnqueue(box, "Dispatch", 1)
            /\ outbox' = Enqueue(box, "Dispatch", 1, exec.version + 1)
            /\ SaveExecution(exec)
            /\ AppendAttempt

Drive(w) ==
  /\ worker[w].step = "claimed" /\ worker[w].kind = "Drive"
  /\ Owns(w)
  /\ IF DriveStale
     THEN outbox' = Complete(outbox, "Drive") /\ UNCHANGED <<rows, provider>>
     ELSE DriveAdvances(w)
  /\ BecomeIdle(w)
  /\ UNCHANGED limits

-----------------------------------------------------------------------------
(* Dispatch: prepare, submit under a heartbeat, record. *)

SetAttempt(n, state) == attempts' = [attempts EXCEPT ![n] = state]

\* The message, the execution and the attempt still belong together.
DispatchCurrent(n) ==
  /\ exec.version = outbox["Dispatch"].expected
  /\ exec.state = "Pending"
  /\ Attempt = n
  /\ attempts[n] = "Pending"

PrepareRows(n) ==
  /\ SetAttempt(n, "Leased")
  /\ SaveExecution([exec EXCEPT !.state = "Dispatching"])
  /\ UNCHANGED <<op, opVersion>>

Prepare(w) ==
  /\ worker[w].step = "claimed" /\ worker[w].kind = "Dispatch"
  /\ Owns(w)
  /\ DispatchCurrent(worker[w].n)
  /\ PrepareRows(worker[w].n)
  /\ worker' = [worker EXCEPT ![w].step = "submitting", ![w].version = exec.version + 1]
  /\ UNCHANGED <<outbox, provider, limits>>

\* The preparation commits, but the worker is told that it failed and retries
\* the message as it stood.
PrepareUnacknowledged(w) ==
  /\ disturbed
  /\ worker[w].step = "claimed" /\ worker[w].kind = "Dispatch"
  /\ Owns(w)
  /\ DispatchCurrent(worker[w].n)
  /\ Setback
  /\ PrepareRows(worker[w].n)
  /\ outbox' = Release(outbox, "Dispatch", "Pending")
  /\ BecomeIdle(w)
  /\ UNCHANGED provider

\* The provider call takes effect.  A paused worker may get here after its
\* lease is gone; a fenced provisioner then refuses, and it also refuses an
\* attempt whose journal says that an apply may have started.
Launch(w) ==
  LET n == worker[w].n
  IN  /\ worker[w].step = "submitting" /\ ~worker[w].sent
      /\ Fenced => Owns(w) /\ Attempt = n /\ backend[n] = "None"
      /\ backend' = [backend EXCEPT ![n] = IF @ = "None" THEN "Running" ELSE @]
      /\ launches' = [launches EXCEPT ![n] = @ + 1]
      /\ late' = IF Owns(w) THEN late ELSE late \cup {n}
      /\ worker' = [worker EXCEPT ![w].sent = TRUE]
      /\ UNCHANGED <<rows, outbox, present, limits>>

\* What a truthful provisioner may answer to Submit.
SubmitAnswers(w) ==
  LET truth == backend[worker[w].n]
  IN  CASE worker[w].sent                     -> {truth, "Ambiguous", "AmbiguousFound"}
        [] ~worker[w].sent /\ truth # "None" -> {"AmbiguousFound"}
        [] OTHER -> {"NotAttempted", "Ambiguous", "Rejected"}
                    \cup (IF Fenced THEN {"AmbiguousFound"} ELSE {"Failed"})
                    \cup (IF op.cap = "delete" /\ ~present THEN {"Absent"} ELSE {})

\* The answer counts only if the heartbeat's last renewal succeeds.
SubmitReturns(w) ==
  /\ worker[w].step = "submitting"
  /\ Owns(w)
  /\ \E answer \in SubmitAnswers(w) :
       /\ IF answer \in {"NotAttempted", "Ambiguous"}
          THEN Setback ELSE UNCHANGED limits
       /\ worker' = [worker EXCEPT ![w].step = "submitted", ![w].result = answer]
  /\ UNCHANGED <<rows, outbox, provider>>

Recordable(w) == worker[w].step = "submitted" /\ Owns(w) /\ DispatchHeld(w)

\* Mutant: the message is rescheduled with the version it had.
RetryNotAttemptedUnrefreshed(w) ==
  /\ Recordable(w)
  /\ worker[w].result = "NotAttempted"
  /\ SetAttempt(worker[w].n, "Pending")
  /\ SaveExecution([exec EXCEPT !.state = "Pending"])
  /\ outbox' = Release(outbox, "Dispatch", "Pending")
  /\ BecomeIdle(w)
  /\ UNCHANGED <<op, opVersion, provider, limits>>

\* Conclusively nothing was attempted: the same attempt is rescheduled with a
\* refreshed version fence.
RetryNotAttempted(w) ==
  /\ Recordable(w)
  /\ worker[w].result = "NotAttempted"
  /\ SetAttempt(worker[w].n, "Pending")
  /\ SaveExecution([exec EXCEPT !.state = "Pending"])
  /\ outbox' = [Release(outbox, "Dispatch", "Pending") EXCEPT !["Dispatch"].expected = exec.version + 1]
  /\ BecomeIdle(w)
  /\ UNCHANGED <<op, opVersion, provider, limits>>

\* Mutant: the attempt is labelled with the outcome instead of its state.
GoUnknownMislabelled(n, accepted) ==
  LET x == [exec EXCEPT !.state = "Unknown", !.accepted = @ \/ accepted]
  IN  /\ CanEnqueue(outbox, "Observe", x.nextObs)
      /\ SetAttempt(n, "Ambiguous")
      /\ SaveExecution(ScheduleObserve(x))
      /\ outbox' = EnqueueObserve(Complete(outbox, "Dispatch"), x)
      /\ UNCHANGED <<op, opVersion, provider>>

\* The attempt's outcome is unknown: only an observation may decide it.
GoUnknown(n, accepted) ==
  LET x == [exec EXCEPT !.state = "Unknown", !.accepted = @ \/ accepted]
  IN  /\ CanEnqueue(outbox, "Observe", x.nextObs)
      /\ SetAttempt(n, "Unknown")
      /\ SaveExecution(ScheduleObserve(x))
      /\ outbox' = EnqueueObserve(Complete(outbox, "Dispatch"), x)
      /\ UNCHANGED <<op, opVersion, provider>>

\* The output dimension of a success; a rejection may carry a timestamp that
\* precedes the resource's own timeline, which this one branch does not lift.
OutputPlans ==
  IF op.cap = "delete" THEN {"None"}
  ELSE {"None", "Publish", "Defer", "Reject", "RejectBeforeFrontier"}

Finish(x, state, kind) ==
  /\ op' = [op EXCEPT !.state = state]
  /\ opVersion' = opVersion + 1
  /\ SaveExecution(x)
  /\ outbox' = Complete(outbox, kind)

FinishSuccess(x, kind, plan) ==
  \/ /\ plan = "Defer"
     /\ Setback
     /\ CanEnqueue(Complete(outbox, kind), "Observe", x.nextObs)
     /\ SaveExecution(ScheduleObserve([x EXCEPT !.outputs = "Pending"]))
     /\ outbox' = EnqueueObserve(Complete(outbox, kind), x)
     /\ UNCHANGED <<op, opVersion>>
  \/ /\ plan = "Reject"
     /\ Finish([x EXCEPT !.outputs = "Rejected"], "Failed", kind)
     /\ UNCHANGED limits
  \/ /\ plan \in {"None", "Publish"}
     /\ IsFinalPhase(op)
     /\ Finish([x EXCEPT !.outputs = IF plan = "Publish" THEN "Published" ELSE "None"],
               "Succeeded", kind)
     /\ UNCHANGED limits

\* The transaction that records a Submit answer other than NotAttempted.
RecordDispatch(w) ==
  LET n == worker[w].n
      answer == worker[w].result
      x == [exec EXCEPT !.accepted = answer \notin {"Rejected", "Absent"}]
  IN  /\ Recordable(w)
      /\ BecomeIdle(w)
      /\ UNCHANGED provider
      /\ \/ /\ answer = "Ambiguous" /\ GoUnknown(n, FALSE)
            /\ UNCHANGED limits
         \/ /\ answer = "AmbiguousFound" /\ GoUnknown(n, TRUE)
            /\ UNCHANGED limits
         \/ /\ answer = "Running"
            /\ CanEnqueue(outbox, "Observe", exec.nextObs)
            /\ SetAttempt(n, "Accepted")
            /\ SaveExecution(ScheduleObserve([x EXCEPT !.state = "Accepted"]))
            /\ outbox' = EnqueueObserve(Complete(outbox, "Dispatch"), exec)
            /\ UNCHANGED <<op, opVersion, limits>>
         \/ /\ answer \in {"Rejected", "Failed"}
            /\ SetAttempt(n, IF answer = "Rejected" THEN "Rejected" ELSE "Accepted")
            /\ Finish([x EXCEPT !.state = "Failed"], "Failed", "Dispatch")
            /\ UNCHANGED limits
         \/ /\ answer \in {"Absent", "Succeeded"}
            /\ SetAttempt(n, IF answer = "Absent" THEN "Rejected" ELSE "Accepted")
            /\ \E plan \in OutputPlans :
                 FinishSuccess([x EXCEPT !.state = "Succeeded"], "Dispatch", plan)

\* Mutant: a result that could not be recorded fails the operation.
MarkDispatchFailed(w) ==
  /\ Recordable(w)
  /\ worker[w].result # "NotAttempted"
  /\ Setback
  /\ SetAttempt(worker[w].n, "Rejected")
  /\ Finish([exec EXCEPT !.state = "Failed"], "Failed", "Dispatch")
  /\ BecomeIdle(w)
  /\ UNCHANGED provider

\* Recording failed without a conflict: by a transient store error, or because
\* the lifecycle refused the timestamp of an output rejection.
MarkDispatchUnknown(w) ==
  /\ Recordable(w)
  /\ worker[w].result # "NotAttempted"
  /\ \/ Setback
     \/ /\ worker[w].result = "Succeeded" /\ "RejectBeforeFrontier" \in OutputPlans
        /\ UNCHANGED limits
  /\ GoUnknown(worker[w].n, FALSE)
  /\ BecomeIdle(w)

-----------------------------------------------------------------------------
(* Expired dispatches are not reclaimed but recovered. *)

\* Mutant: every expired dispatch is redelivered.
CanRedeliverAlways == TRUE

\* Only a provisioner that fences its own journal may see an attempt twice.
CanRedeliver == Fenced

\* A worker that cannot resolve the provisioner does not redeliver either.
RecoverExpiredDispatch(w) ==
  LET m == outbox["Dispatch"]
      n == m.n
  IN  /\ worker[w].step = "idle"
      /\ m.state = "Leased" /\ ~m.live
      /\ IF Attempt # n
         THEN outbox' = Complete(outbox, "Dispatch") /\ UNCHANGED <<rows, provider, limits>>
         ELSE \/ /\ exec.state = "Pending" /\ attempts[n] = "Pending"
                 /\ outbox' = Release(outbox, "Dispatch", "Pending")
                 /\ UNCHANGED <<rows, provider, limits>>
              \/ /\ exec.state = "Dispatching" /\ attempts[n] = "Leased" /\ CanRedeliver
                 /\ SetAttempt(n, "Pending")
                 /\ SaveExecution([exec EXCEPT !.state = "Pending"])
                 /\ outbox' = [Release(outbox, "Dispatch", "Pending")
                                 EXCEPT !["Dispatch"].expected = exec.version + 1]
                 /\ UNCHANGED <<op, opVersion, provider, limits>>
              \/ /\ exec.state = "Dispatching" /\ attempts[n] = "Leased"
                 /\ \/ ~CanRedeliver /\ UNCHANGED limits
                    \/ CanRedeliver /\ Setback
                 /\ GoUnknown(n, FALSE)
      /\ UNCHANGED worker

-----------------------------------------------------------------------------
(* Observe: load, ask the provider under a heartbeat, record. *)

ObserveCurrent(n, version) == exec.version = version /\ exec.nextObs = n + 1

LoadObservation(w) ==
  /\ worker[w].step = "claimed" /\ worker[w].kind = "Observe"
  /\ Owns(w)
  /\ ObserveCurrent(worker[w].n, outbox["Observe"].expected)
  /\ worker' = [worker EXCEPT ![w].step = "observing", ![w].version = exec.version]
  /\ UNCHANGED <<rows, outbox, provider, limits>>

\* An answer that decides nothing is a setback.
Undecided(answer) ==
  \/ answer \in {"Stale", "Uncorrelated", "FoundUnknown", "Running"}
  \/ answer = "NotFound" /\ exec.accepted

\* Backend success is durable and only the outputs are outstanding.
OutputsPending == exec.state = "Succeeded" /\ exec.outputs = "Pending"

\* What a truthful provisioner may answer to Observe for the current attempt,
\* or for the source's attempt when only outputs are recovered.  A backend may
\* lose sight of a request that it once confirmed.
ObserveAnswers ==
  IF exec.recovery THEN {"Succeeded", "Uncorrelated"}
  ELSE (IF OutputsPending THEN {"Uncorrelated"} ELSE {"Stale", "Uncorrelated"}) \cup
       (IF backend[Attempt] # "None"
        THEN {backend[Attempt], "FoundUnknown"}
             \cup (IF exec.accepted /\ ~Fenced THEN {"NotFound"} ELSE {})
        ELSE IF Fenced                         THEN {"NotFoundFailed"}
        ELSE IF op.cap = "delete" /\ ~present THEN {"Succeeded"}
        ELSE {"NotFound"})

ObserveReturns(w) ==
  /\ worker[w].step = "observing"
  /\ Owns(w)
  /\ \E answer \in ObserveAnswers :
       /\ IF Undecided(answer) THEN Setback ELSE UNCHANGED limits
       /\ worker' = [worker EXCEPT ![w].step = "observed", ![w].result = answer]
  /\ UNCHANGED <<rows, outbox, provider>>

\* Mutant: absence is taken at face value after a confirmed acceptance.
MayResubmitAccepted == exec.state = "Unknown"

\* Absence authorizes a new attempt only for an outcome that is unknown and
\* was never confirmed as accepted.
MayResubmit == exec.state = "Unknown" /\ ~exec.accepted

\* The recording transaction changes the old attempt from Unknown.
ObservationApplies(w) ==
  /\ ObserveCurrent(worker[w].n, worker[w].version)
  /\ OutputsPending => ~IsTerminal(op)
  /\ ~OutputsPending /\ (\/ worker[w].result = "NotFoundFailed"
                         \/ worker[w].result = "NotFound" /\ MayResubmit)
       => attempts[Attempt] = "Unknown"

Observable(w) == worker[w].step = "observed" /\ Owns(w) /\ ObservationApplies(w)

\* Mutant: the observation loop ends.
ObserveNoMore(x) ==
  /\ SaveExecution(x)
  /\ outbox' = Complete(outbox, "Observe")
  /\ UNCHANGED <<op, opVersion, attempts, provider, limits>>

\* The loop stays alive: the next sequence number with the next version.
ObserveAgain(x) ==
  /\ SaveExecution(ScheduleObserve(x))
  /\ outbox' = EnqueueObserve(Complete(outbox, "Observe"), x)
  /\ UNCHANGED <<op, opVersion, attempts, provider, limits>>

RecordPendingOutputs(w) ==
  /\ Observable(w)
  /\ OutputsPending
  /\ BecomeIdle(w)
  /\ \/ /\ worker[w].result = "Succeeded"
        /\ \E plan \in OutputPlans : FinishSuccess(exec, "Observe", plan)
        /\ UNCHANGED <<attempts, provider>>
     \/ /\ worker[w].result # "Succeeded" /\ exec.recovery
        /\ ObserveAgain(exec)

RecordObservation(w) ==
  LET answer == worker[w].result
      x == [exec EXCEPT !.accepted = TRUE]
  IN  /\ Observable(w)
      /\ ~OutputsPending
      /\ BecomeIdle(w)
      /\ \/ /\ answer = "Stale"
            /\ ObserveAgain(exec)
         \/ /\ answer = "NotFoundFailed"
            /\ SetAttempt(Attempt, "Rejected")
            /\ Finish([exec EXCEPT !.state = "Failed", !.accepted = FALSE], "Failed", "Observe")
            /\ UNCHANGED <<provider, limits>>
         \/ /\ answer = "NotFound" /\ MayResubmit
            /\ CanEnqueue(outbox, "Dispatch", Attempt + 1)
            /\ attempts' = Append([attempts EXCEPT ![Attempt] = "NotFound"], "Pending")
            /\ backend' = Append(backend, "None")
            /\ launches' = Append(launches, 0)
            /\ UNCHANGED late
            /\ SaveExecution([exec EXCEPT !.state = "Pending"])
            /\ outbox' = Enqueue(Complete(outbox, "Observe"), "Dispatch", Attempt + 1, exec.version + 1)
            /\ UNCHANGED <<op, opVersion, present, limits>>
         \/ /\ answer = "Uncorrelated" \/ (answer = "NotFound" /\ ~MayResubmit)
            /\ ObserveAgain([exec EXCEPT !.state = "Unknown"])
         \/ /\ answer = "FoundUnknown"
            /\ ObserveAgain([x EXCEPT !.state = "Unknown"])
         \/ /\ answer = "Running"
            /\ ObserveAgain([x EXCEPT !.state = "Accepted"])
         \/ /\ answer = "Failed"
            /\ Finish([x EXCEPT !.state = "Failed"], "Failed", "Observe")
            /\ UNCHANGED <<attempts, provider, limits>>
         \/ /\ answer = "Succeeded"
            /\ \E plan \in OutputPlans :
                 FinishSuccess([x EXCEPT !.state = "Succeeded"], "Observe", plan)
            /\ UNCHANGED <<attempts, provider>>

\* The lifecycle refuses the evidence: the message is quarantined.
QuarantineObservation(w) ==
  /\ Observable(w)
  /\ \/ worker[w].result = "Succeeded" /\ "RejectBeforeFrontier" \in OutputPlans
     \/ worker[w].result = "Succeeded" /\ ~IsFinalPhase(op)
     \/ OutputsPending /\ worker[w].result # "Succeeded" /\ ~exec.recovery
  /\ outbox' = Release(outbox, "Observe", "Dead")
  /\ BecomeIdle(w)
  /\ UNCHANGED <<rows, provider, limits>>

-----------------------------------------------------------------------------
\* An operator or a caller schedules one more observation of an operation that
\* the planner takes for observable and that has no active Observe.
TriggerObserve ==
  /\ disturbed
  /\ ~IsTerminal(op)
  /\ exec.state \in {"Unknown", "Accepted"} \/ OutputsPending
  /\ ~Active(outbox["Observe"])
  /\ Setback
  /\ SaveExecution(ScheduleObserve(exec))
  /\ outbox' = EnqueueObserve(outbox, exec)
  /\ UNCHANGED <<op, opVersion, attempts, worker, provider>>

\* The handler met a version, state or index conflict although it holds the
\* lease: the message is taken to be obsolete and completed.
Conflicts(w) ==
  \/ /\ worker[w].step = "claimed"
     /\ \/ worker[w].kind = "Dispatch" /\ ~DispatchCurrent(worker[w].n)
        \/ worker[w].kind = "Observe" /\ ~ObserveCurrent(worker[w].n, outbox["Observe"].expected)
        \/ /\ worker[w].kind = "Drive" /\ ~DriveStale
           /\ IsFinalPhase(AdvancePhase(op, NextPhase(op)))
           /\ \/ Attempt # 0
              \/ ~CanEnqueue(outbox, IF exec.recovery THEN "Observe" ELSE "Dispatch",
                                     IF exec.recovery THEN exec.nextObs ELSE 1)
  \/ worker[w].step = "observed" /\ ~ObservationApplies(w)

SettleStale(w) ==
  /\ Owns(w)
  /\ Conflicts(w)
  /\ outbox' = Complete(outbox, worker[w].kind)
  /\ BecomeIdle(w)
  /\ UNCHANGED <<rows, provider, limits>>

-----------------------------------------------------------------------------
(* Faults and the passage of time. *)

\* The process dies, or the handler panics: its lease stays in the table.
Crash(w) ==
  /\ worker[w].step # "idle"
  /\ Setback
  /\ BecomeIdle(w)
  /\ UNCHANGED <<rows, outbox, provider>>

\* A lease that nobody renews any more runs out.
AbandonedLeaseExpires(kind) ==
  /\ outbox[kind].state = "Leased" /\ outbox[kind].live
  /\ ~Handles(outbox[kind].token, kind)
  /\ outbox' = [outbox EXCEPT ![kind].live = FALSE]
  /\ UNCHANGED <<rows, worker, provider, limits>>

\* Its holder is paused, or cut off from the database, for a lease's length.
HeldLeaseExpires(kind) ==
  /\ outbox[kind].state = "Leased" /\ outbox[kind].live
  /\ Handles(outbox[kind].token, kind)
  /\ Setback
  /\ outbox' = [outbox EXCEPT ![kind].live = FALSE]
  /\ UNCHANGED <<rows, worker, provider>>

BackendFinishes(i) ==
  /\ backend[i] = "Running"
  /\ \E outcome \in {"Succeeded", "Failed"} : backend' = [backend EXCEPT ![i] = outcome]
  /\ UNCHANGED <<rows, outbox, worker, launches, late, present, limits>>

-----------------------------------------------------------------------------
\* One worker loop: an unfinished handler always has a step to take.
WorkerStep(w) ==
  \/ \E kind \in Kinds : Claim(w, kind)
  \/ LoseClaim(w)
  \/ Drive(w)
  \/ Prepare(w)
  \/ Launch(w)
  \/ SubmitReturns(w)
  \/ RetryNotAttempted(w)
  \/ RecordDispatch(w)
  \/ RecoverExpiredDispatch(w)
  \/ LoadObservation(w)
  \/ ObserveReturns(w)
  \/ RecordPendingOutputs(w)
  \/ RecordObservation(w)
  \/ QuarantineObservation(w)
  \/ SettleStale(w)

Fault ==
  \/ \E w \in Workers : \/ RetryOutbox(w) \/ PrepareUnacknowledged(w)
                        \/ MarkDispatchUnknown(w) \/ Crash(w)
  \/ \E kind \in Kinds : HeldLeaseExpires(kind)

Next ==
  \/ \E w \in Workers : WorkerStep(w)
  \/ Fault
  \/ TriggerObserve
  \/ \E kind \in Kinds : AbandonedLeaseExpires(kind)
  \/ \E i \in 1..Len(backend) : BackendFinishes(i)

Spec == Init /\ [][Next]_vars

\* Workers keep polling, time passes and the backend finishes what it runs.
Fairness ==
  /\ \A w \in Workers : WF_vars(WorkerStep(w))
  /\ \A kind \in Kinds : WF_vars(AbandonedLeaseExpires(kind))
  /\ WF_vars(\E i \in 1..Len(backend) : BackendFinishes(i))

FairSpec == Spec /\ Fairness

-----------------------------------------------------------------------------
(* Properties. *)

\* The active message of a kind agrees with the records it will be checked
\* against, so the handler that claims it acts instead of settling it stale.
Current(kind) ==
  LET m == outbox[kind]
  IN  /\ Active(m)
      /\ \/ kind = "Drive" /\ m.expected = opVersion /\ ~IsFinalPhase(op)
         \/ /\ kind = "Dispatch" /\ m.n = Attempt /\ IsFinalPhase(op)
            /\ \/ /\ exec.state = "Pending" /\ attempts[m.n] = "Pending"
                  /\ m.expected = exec.version
               \/ /\ exec.state = "Dispatching" /\ attempts[m.n] = "Leased"
                  /\ m.state = "Leased"
         \/ /\ kind = "Observe" /\ m.expected = exec.version /\ m.n + 1 = exec.nextObs
            /\ IsFinalPhase(op)
            /\ exec.state \in {"Unknown", "Accepted"} \/ OutputsPending

Quarantined == \E kind \in Kinds : outbox[kind].state = "Dead"

\* ADR-0006 and the comment of runOnce ("The work this message represents has
\* already moved on, or another claimant owns it"): an unfinished operation
\* always has exactly one active message, and it is current, unless an
\* operator-visible quarantine holds it; a finished one leaves no work behind.
\* (A lost acknowledgement of the preparation and an observation that is asked for
\* too early both break it.)
OneCurrentMessage ==
  LET active == {kind \in Kinds : Active(outbox[kind])}
  IN  IF disturbed THEN TRUE
      ELSE IF IsTerminal(op) THEN active = {}
      ELSE IF Quarantined THEN active = {}
      ELSE \E kind \in Kinds : active = {kind} /\ Current(kind)

\* A submission attempt reaches the provider at most once, whatever crashes,
\* lease expiries and redeliveries happen (recoverExpiredDispatch,
\* retryNotAttemptedDispatch, SubmitFenced).
LaunchedOnce == \A i \in DOMAIN launches : launches[i] <= 1

\* An attempt that was superseded by a fresh one never ran, except when its
\* worker was paused past its lease before it called the provider
\* (InterpretObservation, ObservationOutcomeRetry); a fenced provisioner
\* rules that out too.
SupersededNeverRan ==
  /\ \A i \in 1..(Attempt - 1) : launches[i] > 0 => i \in late
  /\ Fenced => late = {}

\* The acceptance flag, which forbids resubmission, is only set for an attempt
\* that the provider really runs (AcceptanceConfirmed, submission.go).
AcceptedWasLaunched ==
  exec.accepted /\ ~IsTerminal(op) /\ ~Fenced => backend[Attempt] # "None"

\* What the records say of an attempt is what the provider did with it: nothing
\* ran that was superseded, and something runs that was accepted, so neither a
\* resubmission nor a refusal to resubmit rests on a false record.
AttemptRecordsTrue == SupersededNeverRan /\ AcceptedWasLaunched

\* The outcome recorded for the operation is the provider's: success is never
\* recorded for an attempt that did not succeed, nor failure for one that is
\* still running or has succeeded, unless its outputs were rejected.
OutcomeIsTruth ==
  /\ op.state = "Succeeded" =>
       \/ exec.recovery
       \/ op.cap = "delete" /\ ~present
       \/ backend[Attempt] = "Succeeded"
  /\ op.state = "Failed" /\ exec.outputs # "Rejected" => backend[Attempt] \in {"None", "Failed"}

\* Every operation is finished or quarantined in the end (RunOnce), evidence older
\* than the resource's own timeline included.
EventuallySettled == <>(IsTerminal(op) \/ Quarantined \/ disturbed)

\* ADR-0006: "A crash or timeout between those steps produces an ambiguous attempt
\* that must be observed": an execution in dispatch always has a message that will
\* finish or recover it (recoverExpiredDispatch), or is quarantined.
AmbiguousIsObserved ==
  exec.state = "Dispatching" => Quarantined \/ \E kind \in Kinds : Active(outbox[kind])

\* ADR-0011: a "positively correlated terminal success" whose timestamp regresses is
\* "applied immediately - never quarantined" (finishSuccessInTx), here of an
\* execution that nobody interfered with and whose outputs were not deferred.
SuccessNeverQuarantined ==
  ~disturbed /\ Attempt > 0 /\ exec.outputs # "Pending"
    => ~(Quarantined /\ backend[Attempt] = "Succeeded")
=============================================================================
