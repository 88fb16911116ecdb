-------------------------- MODULE ExecutionProofs --------------------------
(***************************************************************************)
(* Proofs about Execution for any set of workers, any requested            *)
(* capabilities and any number of setbacks.                                *)
(*                                                                         *)
(* The invariants that the runs check are not inductive.  What carries     *)
(* them is how the rows, the active message, the leases and the provider   *)
(* agree while a worker is between two of its transactions.                *)
(*                                                                         *)
(* The second part is about ResourceLife, the resource on which such       *)
(* operations follow one another.                                          *)
(***************************************************************************)
EXTENDS Execution, ResourceLife, SequenceTheorems, TLAPS

InDispatch(w) == worker[w].step \in {"submitting", "submitted"}

InObserve(w) == worker[w].step \in {"observing", "observed"}

\* Only an observation can move the execution on.
ObserveOpen == exec.state \in {"Unknown", "Accepted"} \/ OutputsPending

\* The operation, its execution and its attempts tell one story.
RowsAgree ==
  /\ op.cap = "delete" => op.phase \notin {"Planning", "Applying"}
  /\ op.cap # "delete" => op.phase # "Destroying"
  /\ Len(backend) = Attempt /\ Len(launches) = Attempt
  /\ \A i \in 1..Attempt : backend[i] = "None" <=> launches[i] = 0
  /\ Attempt > 0 => IsFinalPhase(op) /\ ~exec.recovery
  /\ Attempt = 0 => exec.recovery \/ (exec.state = "Pending" /\ ~IsTerminal(op))
  /\ exec.recovery => exec.state = "Succeeded" /\ op.cap # "delete" /\ ~exec.accepted
  /\ exec.recovery /\ ~IsTerminal(op) => OutputsPending
  /\ exec.state \in {"Pending", "Dispatching"} => ~exec.accepted
  /\ exec.state = "Dispatching" => attempts[Attempt] = "Leased"
  /\ exec.state = "Accepted" => exec.accepted /\ backend[Attempt] # "None"
  /\ exec.state = "Unknown" =>
       attempts[Attempt] = "Unknown" \/ (exec.accepted /\ backend[Attempt] # "None")
  /\ IsTerminal(op) => exec.state \in {"Succeeded", "Failed"} /\ ~OutputsPending
  /\ OutputsPending => exec.recovery \/ backend[Attempt] = "Succeeded"

\* An active Dispatch or Observe message fits the rows it was written with, so
\* the two are never active together.
MessagesAgree ==
  /\ outbox["Drive"].n <= opVersion
  /\ outbox["Dispatch"].n <= Attempt
  /\ outbox["Observe"].n < exec.nextObs
  /\ Active(outbox["Dispatch"]) =>
       /\ outbox["Dispatch"].n = Attempt /\ Attempt > 0
       /\ \/ /\ exec.state = "Pending" /\ attempts[Attempt] = "Pending"
             /\ outbox["Dispatch"].expected = exec.version
          \/ exec.state = "Dispatching"
  /\ Active(outbox["Observe"]) =>
       /\ outbox["Observe"].expected = exec.version
       /\ outbox["Observe"].n + 1 = exec.nextObs
       /\ ObserveOpen

\* A handler has called no provider before its preparation.
FreshClaims == \A w \in Workers : worker[w].step \in {"idle", "claimed"} => ~worker[w].sent

\* A worker between Prepare and its recording transaction: without fencing it
\* is the only one that may still call the provider for its attempt, and while
\* it holds the lease the execution is the one it prepared.
DispatcherAgrees(w) ==
  /\ worker[w].kind = "Dispatch" /\ worker[w].n \in 1..Attempt
  /\ worker[w].sent => backend[worker[w].n] # "None"
  /\ ~Fenced => /\ attempts[worker[w].n] # "Pending"
                /\ ~worker[w].sent => backend[worker[w].n] = "None"
                /\ \A v \in Workers : InDispatch(v) /\ worker[v].n = worker[w].n => v = w
  /\ Owns(w) => exec.state = "Dispatching" /\ worker[w].version = exec.version

DispatchersAgree == \A w \in Workers : InDispatch(w) => DispatcherAgrees(w)

\* A Submit answer stays true until it is recorded.
AnswerTrue(n, sent, r) ==
  /\ r \in SubmitResults
  /\ r = "Succeeded" => backend[n] = "Succeeded"
  /\ r = "Running" => backend[n] # "None"
  /\ r = "Failed" => backend[n] = "Failed" \/ (~Fenced /\ ~sent)
  /\ r = "AmbiguousFound" /\ ~Fenced => backend[n] # "None"
  /\ r \in {"NotAttempted", "Rejected", "Absent"} => ~sent
  /\ r = "Absent" => op.cap = "delete" /\ ~present

AnswersTrue ==
  \A w \in Workers : worker[w].step = "submitted" =>
    /\ AnswerTrue(worker[w].n, worker[w].sent, worker[w].result)
    /\ worker[w].result = "Rejected" /\ Fenced /\ Owns(w) => backend[worker[w].n] = "None"

ObserversAgree ==
  \A w \in Workers : InObserve(w) =>
    /\ worker[w].kind = "Observe"
    /\ Owns(w) => worker[w].version = exec.version

\* The evidence in an observer's hands stays true while it holds the lease.
EvidenceTrue(r) ==
  /\ r \in ObserveResults
  /\ r = "NotFoundFailed" => Fenced /\ Attempt > 0 /\ backend[Attempt] = "None"
  /\ r = "NotFound" => /\ ~Fenced /\ Attempt > 0
                       /\ exec.accepted \/ launches[Attempt] = 0 \/ Attempt \in late
  /\ r = "Failed" => Attempt > 0 /\ backend[Attempt] = "Failed"
  /\ r = "Succeeded" => \/ exec.recovery
                        \/ op.cap = "delete" /\ ~present
                        \/ Attempt > 0 /\ backend[Attempt] = "Succeeded"
  /\ r \in {"Running", "FoundUnknown"} => Attempt > 0 /\ backend[Attempt] # "None"

EvidencesTrue ==
  \A w \in Workers : worker[w].step = "observed" /\ Owns(w) => EvidenceTrue(worker[w].result)

\* Without fencing an attempt that may be sent has not been sent before.
PendingNeverRan ==
  ~Fenced => \A i \in 1..Attempt : attempts[i] = "Pending" => backend[i] = "None"

\* A failure that was recorded for an attempt that never ran is final: nobody
\* is left who could still send it.
RefusedForGood ==
  op.state = "Failed" /\ exec.outputs # "Rejected" =>
    /\ Attempt > 0
    /\ backend[Attempt] # "Failed" /\ ~Fenced =>
         \A w \in Workers : ~(InDispatch(w) /\ worker[w].n = Attempt)

\* Where the one active message of an undisturbed operation is.
Undisturbed ==
  ~disturbed =>
    /\ outbox["Drive"].state # "Dead" /\ outbox["Dispatch"].state # "Dead"
    /\ ~IsFinalPhase(op) =>
         /\ ~IsTerminal(op) /\ Active(outbox["Drive"]) /\ outbox["Drive"].expected = opVersion
         /\ ~Active(outbox["Dispatch"])
         /\ ~Active(outbox["Observe"]) /\ outbox["Observe"].state # "Dead"
    /\ IsFinalPhase(op) => ~Active(outbox["Drive"])
    /\ IsFinalPhase(op) /\ ~IsTerminal(op) =>
         IF ObserveOpen THEN Active(outbox["Observe"]) \/ outbox["Observe"].state = "Dead"
         ELSE /\ Active(outbox["Dispatch"]) /\ outbox["Observe"].state # "Dead"
              /\ exec.state = "Dispatching" => outbox["Dispatch"].state = "Leased"

UndisturbedClaims ==
  ~disturbed => \A w \in Workers : worker[w].step = "claimed" /\ worker[w].kind = "Dispatch" /\ Owns(w)
                                     => exec.state = "Pending"

IInv ==
  /\ TypeOK
  /\ RowsAgree
  /\ MessagesAgree
  /\ FreshClaims
  /\ DispatchersAgree
  /\ AnswersTrue
  /\ ObserversAgree
  /\ EvidencesTrue
  /\ PendingNeverRan
  /\ RefusedForGood
  /\ Undisturbed
  /\ UndisturbedClaims
  /\ LaunchedOnce
  /\ AttemptRecordsTrue
  /\ OutcomeIsTruth

-----------------------------------------------------------------------------
(* The initial state. *)

\* Admission (persistCreateRequest and its siblings) establishes the invariant.
LEMMA InitIInv == Init => IInv
<1> SUFFICES ASSUME Init PROVE IInv
  OBVIOUS
<1> USE ExecutionAssumption
<1>1. PICK cap \in Requested : op = RequestedOperation(cap, 1)
  BY DEF Init
<1>2. /\ op \in Operations /\ op.cap = cap /\ op.state = "Pending" /\ op.phase = "Requested"
  BY <1>1 DEF RequestedOperation, Operations, OperationStates, Phases, Capabilities
<1>3. PICK recovery, fenced \in BOOLEAN :
        /\ recovery => op.cap # "delete"
        /\ exec = [state |-> IF recovery THEN "Succeeded" ELSE "Pending", version |-> 1,
                   nextObs |-> 1, accepted |-> FALSE,
                   outputs |-> IF recovery THEN "Pending" ELSE "None", recovery |-> recovery,
                   fenced |-> fenced]
  BY DEF Init
<1>4. /\ exec \in Executions /\ exec.nextObs = 1 /\ ~exec.accepted
      /\ exec.recovery <=> recovery
      /\ exec.state = IF recovery THEN "Succeeded" ELSE "Pending"
      /\ exec.outputs = IF recovery THEN "Pending" ELSE "None"
  BY <1>3 DEF Executions, ExecutionStates, OutputResolutions
<1>5. /\ attempts = <<>> /\ backend = <<>> /\ launches = <<>> /\ late = {}
      /\ Attempt = 0 /\ Len(backend) = 0 /\ Len(launches) = 0
  BY DEF Init, Attempt
<1>6. /\ outbox["Drive"] = NewMessage(1, 1)
      /\ outbox["Dispatch"] = NoMessage /\ outbox["Observe"] = NoMessage
  BY DEF Init, Kinds
<1>7. \A w \in Workers : worker[w].step = "idle" /\ ~worker[w].sent
  BY DEF Init, Idle
<1>8. TypeOK
  <2>1. outbox \in [Kinds -> Messages]
    BY DEF Init, Messages, NewMessage, NoMessage, Kinds, MessageStates
  <2>2. worker \in [Workers -> Claims]
    BY DEF Init, Idle, Claims, Steps, Kinds, SubmitResults
  <2>3. present \in BOOLEAN /\ disturbed \in BOOLEAN
    BY Zenon DEF Init
  <2>4. setbacks \in 0..MaxSetbacks
    <3>1. setbacks = 0 \/ setbacks = 1
      BY DEF Init
    <3>2. QED
      BY <3>1
  <2>5. QED
    BY <1>2, <1>4, <1>5, <2>1, <2>2, <2>3, <2>4 DEF TypeOK, Init
<1>9. RowsAgree
  BY <1>2, <1>3, <1>4, <1>5 DEF RowsAgree, IsTerminal, OutputsPending
<1>10. MessagesAgree /\ Undisturbed
  BY <1>2, <1>4, <1>5, <1>6, Init
  DEF Init, MessagesAgree, Undisturbed, Active, NewMessage, NoMessage, IsTerminal, IsFinalPhase
<1>11. FreshClaims /\ DispatchersAgree /\ AnswersTrue /\ ObserversAgree /\ EvidencesTrue
       /\ UndisturbedClaims
  BY <1>7 DEF FreshClaims, DispatchersAgree, AnswersTrue, ObserversAgree, EvidencesTrue, UndisturbedClaims,
              InDispatch, InObserve
<1>12. PendingNeverRan /\ RefusedForGood /\ LaunchedOnce /\ AttemptRecordsTrue /\ OutcomeIsTruth
  BY <1>2, <1>4, <1>5
  DEF PendingNeverRan, RefusedForGood, LaunchedOnce, AttemptRecordsTrue, SupersededNeverRan,
      AcceptedWasLaunched, OutcomeIsTruth
<1>13. QED
  BY <1>8, <1>9, <1>10, <1>11, <1>12 DEF IInv

-----------------------------------------------------------------------------
(* Steps that leave the rows and the provider alone. *)

\* What a worker loop does between its transactions: leases come and go, a
\* handler ends or starts, but nobody gains a lease in the middle of a handler.
Quiet ==
  /\ TypeOK'
  /\ UNCHANGED <<rows, provider, disturbed>>
  /\ \A kind \in Kinds : /\ outbox'[kind].n = outbox[kind].n
                         /\ outbox'[kind].expected = outbox[kind].expected
                         /\ Active(outbox[kind])' => Active(outbox[kind])
  /\ \A w \in Workers : \/ worker'[w].step \in {"idle", "claimed"} /\ ~worker'[w].sent
                        \/ worker'[w] = worker[w] /\ (Owns(w)' => Owns(w))

\* A quiet step (Claim, retry, stale settlement, lost lease, crash) can only
\* disturb where the active message is.
LEMMA QuietStep ==
  ASSUME IInv, Quiet, Undisturbed', UndisturbedClaims' PROVE IInv'
<1> USE DEF IInv
<1>1. /\ op' = op /\ opVersion' = opVersion /\ exec' = exec /\ attempts' = attempts
      /\ backend' = backend /\ launches' = launches /\ late' = late /\ present' = present
  BY DEF Quiet, rows, provider
<1>2. RowsAgree'
  BY <1>1 DEF RowsAgree, Attempt, OutputsPending, IsTerminal, IsFinalPhase
<1>3. MessagesAgree'
  BY <1>1 DEF Quiet, MessagesAgree, Attempt, ObserveOpen, OutputsPending, Kinds
<1>4. \A w \in Workers : InDispatch(w)' \/ InObserve(w)'
        => worker'[w] = worker[w] /\ (Owns(w)' => Owns(w))
  BY DEF Quiet, InDispatch, InObserve
<1>5. DispatchersAgree'
  <2> SUFFICES ASSUME NEW w \in Workers, InDispatch(w)' PROVE DispatcherAgrees(w)'
    BY DEF DispatchersAgree
  <2>1. /\ worker'[w] = worker[w] /\ (Owns(w)' => Owns(w))
        /\ DispatcherAgrees(w)
        /\ \A v \in Workers : InDispatch(v)' => InDispatch(v) /\ worker'[v] = worker[v]
    BY <1>4 DEF InDispatch, DispatchersAgree
  <2>2. QED
    BY <1>1, <2>1 DEF DispatcherAgrees, Attempt, Fenced
<1>6. AnswersTrue'
  BY <1>1, <1>4 DEF AnswersTrue, AnswerTrue, InDispatch, Fenced
<1>7. ObserversAgree'
  BY <1>1, <1>4 DEF ObserversAgree, InObserve
<1>8. EvidencesTrue'
  BY <1>1, <1>4 DEF EvidencesTrue, EvidenceTrue, InObserve, Fenced, Attempt
<1>9. PendingNeverRan' /\ LaunchedOnce' /\ AttemptRecordsTrue' /\ OutcomeIsTruth'
  BY <1>1 DEF PendingNeverRan, LaunchedOnce, AttemptRecordsTrue, OutcomeIsTruth,
              SupersededNeverRan, AcceptedWasLaunched, Attempt, Fenced, IsTerminal
<1>10. RefusedForGood'
  BY <1>1, <1>4 DEF RefusedForGood, InDispatch, Attempt, Fenced
<1>11. FreshClaims'
  BY DEF Quiet, FreshClaims
<1>12. QED
  BY <1>2, <1>3, <1>5, <1>6, <1>7, <1>8, <1>9, <1>10, <1>11 DEF Quiet

\* Release (RetryOutbox, CompleteOutbox, QuarantineOutbox) changes the state and
\* the lease of one message and nothing else.
LEMMA ReleaseFields ==
  ASSUME NEW box \in [Kinds -> Messages], NEW kind \in Kinds, NEW state \in MessageStates
  PROVE  LET r == Release(box, kind, state) IN
         /\ r \in [Kinds -> Messages]
         /\ r[kind].n = box[kind].n
         /\ r[kind].expected = box[kind].expected
         /\ r[kind].state = state
         /\ r[kind].token = NoWorker
         /\ \A k \in Kinds \ {kind} : r[k] = box[k]
BY DEF Release, Messages

\* Enqueue with an unspent identity replaces the newest message of its kind.
LEMMA EnqueueFields ==
  ASSUME NEW box \in [Kinds -> Messages], NEW kind \in Kinds, NEW n \in Nat, NEW expected \in Nat,
         n > box[kind].n
  PROVE  LET r == Enqueue(box, kind, n, expected) IN
         /\ r \in [Kinds -> Messages]
         /\ r[kind] = NewMessage(n, expected)
         /\ r[kind].n = n
         /\ r[kind].expected = expected
         /\ r[kind].state = "Pending"
         /\ \A k \in Kinds \ {kind} : r[k] = box[k]
<1>1. NewMessage(n, expected) \in Messages
  BY DEF NewMessage, Messages, MessageStates
<1>2. box[kind].n \in Nat
  BY DEF Messages
<1>3. QED
  BY <1>1, <1>2 DEF Enqueue, NewMessage

\* Ending a handler leaves the other workers as they were.
LEMMA IdleFields ==
  ASSUME TypeOK, NEW w \in Workers, BecomeIdle(w)
  PROVE  /\ worker' \in [Workers -> Claims]
         /\ worker'[w].step = "idle" /\ ~worker'[w].sent
         /\ \A v \in Workers \ {w} : worker'[v] = worker[v]
<1>1. Idle \in Claims /\ Idle.step = "idle" /\ ~Idle.sent
  BY DEF Idle, Claims, Steps, Kinds, SubmitResults
<1>2. QED
  BY <1>1 DEF TypeOK, BecomeIdle

\* A lease is held by one worker at a time: the token of its row.
LEMMA OneOwner ==
  ASSUME NEW w \in Workers, NEW v \in Workers, Owns(w), Owns(v), worker[w].kind = worker[v].kind
  PROVE  v = w
BY DEF Owns

\* A lost lease (ErrLeaseLost) and a crash drop the handler's work and change
\* no record.
LEMMA DroppedStep ==
  ASSUME IInv, NEW w \in Workers, BecomeIdle(w), UNCHANGED <<rows, outbox, provider, disturbed>>,
         setbacks' \in 0..MaxSetbacks
  PROVE  IInv'
<1> USE DEF IInv
<1>1. /\ worker' \in [Workers -> Claims]
      /\ worker'[w].step = "idle" /\ ~worker'[w].sent
      /\ \A v \in Workers \ {w} : worker'[v] = worker[v]
  BY IdleFields
<1>2. \A v \in Workers : worker'[v] = worker[v] => (Owns(v)' => Owns(v))
  BY DEF Owns
<1>3. TypeOK'
  BY <1>1 DEF TypeOK, rows, provider
<1>4. Quiet
  BY <1>1, <1>2, <1>3 DEF Quiet
<1>5. Undisturbed' /\ UndisturbedClaims'
  BY <1>1, <1>2 DEF Undisturbed, UndisturbedClaims, ObserveOpen, OutputsPending, rows
<1>6. QED
  BY <1>4, <1>5, QuietStep

\* Releasing an active message without touching a record (a retry, a stale
\* settlement, a quarantine) keeps the invariant; of an undisturbed operation
\* only a retried message or a quarantined observation keeps its place.
LEMMA ReleaseStep ==
  ASSUME IInv, NEW kind \in Kinds, NEW state \in {"Pending", "Completed", "Dead"},
         Active(outbox[kind]),
         outbox' = Release(outbox, kind, state),
         worker' = worker \/ \E w \in Workers : BecomeIdle(w),
         UNCHANGED <<rows, provider, disturbed>>,
         setbacks' \in 0..MaxSetbacks,
         disturbed \/ (state = "Pending" /\ (kind = "Dispatch" => exec.state = "Pending"))
                   \/ (state = "Dead" /\ kind = "Observe")
  PROVE  IInv'
<1> USE DEF IInv
<1>1. /\ outbox' \in [Kinds -> Messages]
      /\ outbox'[kind].n = outbox[kind].n
      /\ outbox'[kind].expected = outbox[kind].expected
      /\ outbox'[kind].state = state
      /\ outbox'[kind].token = NoWorker
      /\ \A k \in Kinds \ {kind} : outbox'[k] = outbox[k]
  BY ReleaseFields DEF TypeOK, MessageStates
<1>2. /\ worker' \in [Workers -> Claims]
      /\ \A w \in Workers : worker'[w] = worker[w] \/ (worker'[w].step = "idle" /\ ~worker'[w].sent)
  BY IdleFields DEF TypeOK
<1>3. \A w \in Workers : worker'[w] = worker[w] => (Owns(w)' => Owns(w))
  BY <1>1, ExecutionAssumption DEF Owns, TypeOK, Claims
<1>4. TypeOK'
  BY <1>1, <1>2 DEF TypeOK, rows, provider
<1>5. Quiet
  BY <1>1, <1>2, <1>3, <1>4 DEF Quiet, Active
<1>6. Undisturbed'
  BY <1>1 DEF Undisturbed, MessagesAgree, RowsAgree, Active, ObserveOpen, OutputsPending, rows, Kinds,
              IsTerminal, IsFinalPhase
<1>7. UndisturbedClaims'
  BY <1>2, <1>3 DEF UndisturbedClaims, rows
<1>8. QED
  BY <1>5, <1>6, <1>7, QuietStep

\* A setback stays within its bound and disturbs nothing.
LEMMA SetbackCounts ==
  ASSUME TypeOK, Setback PROVE setbacks' \in 0..MaxSetbacks /\ disturbed' = disturbed
BY ExecutionAssumption DEF TypeOK, Setback

\* A worker that owns its lease handles an active message.
LEMMA OwnedIsActive ==
  ASSUME TypeOK, NEW w \in Workers, Owns(w)
  PROVE  /\ worker[w].kind \in Kinds
         /\ Active(outbox[worker[w].kind])
         /\ outbox[worker[w].kind].state = "Leased"
         /\ outbox[worker[w].kind].n = worker[w].n
BY DEF Owns, Active, TypeOK, Claims

\* ClaimOutbox: an idle worker becomes the one owner of the message.
LEMMA ClaimStep ==
  ASSUME IInv, NEW w \in Workers, NEW kind \in Kinds, Claim(w, kind) PROVE IInv'
<1> USE DEF IInv
<1>1. /\ outbox' = [outbox EXCEPT ![kind].state = "Leased", ![kind].token = w, ![kind].live = TRUE]
      /\ worker' = [worker EXCEPT ![w] = [Idle EXCEPT !.step = "claimed", !.kind = kind,
                                                      !.n = outbox[kind].n]]
      /\ UNCHANGED <<rows, provider, limits>>
      /\ worker[w].step = "idle" /\ Active(outbox[kind])
      /\ kind = "Dispatch" => outbox[kind].state = "Pending"
  BY DEF Claim, Active
<1>2. /\ outbox' \in [Kinds -> Messages]
      /\ outbox'[kind].n = outbox[kind].n
      /\ outbox'[kind].expected = outbox[kind].expected
      /\ outbox'[kind].state = "Leased"
      /\ outbox'[kind].token = w
      /\ \A k \in Kinds \ {kind} : outbox'[k] = outbox[k]
  BY <1>1 DEF TypeOK, Messages, MessageStates
<1>3. /\ worker' \in [Workers -> Claims]
      /\ worker'[w].step = "claimed" /\ worker'[w].kind = kind /\ ~worker'[w].sent
      /\ \A v \in Workers \ {w} : worker'[v] = worker[v]
  BY <1>1 DEF TypeOK, Idle, Claims, Steps, SubmitResults, Messages
<1>4. ASSUME NEW v \in Workers \ {w}, Owns(v)' PROVE Owns(v)
  <2>1. worker'[v] = worker[v] /\ worker[v].kind \in Kinds
    BY <1>3 DEF TypeOK, Claims
  <2>2. CASE worker[v].kind = kind
    BY <1>2, <1>4, <2>1, <2>2 DEF Owns
  <2>3. CASE worker[v].kind # kind
    BY <1>2, <1>4, <2>1, <2>3 DEF Owns
  <2>4. QED
    BY <2>2, <2>3
<1>5. TypeOK'
  BY <1>1, <1>2, <1>3 DEF TypeOK, rows, provider, limits
<1>6. Quiet
  BY <1>1, <1>2, <1>3, <1>4, <1>5 DEF Quiet, Active, limits
<1>7. Undisturbed'
  BY <1>1, <1>2 DEF Undisturbed, Active, ObserveOpen, OutputsPending, rows, limits, Kinds
<1>8. ~disturbed /\ kind = "Dispatch" => exec.state = "Pending"
  BY <1>1 DEF Undisturbed, MessagesAgree, RowsAgree, Active, ObserveOpen, OutputsPending
<1>9. UndisturbedClaims'
  BY <1>1, <1>3, <1>4, <1>8 DEF UndisturbedClaims, rows, limits
<1>10. QED
  BY <1>6, <1>7, <1>9, QuietStep

\* A lease that runs out keeps its message where it is.
LEMMA ExpiryStep ==
  ASSUME IInv, NEW kind \in Kinds, outbox' = [outbox EXCEPT ![kind].live = FALSE],
         UNCHANGED <<rows, worker, provider, disturbed>>, setbacks' \in 0..MaxSetbacks
  PROVE  IInv'
<1> USE DEF IInv
<1>1. /\ outbox' \in [Kinds -> Messages]
      /\ outbox'[kind].n = outbox[kind].n
      /\ outbox'[kind].expected = outbox[kind].expected
      /\ outbox'[kind].state = outbox[kind].state
      /\ ~outbox'[kind].live
      /\ \A k \in Kinds \ {kind} : outbox'[k] = outbox[k]
  BY DEF TypeOK, Messages
<1>2. \A v \in Workers : Owns(v)' => Owns(v)
  BY <1>1 DEF Owns, TypeOK, Claims
<1>3. TypeOK'
  BY <1>1 DEF TypeOK, rows, provider
<1>4. Quiet
  BY <1>1, <1>2, <1>3 DEF Quiet, Active
<1>5. Undisturbed'
  BY <1>1 DEF Undisturbed, Active, ObserveOpen, OutputsPending, rows, Kinds
<1>6. UndisturbedClaims'
  BY <1>2 DEF UndisturbedClaims, rows
<1>7. QED
  BY <1>4, <1>5, <1>6, QuietStep

\* A transient error before any provider call (RetryOutbox) puts the message
\* back; an undisturbed Dispatch is then still unprepared.
LEMMA RetryOutboxStep ==
  ASSUME IInv, NEW w \in Workers, RetryOutbox(w) PROVE IInv'
<1> USE DEF IInv
<1>1. worker[w].kind \in Kinds /\ Active(outbox[worker[w].kind])
  BY OwnedIsActive DEF RetryOutbox
<1>2. ~disturbed /\ worker[w].kind = "Dispatch" => exec.state = "Pending"
  BY DEF RetryOutbox, UndisturbedClaims, ObserversAgree, InObserve
<1>3. setbacks' \in 0..MaxSetbacks /\ disturbed' = disturbed
  BY SetbackCounts DEF RetryOutbox
<1>4. QED
  BY <1>1, <1>2, <1>3, ReleaseStep DEF RetryOutbox

\* QuarantineOutbox of evidence that the lifecycle refuses.
LEMMA QuarantineStep ==
  ASSUME IInv, NEW w \in Workers, QuarantineObservation(w) PROVE IInv'
<1> USE DEF IInv
<1>1. worker[w].kind = "Observe" /\ Active(outbox["Observe"])
  BY OwnedIsActive DEF QuarantineObservation, Observable, ObserversAgree, InObserve
<1>2. setbacks' \in 0..MaxSetbacks /\ disturbed' = disturbed
  BY DEF QuarantineObservation, limits, TypeOK
<1>3. QED
  BY <1>1, <1>2, ReleaseStep DEF QuarantineObservation, Kinds

\* The lifecycle always has a next phase before the final one (NextPhase).
LEMMA PhaseAdvances ==
  ASSUME TypeOK, RowsAgree, ~IsFinalPhase(op)
  PROVE  /\ NextPhase(op) # "None"
         /\ NextPhase(op) \in Phases
         /\ op.cap = "delete" => NextPhase(op) \notin {"Planning", "Applying"}
         /\ op.cap # "delete" => NextPhase(op) # "Destroying"
BY DEF TypeOK, RowsAgree, Operations, Phases, IsFinalPhase, NextPhase

\* The evidence of a lease holder always applies (RecordObservation): the
\* attempt whose absence it reports is the one recorded as unknown.
LEMMA EvidenceApplies ==
  ASSUME IInv, NEW w \in Workers, worker[w].step = "observed", Owns(w)
  PROVE  ObservationApplies(w)
<1> USE DEF IInv
<1>1. worker[w].kind = "Observe" /\ worker[w].version = exec.version
  BY DEF ObserversAgree, InObserve
<1>2. Active(outbox["Observe"]) /\ outbox["Observe"].n = worker[w].n
  BY <1>1, OwnedIsActive
<1>3. ObserveCurrent(worker[w].n, worker[w].version) /\ ObserveOpen
  BY <1>1, <1>2 DEF MessagesAgree, ObserveCurrent
<1>4. OutputsPending => ~IsTerminal(op)
  BY DEF RowsAgree
<1>5. EvidenceTrue(worker[w].result)
  BY DEF EvidencesTrue
<1>6. ~OutputsPending /\ (\/ worker[w].result = "NotFoundFailed"
                          \/ worker[w].result = "NotFound" /\ MayResubmit)
        => attempts[Attempt] = "Unknown"
  BY <1>3, <1>5 DEF EvidenceTrue, RowsAgree, ObserveOpen, MayResubmit
<1>7. QED
  BY <1>3, <1>4, <1>6 DEF ObservationApplies

\* A handler of an undisturbed operation never meets a conflict while it holds
\* its lease, so settling a message as stale (settleStaleOutbox) loses nothing.
LEMMA UndisturbedNeverStale ==
  ASSUME IInv, NEW w \in Workers, Owns(w), ~disturbed
  PROVE  /\ ~Conflicts(w)
         /\ worker[w].kind = "Drive" => ~DriveStale
<1> USE DEF IInv
<1>1. /\ worker[w].kind \in Kinds
      /\ Active(outbox[worker[w].kind])
      /\ outbox[worker[w].kind].state = "Leased"
      /\ outbox[worker[w].kind].n = worker[w].n
  BY OwnedIsActive
<1>2. CASE worker[w].kind = "Drive"
  <2>1. ~IsFinalPhase(op) /\ ~IsTerminal(op) /\ outbox["Drive"].expected = opVersion
    BY <1>1, <1>2 DEF Undisturbed
  <2>2. ~DriveStale
    BY <2>1, PhaseAdvances DEF DriveStale
  <2>3. Attempt = 0 /\ ~Active(outbox["Dispatch"]) /\ ~Active(outbox["Observe"])
    BY <2>1 DEF RowsAgree, Undisturbed, TypeOK, Attempt
  <2>4. ~Conflicts(w)
    BY <1>2, <2>3, EvidenceApplies DEF Conflicts, CanEnqueue, Kinds
  <2>5. QED
    BY <2>2, <2>4
<1>3. CASE worker[w].kind = "Dispatch"
  <2>1. worker[w].step = "claimed" => exec.state = "Pending"
    BY <1>3 DEF UndisturbedClaims
  <2>2. worker[w].step = "claimed" => DispatchCurrent(worker[w].n)
    BY <1>1, <1>3, <2>1 DEF MessagesAgree, DispatchCurrent
  <2>3. QED
    BY <1>3, <2>2, EvidenceApplies DEF Conflicts
<1>4. CASE worker[w].kind = "Observe"
  <2>1. ObserveCurrent(worker[w].n, outbox["Observe"].expected)
    BY <1>1, <1>4 DEF MessagesAgree, ObserveCurrent
  <2>2. QED
    BY <1>4, <2>1, EvidenceApplies DEF Conflicts
<1>5. QED
  BY <1>1, <1>2, <1>3, <1>4 DEF Kinds

\* settleStaleOutbox completes a message and changes no record.
LEMMA SettleStaleStep ==
  ASSUME IInv, NEW w \in Workers, SettleStale(w) PROVE IInv'
<1>1. worker[w].kind \in Kinds /\ Active(outbox[worker[w].kind]) /\ disturbed
  BY OwnedIsActive, UndisturbedNeverStale DEF SettleStale, IInv, TypeOK
<1>2. setbacks' \in 0..MaxSetbacks /\ disturbed' = disturbed
  BY DEF SettleStale, limits, IInv, TypeOK
<1>3. QED
  BY <1>1, <1>2, ReleaseStep DEF SettleStale, Complete

-----------------------------------------------------------------------------
(* Steps of one handler that write no record: what a call returned is kept    *)
(* in the worker's memory.                                                    *)

\* A handler that holds its lease takes an answer that is true now.
LEMMA AnswerStep ==
  ASSUME IInv, NEW w \in Workers, Owns(w),
         UNCHANGED <<rows, outbox, provider, disturbed>>,
         setbacks' \in 0..MaxSetbacks,
         worker' \in [Workers -> Claims],
         \A v \in Workers \ {w} : worker'[v] = worker[v],
         worker'[w].kind = worker[w].kind,
         worker'[w].n = worker[w].n,
         worker'[w].sent = worker[w].sent,
         \/ /\ worker'[w].step = "submitted" /\ worker[w].step = "submitting"
            /\ worker'[w].version = worker[w].version
            /\ AnswerTrue(worker[w].n, worker[w].sent, worker'[w].result)
            /\ worker'[w].result = "Rejected" /\ Fenced => backend[worker[w].n] = "None"
         \/ /\ InObserve(w)'
            /\ worker[w].kind = "Observe" /\ worker'[w].version = exec.version
            /\ worker'[w].step = "observed" => EvidenceTrue(worker'[w].result)
  PROVE  IInv'
<1> USE DEF IInv
<1>1. /\ op' = op /\ opVersion' = opVersion /\ exec' = exec /\ attempts' = attempts
      /\ backend' = backend /\ launches' = launches /\ late' = late /\ present' = present
      /\ outbox' = outbox /\ disturbed' = disturbed
  BY DEF rows, provider
<1>2. \A v \in Workers : Owns(v)' <=> Owns(v)
  BY <1>1 DEF Owns
<1>3. TypeOK'
  BY <1>1 DEF TypeOK
<1>4. RowsAgree' /\ MessagesAgree' /\ Undisturbed'
  BY <1>1 DEF RowsAgree, MessagesAgree, Undisturbed, Attempt, ObserveOpen, OutputsPending
<1>5. DispatchersAgree'
  <2> SUFFICES ASSUME NEW v \in Workers, InDispatch(v)' PROVE DispatcherAgrees(v)'
    BY DEF DispatchersAgree
  <2>1. \A u \in Workers : InDispatch(u)' => InDispatch(u) /\ worker'[u].n = worker[u].n
    BY DEF InDispatch, InObserve
  <2>2. DispatcherAgrees(v) /\ worker'[v].kind = worker[v].kind
        /\ worker'[v].sent = worker[v].sent /\ worker'[v].version = worker[v].version
    BY <2>1 DEF DispatchersAgree, InObserve, InDispatch
  <2>3. QED
    BY <1>1, <1>2, <2>1, <2>2 DEF DispatcherAgrees, Attempt, Fenced
<1>6. AnswersTrue'
  BY <1>1, <1>2 DEF AnswersTrue, AnswerTrue, Fenced, InObserve
<1>7. ObserversAgree'
  BY <1>1, <1>2 DEF ObserversAgree, InObserve
<1>8. EvidencesTrue'
  BY <1>1, <1>2 DEF EvidencesTrue, EvidenceTrue, Fenced, Attempt, InObserve
<1>9. PendingNeverRan' /\ LaunchedOnce' /\ AttemptRecordsTrue' /\ OutcomeIsTruth'
  BY <1>1 DEF PendingNeverRan, LaunchedOnce, AttemptRecordsTrue, OutcomeIsTruth,
              SupersededNeverRan, AcceptedWasLaunched, Attempt, Fenced, IsTerminal
<1>10. RefusedForGood'
  BY <1>1 DEF RefusedForGood, InDispatch, InObserve, Attempt, Fenced
<1>11. UndisturbedClaims'
  BY <1>1, <1>2 DEF UndisturbedClaims, InObserve
<1>12. FreshClaims'
  BY DEF FreshClaims, InObserve
<1>13. QED
  BY <1>3, <1>4, <1>5, <1>6, <1>7, <1>8, <1>9, <1>10, <1>11, <1>12

\* LoadObservation binds the observation to the execution version it read.
LEMMA LoadObservationStep ==
  ASSUME IInv, NEW w \in Workers, LoadObservation(w) PROVE IInv'
<1>1. /\ worker' \in [Workers -> Claims]
      /\ \A v \in Workers \ {w} : worker'[v] = worker[v]
      /\ worker'[w].kind = worker[w].kind
      /\ worker'[w].n = worker[w].n
      /\ worker'[w].sent = worker[w].sent
      /\ worker'[w].step = "observing"
      /\ worker'[w].version = exec.version
  BY DEF LoadObservation, IInv, TypeOK, Claims, Executions, Steps
<1>2. setbacks' \in 0..MaxSetbacks /\ disturbed' = disturbed
  BY DEF LoadObservation, limits, IInv, TypeOK
<1>3. QED
  BY <1>1, <1>2, AnswerStep DEF LoadObservation, InObserve

\* A truthful answer to Submit is true of the attempt it was given for, and a
\* fenced refusal means that the attempt has not been applied.
LEMMA SubmitReturnsStep ==
  ASSUME IInv, NEW w \in Workers, SubmitReturns(w) PROVE IInv'
<1> USE DEF IInv
<1>1. PICK answer \in SubmitAnswers(w) :
        /\ IF answer \in {"NotAttempted", "Ambiguous"} THEN Setback ELSE UNCHANGED limits
        /\ worker' = [worker EXCEPT ![w].step = "submitted", ![w].result = answer]
  BY DEF SubmitReturns
<1>2. InDispatch(w) /\ DispatcherAgrees(w) /\ worker[w].step = "submitting"
  BY DEF SubmitReturns, InDispatch, DispatchersAgree
<1>3. backend[worker[w].n] \in BackendStates
  BY <1>2 DEF DispatcherAgrees, TypeOK, RowsAgree, Attempt
<1>4. /\ AnswerTrue(worker[w].n, worker[w].sent, answer)
      /\ answer = "Rejected" /\ Fenced => backend[worker[w].n] = "None"
  <2>1. CASE worker[w].sent
    <3>1. answer \in {backend[worker[w].n], "Ambiguous", "AmbiguousFound"}
      BY <2>1 DEF SubmitAnswers
    <3>2. backend[worker[w].n] # "None"
      BY <1>2, <2>1 DEF DispatcherAgrees
    <3>3. QED
      BY <1>3, <2>1, <3>1, <3>2 DEF AnswerTrue, SubmitResults, BackendStates
  <2>2. CASE ~worker[w].sent /\ backend[worker[w].n] # "None"
    <3>1. answer = "AmbiguousFound"
      BY <2>2 DEF SubmitAnswers
    <3>2. QED
      BY <2>2, <3>1 DEF AnswerTrue, SubmitResults
  <2>3. CASE ~worker[w].sent /\ backend[worker[w].n] = "None"
    <3>1. \/ answer \in {"NotAttempted", "Ambiguous", "Rejected"}
          \/ Fenced /\ answer = "AmbiguousFound"
          \/ ~Fenced /\ answer = "Failed"
          \/ op.cap = "delete" /\ ~present /\ answer = "Absent"
      BY <2>3 DEF SubmitAnswers
    <3>2. QED
      BY <2>3, <3>1 DEF AnswerTrue, SubmitResults
  <2>4. QED
    BY <2>1, <2>2, <2>3
<1>5. /\ worker' \in [Workers -> Claims]
      /\ \A v \in Workers \ {w} : worker'[v] = worker[v]
      /\ worker'[w].kind = worker[w].kind
      /\ worker'[w].n = worker[w].n
      /\ worker'[w].sent = worker[w].sent
      /\ worker'[w].version = worker[w].version
      /\ worker'[w].step = "submitted" /\ worker'[w].result = answer
  BY <1>1, <1>4 DEF TypeOK, Claims, Steps, AnswerTrue
<1>6. setbacks' \in 0..MaxSetbacks /\ disturbed' = disturbed
  BY <1>1, SetbackCounts DEF limits, TypeOK
<1>7. QED
  BY <1>2, <1>4, <1>5, <1>6, AnswerStep DEF SubmitReturns

\* A truthful answer to Observe is evidence about the current attempt.
LEMMA ObserveReturnsStep ==
  ASSUME IInv, NEW w \in Workers, ObserveReturns(w) PROVE IInv'
<1> USE DEF IInv
<1>1. PICK answer \in ObserveAnswers :
        /\ IF Undecided(answer) THEN Setback ELSE UNCHANGED limits
        /\ worker' = [worker EXCEPT ![w].step = "observed", ![w].result = answer]
  BY DEF ObserveReturns
<1>2. /\ worker[w].kind = "Observe" /\ worker[w].version = exec.version
      /\ Active(outbox["Observe"])
  BY OwnedIsActive DEF ObserveReturns, ObserversAgree, InObserve
<1>3. ObserveOpen /\ (exec.recovery \/ Attempt > 0)
  BY <1>2 DEF MessagesAgree, RowsAgree, ObserveOpen, OutputsPending, Attempt, TypeOK
<1>4. EvidenceTrue(answer)
  <2>1. CASE exec.recovery
    BY <1>1, <2>1 DEF ObserveAnswers, EvidenceTrue, ObserveResults
  <2>2. CASE ~exec.recovery
    <3>1. Attempt > 0 /\ Attempt \in 1..Len(backend) /\ backend[Attempt] \in BackendStates
      BY <1>3, <2>2 DEF RowsAgree, TypeOK, Attempt
    <3>2. \/ answer \in {"Stale", "Uncorrelated"}
          \/ /\ backend[Attempt] # "None"
             /\ \/ answer \in {backend[Attempt], "FoundUnknown"}
                \/ answer = "NotFound" /\ exec.accepted /\ ~Fenced
          \/ backend[Attempt] = "None" /\ Fenced /\ answer = "NotFoundFailed"
          \/ answer = "Succeeded" /\ op.cap = "delete" /\ ~present
          \/ backend[Attempt] = "None" /\ ~Fenced /\ answer = "NotFound"
      <4> DEFINE unsure == IF OutputsPending THEN {"Uncorrelated"} ELSE {"Stale", "Uncorrelated"}
                 lost == IF exec.accepted /\ ~Fenced THEN {"NotFound"} ELSE {}
      <4>1. CASE backend[Attempt] # "None"
        <5>1. answer \in unsure \cup ({backend[Attempt], "FoundUnknown"} \cup lost)
          BY <1>1, <2>2, <4>1 DEF ObserveAnswers
        <5>2. QED
          BY <4>1, <5>1
      <4>2. CASE backend[Attempt] = "None" /\ Fenced
        <5>1. answer \in unsure \cup {"NotFoundFailed"}
          BY <1>1, <2>2, <4>2 DEF ObserveAnswers
        <5>2. QED
          BY <4>2, <5>1
      <4>3. CASE backend[Attempt] = "None" /\ ~Fenced /\ op.cap = "delete" /\ ~present
        <5>1. answer \in unsure \cup {"Succeeded"}
          BY <1>1, <2>2, <4>3 DEF ObserveAnswers
        <5>2. QED
          BY <4>3, <5>1
      <4>4. CASE backend[Attempt] = "None" /\ ~Fenced /\ ~(op.cap = "delete" /\ ~present)
        <5>1. answer \in unsure \cup {"NotFound"}
          BY <1>1, <2>2, <4>4 DEF ObserveAnswers
        <5>2. QED
          BY <4>4, <5>1
      <4>5. QED
        BY <4>1, <4>2, <4>3, <4>4
    <3>3. backend[Attempt] = "None" => launches[Attempt] = 0
      BY <3>1 DEF RowsAgree
    <3>4. QED
      BY <3>1, <3>2, <3>3 DEF EvidenceTrue, ObserveResults, BackendStates
  <2>3. QED
    BY <2>1, <2>2
<1>5. /\ worker' \in [Workers -> Claims]
      /\ \A v \in Workers \ {w} : worker'[v] = worker[v]
      /\ worker'[w].kind = worker[w].kind
      /\ worker'[w].n = worker[w].n
      /\ worker'[w].sent = worker[w].sent
      /\ worker'[w].version = worker[w].version
      /\ worker'[w].step = "observed" /\ worker'[w].result = answer
  BY <1>1, <1>4 DEF TypeOK, Claims, Steps, EvidenceTrue
<1>6. setbacks' \in 0..MaxSetbacks /\ disturbed' = disturbed
  BY <1>1, SetbackCounts DEF limits, TypeOK
<1>7. QED
  BY <1>2, <1>4, <1>5, <1>6, AnswerStep DEF ObserveReturns, InObserve

-----------------------------------------------------------------------------
(* Recording transactions: they end the one lease that is held on the         *)
(* execution's work, so every other handler has lost its claim.               *)

\* Handlers end or stay as they were.
HandlersEnd ==
  /\ worker' \in [Workers -> Claims]
  /\ \A w \in Workers : worker'[w] = worker[w] \/ (worker'[w].step = "idle" /\ ~worker'[w].sent)

Recorded ==
  /\ TypeOK'
  /\ HandlersEnd
  /\ present' = present /\ op'.cap = op.cap /\ exec'.fenced = exec.fenced /\ disturbed' = disturbed
  /\ outbox'["Dispatch"].state # "Leased" /\ outbox'["Observe"].state # "Leased"
  /\ Len(attempts) <= Len(attempts')
  /\ \A i \in 1..Attempt : backend'[i] = backend[i]
  /\ ~Fenced => \A w \in Workers : InDispatch(w)' => attempts'[worker[w].n] # "Pending"

\* What the handlers that remain know stays true after a recording transaction.
LEMMA RecordedHandlers ==
  ASSUME IInv, Recorded
  PROVE  /\ FreshClaims' /\ DispatchersAgree' /\ AnswersTrue' /\ ObserversAgree'
         /\ EvidencesTrue' /\ UndisturbedClaims'
<1> USE DEF IInv
<1>1. /\ present' = present /\ op'.cap = op.cap /\ Fenced' = Fenced
      /\ Attempt \in Nat /\ Attempt' \in Nat /\ Attempt <= Attempt'
      /\ \A i \in 1..Attempt : backend'[i] = backend[i]
  BY DEF Recorded, Fenced, TypeOK, Attempt
<1>2. \A w \in Workers : worker'[w].step # "idle" => worker'[w] = worker[w]
  BY DEF Recorded, HandlersEnd
<1>3. \A w \in Workers : Owns(w)' => worker'[w].kind = "Drive"
  BY DEF Recorded, HandlersEnd, Owns, Claims, Kinds
<1>4. FreshClaims'
  BY DEF Recorded, HandlersEnd, FreshClaims
<1>5. ASSUME NEW w \in Workers, InDispatch(w)'
      PROVE  /\ worker'[w] = worker[w] /\ InDispatch(w) /\ DispatcherAgrees(w) /\ ~Owns(w)'
             /\ worker[w].n \in 1..Attempt /\ backend'[worker[w].n] = backend[worker[w].n]
  <2>1. worker'[w] = worker[w] /\ InDispatch(w) /\ DispatcherAgrees(w)
    BY <1>2, <1>5 DEF InDispatch, DispatchersAgree
  <2>2. QED
    BY <1>1, <1>3, <2>1 DEF DispatcherAgrees
<1>6. DispatchersAgree'
  <2> SUFFICES ASSUME NEW w \in Workers, InDispatch(w)' PROVE DispatcherAgrees(w)'
    BY DEF DispatchersAgree
  <2>1. ~Fenced => attempts'[worker[w].n] # "Pending"
    BY DEF Recorded
  <2>2. QED
    BY <1>1, <1>5, <2>1 DEF DispatcherAgrees
<1>7. AnswersTrue'
  <2> SUFFICES ASSUME NEW w \in Workers, worker'[w].step = "submitted"
               PROVE  AnswerTrue(worker[w].n, worker[w].sent, worker[w].result)'
                      /\ worker'[w] = worker[w] /\ ~Owns(w)'
    BY DEF AnswersTrue, AnswerTrue
  <2>1. InDispatch(w)'
    BY DEF InDispatch
  <2>2. QED
    BY <1>1, <1>5, <2>1 DEF AnswersTrue, AnswerTrue
<1>8. ObserversAgree' /\ EvidencesTrue'
  BY <1>2, <1>3 DEF ObserversAgree, EvidencesTrue, InObserve
<1>9. UndisturbedClaims'
  BY <1>3 DEF UndisturbedClaims
<1>10. QED
  BY <1>4, <1>6, <1>7, <1>8, <1>9

\* A transaction that hands the execution over to observation: the outcome of
\* the attempt is unknown or accepted, or its outputs are outstanding.
LEMMA ToObserveStep ==
  ASSUME IInv, HandlersEnd, UNCHANGED <<op, opVersion, provider, disturbed>>,
         setbacks' \in 0..MaxSetbacks,
         ~IsTerminal(op),
         disturbed \/ IsFinalPhase(op),
         exec.recovery \/ Attempt > 0,
         attempts' \in Seq(AttemptStates), Len(attempts') = Len(attempts),
         \A i \in 1..Len(attempts) : attempts'[i] = attempts[i] \/ attempts'[i] # "Pending",
         exec' \in Executions, exec'.recovery = exec.recovery, exec'.fenced = exec.fenced,
         exec'.nextObs = exec.nextObs + 1,
         outbox' \in [Kinds -> Messages],
         outbox'["Drive"] = outbox["Drive"],
         outbox'["Dispatch"].n = outbox["Dispatch"].n,
         outbox'["Dispatch"].state \notin {"Pending", "Leased"},
         outbox'["Dispatch"].state = "Dead" => outbox["Dispatch"].state = "Dead",
         outbox'["Observe"].n = exec.nextObs,
         outbox'["Observe"].expected = exec'.version,
         outbox'["Observe"].state = "Pending",
         ObserveOpen',
         exec.recovery => exec'.state = "Succeeded" /\ ~exec'.accepted,
         exec'.state = "Accepted" => exec'.accepted /\ backend[Attempt] # "None",
         exec'.state = "Unknown" =>
           attempts'[Attempt] = "Unknown" \/ (exec'.accepted /\ backend[Attempt] # "None"),
         OutputsPending' => exec.recovery \/ backend[Attempt] = "Succeeded",
         exec'.accepted /\ ~Fenced => backend[Attempt] # "None"
  PROVE  IInv'
<1> USE DEF IInv
<1>1. /\ op' = op /\ opVersion' = opVersion /\ disturbed' = disturbed
      /\ backend' = backend /\ launches' = launches /\ late' = late /\ present' = present
      /\ Attempt' = Attempt /\ Fenced' = Fenced /\ Attempt \in Nat
  BY DEF provider, Attempt, Fenced, TypeOK
<1>2. TypeOK'
  BY <1>1 DEF TypeOK, HandlersEnd
<1>3. \A w \in Workers : InDispatch(w)' => InDispatch(w) /\ worker'[w] = worker[w]
  BY DEF HandlersEnd, InDispatch
<1>4. ~Fenced => \A w \in Workers : InDispatch(w)' => attempts'[worker[w].n] # "Pending"
  BY <1>3 DEF DispatchersAgree, DispatcherAgrees, Attempt
<1>5. Recorded
  BY <1>1, <1>2, <1>4 DEF Recorded, Fenced
<1>6. /\ FreshClaims' /\ DispatchersAgree' /\ AnswersTrue' /\ ObserversAgree'
      /\ EvidencesTrue' /\ UndisturbedClaims'
  BY <1>5, RecordedHandlers
<1>7. exec'.state \notin {"Pending", "Dispatching"}
  BY DEF ObserveOpen, OutputsPending
<1>8. RowsAgree'
  <2>1. IsTerminal(op)' = IsTerminal(op) /\ IsFinalPhase(op)' = IsFinalPhase(op)
    BY <1>1 DEF IsTerminal, IsFinalPhase
  <2>2. exec.recovery => OutputsPending'
    BY DEF ObserveOpen
  <2>3. QED
    BY <1>1, <1>7, <2>1, <2>2 DEF RowsAgree
<1>9. MessagesAgree'
  BY <1>1 DEF MessagesAgree, Active, TypeOK, Executions
<1>10. PendingNeverRan'
  BY <1>1 DEF PendingNeverRan, Attempt
<1>11. RefusedForGood' /\ LaunchedOnce' /\ OutcomeIsTruth'
  BY <1>1 DEF RefusedForGood, LaunchedOnce, OutcomeIsTruth, IsTerminal
<1>12. AttemptRecordsTrue'
  BY <1>1 DEF AttemptRecordsTrue, SupersededNeverRan, AcceptedWasLaunched
<1>13. Undisturbed'
  BY <1>1 DEF Undisturbed, Active, IsTerminal, IsFinalPhase
<1>14. QED
  BY <1>2, <1>6, <1>8, <1>9, <1>10, <1>11, <1>12, <1>13

\* A transaction that finishes the operation with an outcome that the provider
\* bears out.
LEMMA FinishedStep ==
  ASSUME IInv, HandlersEnd, UNCHANGED <<provider, disturbed>>,
         setbacks' \in 0..MaxSetbacks,
         NEW kind \in {"Dispatch", "Observe"}, Active(outbox[kind]),
         NEW state \in {"Succeeded", "Failed"},
         op' = [op EXCEPT !.state = state], opVersion' = opVersion + 1,
         outbox' = Complete(outbox, kind),
         attempts' \in Seq(AttemptStates), Len(attempts') = Len(attempts),
         \A i \in 1..Len(attempts) : attempts'[i] = attempts[i] \/ attempts'[i] # "Pending",
         exec' \in Executions, exec'.recovery = exec.recovery, exec'.fenced = exec.fenced,
         exec'.nextObs = exec.nextObs,
         exec'.state \in {"Succeeded", "Failed"}, ~OutputsPending',
         exec.recovery => exec'.state = "Succeeded" /\ ~exec'.accepted,
         state = "Succeeded" => \/ exec.recovery
                                \/ op.cap = "delete" /\ ~present
                                \/ backend[Attempt] = "Succeeded",
         state = "Failed" =>
           \/ exec'.outputs = "Rejected"
           \/ Attempt > 0 /\ backend[Attempt] = "Failed"
           \/ /\ Attempt > 0 /\ backend[Attempt] = "None"
              /\ ~Fenced => \A w \in Workers : ~(InDispatch(w)' /\ worker[w].n = Attempt)
  PROVE  IInv'
<1> USE DEF IInv
<1>1. /\ disturbed' = disturbed
      /\ backend' = backend /\ launches' = launches /\ late' = late /\ present' = present
      /\ Attempt' = Attempt /\ Fenced' = Fenced /\ Attempt \in Nat
  BY DEF provider, Attempt, Fenced, TypeOK
<1>2. /\ op' \in Operations /\ op'.cap = op.cap /\ op'.phase = op.phase /\ op'.state = state
      /\ IsTerminal(op)' /\ (IsFinalPhase(op)' <=> IsFinalPhase(op))
  BY DEF TypeOK, Operations, OperationStates, IsTerminal, IsFinalPhase
<1>3. exec.recovery \/ Attempt > 0
  BY DEF MessagesAgree, RowsAgree, ObserveOpen, OutputsPending, TypeOK, Attempt
<1>4. /\ outbox' \in [Kinds -> Messages]
      /\ outbox'[kind].n = outbox[kind].n
      /\ outbox'[kind].state = "Completed"
      /\ \A k \in Kinds \ {kind} : outbox'[k] = outbox[k]
  BY ReleaseFields DEF Complete, TypeOK, Kinds, MessageStates
<1>5. outbox'["Dispatch"].state \notin {"Pending", "Leased"}
      /\ outbox'["Observe"].state \notin {"Pending", "Leased"}
  BY <1>4 DEF Active, MessagesAgree, ObserveOpen, OutputsPending, Kinds
<1>6. TypeOK'
  BY <1>1, <1>2, <1>4 DEF TypeOK, HandlersEnd
<1>7. \A w \in Workers : InDispatch(w)' => InDispatch(w) /\ worker'[w] = worker[w]
  BY DEF HandlersEnd, InDispatch
<1>8. ~Fenced => \A w \in Workers : InDispatch(w)' => attempts'[worker[w].n] # "Pending"
  BY <1>7 DEF DispatchersAgree, DispatcherAgrees, Attempt
<1>9. /\ FreshClaims' /\ DispatchersAgree' /\ AnswersTrue' /\ ObserversAgree'
      /\ EvidencesTrue' /\ UndisturbedClaims'
  <2>1. Recorded
    BY <1>1, <1>2, <1>5, <1>6, <1>8 DEF Recorded
  <2>2. QED
    BY <2>1, RecordedHandlers
<1>10. RowsAgree'
  BY <1>1, <1>2, <1>3 DEF RowsAgree, OutputsPending
<1>11. MessagesAgree'
  <2>1. \A k \in Kinds : outbox'[k].n = outbox[k].n /\ outbox[k].n \in Nat
    BY <1>4 DEF TypeOK, Messages
  <2>2. ~Active(outbox["Dispatch"])' /\ ~Active(outbox["Observe"])' /\ opVersion \in Nat
    BY <1>5 DEF Active, TypeOK
  <2>3. QED
    BY <1>1, <2>1, <2>2 DEF MessagesAgree, Kinds
<1>12. PendingNeverRan'
  BY <1>1 DEF PendingNeverRan, Attempt
<1>13. RefusedForGood'
  BY <1>1, <1>2, <1>7 DEF RefusedForGood
<1>14. LaunchedOnce' /\ OutcomeIsTruth' /\ AttemptRecordsTrue'
  BY <1>1, <1>2 DEF LaunchedOnce, OutcomeIsTruth, AttemptRecordsTrue, SupersededNeverRan,
                    AcceptedWasLaunched
<1>15. Undisturbed'
  BY <1>1, <1>2, <1>4, <1>5 DEF Undisturbed, Active, Kinds
<1>16. QED
  BY <1>6, <1>9, <1>10, <1>11, <1>12, <1>13, <1>14, <1>15

\* A transaction that makes the current attempt, or the one it just opened,
\* dispatchable: nobody may still be about to send it without fencing.
LEMMA ToDispatchStep ==
  ASSUME IInv, HandlersEnd, UNCHANGED <<op, opVersion, present, disturbed>>,
         setbacks' \in 0..MaxSetbacks,
         ~IsTerminal(op),
         IsFinalPhase(op),
         ~exec.recovery,
         attempts' \in Seq(AttemptStates),
         Len(attempts) <= Len(attempts'), Len(attempts') > 0,
         attempts'[Len(attempts')] = "Pending",
         \A i \in 1..Len(attempts') : i # Len(attempts') => attempts'[i] # "Pending" \/
                                          (i \in 1..Len(attempts) /\ attempts'[i] = attempts[i]),
         backend' \in Seq(BackendStates), Len(backend') = Len(attempts'),
         launches' \in Seq(Nat), Len(launches') = Len(attempts'), late' = late,
         \A i \in 1..Len(attempts) : backend'[i] = backend[i] /\ launches'[i] = launches[i],
         \A i \in 1..Len(attempts') : i \notin 1..Len(attempts) =>
                                          backend'[i] = "None" /\ launches'[i] = 0,
         ~Fenced => backend'[Len(attempts')] = "None",
         ~Fenced => \A w \in Workers : ~(InDispatch(w)' /\ worker[w].n = Len(attempts')),
         \A i \in Len(attempts)..(Len(attempts') - 1) : i > 0 /\ launches[i] > 0 => i \in late,
         exec' \in Executions, ~exec'.recovery, exec'.fenced = exec.fenced,
         exec'.nextObs = exec.nextObs,
         exec'.state = "Pending", ~exec'.accepted,
         outbox' \in [Kinds -> Messages],
         outbox'["Drive"] = outbox["Drive"],
         outbox'["Dispatch"].n = Len(attempts'),
         outbox'["Dispatch"].expected = exec'.version,
         outbox'["Dispatch"].state = "Pending",
         outbox'["Observe"].n = outbox["Observe"].n,
         outbox'["Observe"].state \notin {"Pending", "Leased"},
         disturbed \/ outbox'["Observe"].state # "Dead"
  PROVE  IInv'
<1> USE DEF IInv
<1>1. /\ op' = op /\ opVersion' = opVersion /\ disturbed' = disturbed /\ present' = present
      /\ Attempt' = Len(attempts') /\ Fenced' = Fenced /\ Attempt \in Nat /\ Attempt' \in Nat
      /\ Attempt = Len(attempts) /\ Attempt <= Attempt' /\ Attempt' > 0
      /\ IsTerminal(op)' = IsTerminal(op) /\ IsFinalPhase(op)' = IsFinalPhase(op)
  BY DEF Attempt, Fenced, TypeOK, IsTerminal, IsFinalPhase
<1>2. TypeOK'
  BY <1>1 DEF TypeOK, HandlersEnd
<1>3. \A w \in Workers : InDispatch(w)' => InDispatch(w) /\ worker'[w] = worker[w]
                                           /\ worker[w].n \in 1..Attempt
  BY DEF HandlersEnd, InDispatch, DispatchersAgree, DispatcherAgrees
<1>4. ASSUME ~Fenced, NEW w \in Workers, InDispatch(w)' PROVE attempts'[worker[w].n] # "Pending"
  <2>1. /\ InDispatch(w) /\ worker[w].n \in 1..Attempt /\ worker[w].n # Len(attempts')
        /\ attempts[worker[w].n] # "Pending"
    BY <1>3, <1>4 DEF DispatchersAgree, DispatcherAgrees
  <2>2. QED
    BY <1>1, <2>1
<1>5. /\ FreshClaims' /\ DispatchersAgree' /\ AnswersTrue' /\ ObserversAgree'
      /\ EvidencesTrue' /\ UndisturbedClaims'
  <2>1. Recorded
    BY <1>1, <1>2, <1>4 DEF Recorded
  <2>2. QED
    BY <2>1, RecordedHandlers
<1>6. \A i \in 1..Attempt' : backend'[i] = "None" <=> launches'[i] = 0
  BY <1>1 DEF RowsAgree
<1>7. RowsAgree'
  BY <1>1, <1>6 DEF RowsAgree, OutputsPending
<1>8. MessagesAgree'
  BY <1>1 DEF MessagesAgree, Active
<1>9. PendingNeverRan'
  <2> SUFFICES ASSUME ~Fenced, NEW i \in 1..Attempt', attempts'[i] = "Pending"
               PROVE  backend'[i] = "None"
    BY <1>1 DEF PendingNeverRan
  <2>1. CASE i = Attempt'
    BY <1>1, <2>1
  <2>2. CASE i # Attempt'
    BY <1>1, <2>2 DEF PendingNeverRan
  <2>3. QED
    BY <2>1, <2>2
<1>10. RefusedForGood' /\ OutcomeIsTruth'
  BY <1>1 DEF RefusedForGood, OutcomeIsTruth, IsTerminal
<1>11. LaunchedOnce'
  <2> SUFFICES ASSUME NEW i \in 1..Attempt' PROVE launches'[i] <= 1
    BY <1>1 DEF LaunchedOnce
  <2>1. CASE i \in 1..Attempt
    <3>1. DOMAIN launches = 1..Attempt
      BY <1>1 DEF RowsAgree, TypeOK
    <3>2. launches[i] <= 1
      BY <2>1, <3>1 DEF LaunchedOnce
    <3>3. QED
      BY <1>1, <2>1, <3>2
  <2>2. CASE i \notin 1..Attempt
    BY <1>1, <2>2
  <2>3. QED
    BY <2>1, <2>2
<1>12. AttemptRecordsTrue'
  <2>1. ASSUME NEW i \in 1..(Attempt' - 1), launches'[i] > 0 PROVE i \in late
    <3>1. i \in 1..Attempt /\ launches'[i] = launches[i]
      <4>1. i \in 1..Len(attempts') /\ launches'[i] # 0
        BY <1>1, <2>1
      <4>2. i \in 1..Len(attempts)
        BY <4>1
      <4>3. QED
        BY <1>1, <4>2
    <3>2. CASE i < Attempt
      <4>1. i \in 1..(Attempt - 1) /\ launches[i] > 0
        BY <1>1, <2>1, <3>1, <3>2
      <4>2. QED
        BY <4>1 DEF AttemptRecordsTrue, SupersededNeverRan
    <3>3. CASE i = Attempt
      BY <1>1, <2>1, <3>1, <3>3
    <3>4. QED
      BY <1>1, <3>1, <3>2, <3>3
  <2>2. QED
    BY <1>1, <2>1 DEF AttemptRecordsTrue, SupersededNeverRan, AcceptedWasLaunched
<1>13. Undisturbed'
  BY <1>1 DEF Undisturbed, Active, ObserveOpen, OutputsPending
<1>14. QED
  BY <1>2, <1>5, <1>7, <1>8, <1>9, <1>10, <1>11, <1>12, <1>13

-----------------------------------------------------------------------------
(* What the handlers know when they record. *)

\* The holder of a prepared dispatch faces the execution it prepared, and no
\* observation is scheduled beside it.
LEMMA RecordableFacts ==
  ASSUME IInv, NEW w \in Workers, Recordable(w)
  PROVE  /\ worker[w].kind = "Dispatch" /\ Active(outbox["Dispatch"]) /\ ~Active(outbox["Observe"])
         /\ exec.state = "Dispatching" /\ ~exec.accepted /\ ~exec.recovery
         /\ Attempt = worker[w].n /\ Attempt > 0 /\ Attempt \in Nat
         /\ ~IsTerminal(op) /\ IsFinalPhase(op)
         /\ InDispatch(w) /\ DispatcherAgrees(w)
         /\ AnswerTrue(worker[w].n, worker[w].sent, worker[w].result)
         /\ worker[w].result = "Rejected" => backend[worker[w].n] = "None"
<1> USE DEF IInv
<1>1. /\ worker[w].step = "submitted" /\ Owns(w) /\ Attempt = worker[w].n
      /\ exec.state = "Dispatching"
  BY DEF Recordable, DispatchHeld
<1>2. InDispatch(w) /\ DispatcherAgrees(w)
  BY <1>1 DEF InDispatch, DispatchersAgree
<1>3. worker[w].kind = "Dispatch" /\ Active(outbox["Dispatch"])
  BY <1>1, <1>2, OwnedIsActive DEF DispatcherAgrees
<1>4. Attempt > 0 /\ Attempt \in Nat /\ ~Active(outbox["Observe"])
  BY <1>1, <1>3 DEF MessagesAgree, ObserveOpen, OutputsPending, Attempt, TypeOK
<1>5. ~exec.accepted /\ ~exec.recovery /\ ~IsTerminal(op) /\ IsFinalPhase(op)
  BY <1>1, <1>4 DEF RowsAgree
<1>6. /\ AnswerTrue(worker[w].n, worker[w].sent, worker[w].result)
      /\ worker[w].result = "Rejected" => backend[worker[w].n] = "None"
  BY <1>1, <1>2 DEF AnswersTrue, AnswerTrue, DispatcherAgrees
<1>7. QED
  BY <1>1, <1>2, <1>3, <1>4, <1>5, <1>6

\* The holder of an observation faces an execution that waits for it, with
\* evidence that is still true.
LEMMA ObservableFacts ==
  ASSUME IInv, NEW w \in Workers, Observable(w)
  PROVE  /\ worker[w].kind = "Observe" /\ Active(outbox["Observe"]) /\ ~Active(outbox["Dispatch"])
         /\ ObserveOpen /\ EvidenceTrue(worker[w].result)
         /\ exec.recovery \/ Attempt > 0
         /\ Attempt \in Nat
         /\ ~IsTerminal(op)
         /\ disturbed \/ IsFinalPhase(op)
<1> USE DEF IInv
<1>1. worker[w].step = "observed" /\ Owns(w) /\ worker[w].kind = "Observe"
  BY DEF Observable, ObserversAgree, InObserve
<1>2. Active(outbox["Observe"]) /\ ObserveOpen
  BY <1>1, OwnedIsActive DEF MessagesAgree
<1>3. ~Active(outbox["Dispatch"])
  BY <1>2 DEF MessagesAgree, ObserveOpen, OutputsPending
<1>4. EvidenceTrue(worker[w].result)
  BY <1>1 DEF EvidencesTrue
<1>5. /\ exec.recovery \/ Attempt > 0
      /\ Attempt \in Nat
      /\ ~IsTerminal(op)
  BY <1>2 DEF RowsAgree, ObserveOpen, OutputsPending, TypeOK, Attempt
<1>6. disturbed \/ IsFinalPhase(op)
  BY <1>2 DEF Undisturbed
<1>7. QED
  BY <1>1, <1>2, <1>3, <1>4, <1>5, <1>6

\* A handler that ends leaves the others as they were.
LEMMA HandlerEnds ==
  ASSUME TypeOK, NEW w \in Workers, BecomeIdle(w)
  PROVE  HandlersEnd /\ ~InDispatch(w)'
BY IdleFields DEF HandlersEnd, InDispatch

\* SetAttempt (UpdateAttempt) changes the state of one attempt.
LEMMA SetAttemptFields ==
  ASSUME TypeOK, NEW n \in 1..Attempt, NEW state \in AttemptStates, SetAttempt(n, state)
  PROVE  /\ attempts' \in Seq(AttemptStates) /\ Len(attempts') = Len(attempts)
         /\ attempts'[n] = state
         /\ \A i \in 1..Len(attempts) : i # n => attempts'[i] = attempts[i]
BY ExceptSeq DEF TypeOK, Attempt, SetAttempt

\* Completing the handled message and scheduling the next observation.
LEMMA ObserveEnqueued ==
  ASSUME IInv, NEW kind \in {"Dispatch", "Observe"}, Active(outbox[kind]),
         NEW x, x.nextObs = exec.nextObs,
         outbox' = EnqueueObserve(Complete(outbox, kind), x)
  PROVE  /\ outbox' \in [Kinds -> Messages]
         /\ outbox'["Drive"] = outbox["Drive"]
         /\ outbox'["Dispatch"].n = outbox["Dispatch"].n
         /\ outbox'["Dispatch"].state \notin {"Pending", "Leased"}
         /\ outbox'["Dispatch"].state = "Dead" => outbox["Dispatch"].state = "Dead"
         /\ outbox'["Observe"].n = exec.nextObs
         /\ outbox'["Observe"].expected = exec.version + 1
         /\ outbox'["Observe"].state = "Pending"
<1> USE DEF IInv
<1> DEFINE box == Complete(outbox, kind)
<1>1. /\ box \in [Kinds -> Messages]
      /\ box[kind].n = outbox[kind].n
      /\ box[kind].state = "Completed"
      /\ \A k \in Kinds \ {kind} : box[k] = outbox[k]
  BY ReleaseFields DEF Complete, TypeOK, Kinds, MessageStates
<1>2. exec.nextObs \in Nat /\ exec.version + 1 \in Nat
  BY DEF TypeOK, Executions
<1>3. exec.nextObs > box["Observe"].n
  BY <1>1, <1>2 DEF MessagesAgree, Kinds, TypeOK, Messages
<1> HIDE DEF box
<1>4. /\ outbox' \in [Kinds -> Messages]
      /\ outbox'["Observe"].n = exec.nextObs
      /\ outbox'["Observe"].expected = exec.version + 1
      /\ outbox'["Observe"].state = "Pending"
      /\ \A k \in Kinds \ {"Observe"} : outbox'[k] = box[k]
  BY <1>1, <1>2, <1>3, EnqueueFields DEF EnqueueObserve, Kinds, box
<1>5. box["Dispatch"].state \notin {"Pending", "Leased"}
  BY <1>1 DEF MessagesAgree, ObserveOpen, OutputsPending, Active, Kinds
<1>6. QED
  BY <1>1, <1>4, <1>5 DEF Kinds

\* An execution that is saved keeps its identity and moves its version.
LEMMA SavedFields ==
  ASSUME TypeOK, NEW x \in Executions, SaveExecution(x)
  PROVE  /\ exec' \in Executions
         /\ exec'.version = exec.version + 1
         /\ exec'.state = x.state /\ exec'.nextObs = x.nextObs /\ exec'.accepted = x.accepted
         /\ exec'.outputs = x.outputs /\ exec'.recovery = x.recovery /\ exec'.fenced = x.fenced
<1>1. exec.version + 1 \in Nat
  BY DEF TypeOK, Executions
<1>2. exec' = [x EXCEPT !.version = exec.version + 1]
  BY DEF SaveExecution
<1>3. QED
  BY <1>1, <1>2 DEF Executions

\* Reserving the next observation changes the sequence number alone.
LEMMA ScheduledFields ==
  ASSUME NEW x \in Executions
  PROVE  LET y == ScheduleObserve(x) IN
         /\ y \in Executions
         /\ y.nextObs = x.nextObs + 1
         /\ y.state = x.state /\ y.accepted = x.accepted
         /\ y.outputs = x.outputs /\ y.recovery = x.recovery /\ y.fenced = x.fenced
BY DEF ScheduleObserve, Executions

-----------------------------------------------------------------------------
(* The recording transactions, one by one. *)

\* MarkDispatchUnknown and an ambiguous answer: the attempt stays unknown, and
\* acceptance is recorded only of an attempt that the provider knows.
LEMMA GoUnknownStep ==
  ASSUME IInv, HandlersEnd, NEW accepted \in BOOLEAN, GoUnknown(Attempt, accepted),
         disturbed' = disturbed, setbacks' \in 0..MaxSetbacks,
         Active(outbox["Dispatch"]), exec.state = "Dispatching",
         accepted /\ ~Fenced => backend[Attempt] # "None"
  PROVE  IInv'
<1> USE DEF IInv
<1> DEFINE x == [exec EXCEPT !.state = "Unknown", !.accepted = @ \/ accepted]
<1>1. /\ SetAttempt(Attempt, "Unknown")
      /\ SaveExecution(ScheduleObserve(x))
      /\ outbox' = EnqueueObserve(Complete(outbox, "Dispatch"), x)
      /\ UNCHANGED <<op, opVersion, provider>>
  BY DEF GoUnknown
<1>2. /\ Attempt \in 1..Attempt /\ Attempt > 0 /\ Attempt = Len(attempts)
      /\ ~exec.accepted /\ ~exec.recovery /\ ~IsTerminal(op) /\ IsFinalPhase(op)
  BY DEF MessagesAgree, RowsAgree, TypeOK, Attempt
<1>3. /\ x \in Executions /\ x.state = "Unknown" /\ (x.accepted <=> accepted)
      /\ x.nextObs = exec.nextObs /\ x.recovery = exec.recovery /\ x.fenced = exec.fenced
  BY <1>2 DEF TypeOK, Executions, ExecutionStates
<1> HIDE DEF x
<1>4. /\ exec' \in Executions /\ exec'.version = exec.version + 1 /\ exec'.nextObs = exec.nextObs + 1
      /\ exec'.state = "Unknown" /\ (exec'.accepted <=> accepted)
      /\ exec'.recovery = exec.recovery /\ exec'.fenced = exec.fenced
  BY <1>1, <1>3, SavedFields, ScheduledFields
<1>5. /\ attempts' \in Seq(AttemptStates) /\ Len(attempts') = Len(attempts)
      /\ attempts'[Attempt] = "Unknown"
      /\ \A i \in 1..Len(attempts) : i # Attempt => attempts'[i] = attempts[i]
  BY <1>1, <1>2, SetAttemptFields DEF AttemptStates
<1>6. /\ outbox' \in [Kinds -> Messages]
      /\ outbox'["Drive"] = outbox["Drive"]
      /\ outbox'["Dispatch"].n = outbox["Dispatch"].n
      /\ outbox'["Dispatch"].state \notin {"Pending", "Leased"}
      /\ outbox'["Dispatch"].state = "Dead" => outbox["Dispatch"].state = "Dead"
      /\ outbox'["Observe"].n = exec.nextObs
      /\ outbox'["Observe"].expected = exec.version + 1
      /\ outbox'["Observe"].state = "Pending"
  BY <1>1, <1>3, ObserveEnqueued
<1>7. ObserveOpen' /\ ~OutputsPending'
  BY <1>4 DEF ObserveOpen, OutputsPending
<1>8. QED
  BY <1>1, <1>2, <1>4, <1>5, <1>6, <1>7, ToObserveStep

\* MarkDispatchUnknown.
LEMMA MarkDispatchUnknownStep ==
  ASSUME IInv, NEW w \in Workers, MarkDispatchUnknown(w) PROVE IInv'
<1>1. /\ Active(outbox["Dispatch"]) /\ exec.state = "Dispatching" /\ Attempt = worker[w].n
  BY RecordableFacts DEF MarkDispatchUnknown
<1>2. HandlersEnd
  BY HandlerEnds DEF MarkDispatchUnknown, IInv
<1>3. setbacks' \in 0..MaxSetbacks /\ disturbed' = disturbed
  BY SetbackCounts DEF MarkDispatchUnknown, limits, IInv, TypeOK
<1>4. GoUnknown(Attempt, FALSE)
  BY <1>1 DEF MarkDispatchUnknown
<1>5. QED
  BY <1>1, <1>2, <1>3, <1>4, GoUnknownStep

\* The same attempt becomes dispatchable again with the refreshed version fence
\* (retryNotAttemptedDispatch, the redelivery of a fenced provisioner).
LEMMA RescheduledStep ==
  ASSUME IInv, HandlersEnd, disturbed' = disturbed, setbacks' \in 0..MaxSetbacks,
         Active(outbox["Dispatch"]), exec.state = "Dispatching",
         SetAttempt(Attempt, "Pending"),
         SaveExecution([exec EXCEPT !.state = "Pending"]),
         outbox' = [Release(outbox, "Dispatch", "Pending") EXCEPT !["Dispatch"].expected = exec.version + 1],
         UNCHANGED <<op, opVersion, provider>>,
         ~Fenced => /\ backend[Attempt] = "None"
                    /\ \A w \in Workers : ~(InDispatch(w)' /\ worker[w].n = Attempt)
  PROVE  IInv'
<1> USE DEF IInv
<1>1. /\ Attempt \in 1..Attempt /\ Attempt > 0 /\ Attempt = Len(attempts)
      /\ outbox["Dispatch"].n = Attempt /\ ~Active(outbox["Observe"])
      /\ ~exec.accepted /\ ~exec.recovery /\ ~IsTerminal(op) /\ IsFinalPhase(op)
  BY DEF MessagesAgree, RowsAgree, TypeOK, Attempt, ObserveOpen, OutputsPending
<1> DEFINE x == [exec EXCEPT !.state = "Pending"]
<1>2. /\ x \in Executions /\ x.state = "Pending" /\ x.accepted = exec.accepted
      /\ x.nextObs = exec.nextObs /\ x.recovery = exec.recovery /\ x.fenced = exec.fenced
  BY DEF TypeOK, Executions, ExecutionStates
<1>3. SaveExecution(x)
  OBVIOUS
<1> HIDE DEF x
<1>4. /\ exec' \in Executions /\ exec'.version = exec.version + 1 /\ exec'.nextObs = exec.nextObs
      /\ exec'.state = "Pending" /\ ~exec'.accepted
      /\ ~exec'.recovery /\ exec'.fenced = exec.fenced
  BY <1>1, <1>2, <1>3, SavedFields
<1>5. /\ attempts' \in Seq(AttemptStates) /\ Len(attempts') = Len(attempts)
      /\ attempts'[Attempt] = "Pending"
      /\ \A i \in 1..Len(attempts) : i # Attempt => attempts'[i] = attempts[i]
  BY <1>1, SetAttemptFields DEF AttemptStates
<1> DEFINE box == Release(outbox, "Dispatch", "Pending")
<1>6. /\ box \in [Kinds -> Messages]
      /\ box["Dispatch"].n = outbox["Dispatch"].n
      /\ box["Dispatch"].state = "Pending"
      /\ \A k \in Kinds \ {"Dispatch"} : box[k] = outbox[k]
  BY ReleaseFields DEF TypeOK, Kinds, MessageStates
<1>7. outbox' = [box EXCEPT !["Dispatch"].expected = exec.version + 1] /\ exec.version + 1 \in Nat
  BY DEF TypeOK, Executions
<1> HIDE DEF box
<1>8. /\ outbox' \in [Kinds -> Messages]
      /\ outbox'["Dispatch"].n = outbox["Dispatch"].n
      /\ outbox'["Dispatch"].expected = exec.version + 1
      /\ outbox'["Dispatch"].state = "Pending"
      /\ outbox'["Drive"] = outbox["Drive"] /\ outbox'["Observe"] = outbox["Observe"]
  <2> DEFINE m == [box["Dispatch"] EXCEPT !.expected = exec.version + 1]
  <2>1. outbox' = [box EXCEPT !["Dispatch"] = m]
    BY <1>7
  <2>2. /\ m \in Messages /\ m.n = box["Dispatch"].n /\ m.expected = exec.version + 1
        /\ m.state = box["Dispatch"].state
    BY <1>6, <1>7 DEF Kinds, Messages
  <2> HIDE DEF m
  <2>3. QED
    BY <1>6, <2>1, <2>2 DEF Kinds
<1>9. /\ outbox["Observe"].state \notin {"Pending", "Leased"}
      /\ disturbed \/ outbox["Observe"].state # "Dead"
  BY <1>1 DEF Active, Undisturbed, ObserveOpen, OutputsPending
<1>10. /\ backend' = backend /\ launches' = launches /\ late' = late /\ present' = present
       /\ backend \in Seq(BackendStates) /\ launches \in Seq(Nat)
       /\ Len(backend) = Len(attempts) /\ Len(launches) = Len(attempts)
  BY <1>1 DEF provider, TypeOK, RowsAgree
<1>11. /\ Len(attempts) <= Len(attempts') /\ Len(attempts') > 0
       /\ attempts'[Len(attempts')] = "Pending"
       /\ \A i \in 1..Len(attempts') : i # Len(attempts') =>
             i \in 1..Len(attempts) /\ attempts'[i] = attempts[i]
       /\ \A i \in 1..Len(attempts') : i \in 1..Len(attempts)
       /\ \A i \in Len(attempts)..(Len(attempts') - 1) : FALSE
  BY <1>1, <1>5
<1>12. ~Fenced => /\ backend'[Len(attempts')] = "None"
                  /\ \A w \in Workers : ~(InDispatch(w)' /\ worker[w].n = Len(attempts'))
  BY <1>1, <1>5, <1>10
<1>13. QED
  BY <1>1, <1>4, <1>5, <1>8, <1>9, <1>10, <1>11, <1>12, ToDispatchStep

\* retryNotAttemptedDispatch.
LEMMA RetryNotAttemptedStep ==
  ASSUME IInv, NEW w \in Workers, RetryNotAttempted(w) PROVE IInv'
<1> USE DEF IInv
<1>1. /\ Active(outbox["Dispatch"]) /\ exec.state = "Dispatching" /\ Attempt = worker[w].n
      /\ InDispatch(w) /\ DispatcherAgrees(w)
      /\ AnswerTrue(worker[w].n, worker[w].sent, worker[w].result)
      /\ worker[w].result = "NotAttempted"
  BY RecordableFacts DEF RetryNotAttempted
<1>2. HandlersEnd /\ ~InDispatch(w)'
  BY HandlerEnds DEF RetryNotAttempted
<1>3. setbacks' \in 0..MaxSetbacks /\ disturbed' = disturbed
  BY DEF RetryNotAttempted, limits, TypeOK
<1>4. ASSUME ~Fenced
      PROVE  /\ backend[Attempt] = "None"
             /\ \A v \in Workers : ~(InDispatch(v)' /\ worker[v].n = Attempt)
  <2>1. backend[Attempt] = "None" /\ \A v \in Workers : InDispatch(v) /\ worker[v].n = Attempt => v = w
    BY <1>1, <1>4 DEF DispatcherAgrees, AnswerTrue
  <2>2. \A v \in Workers : InDispatch(v)' => InDispatch(v)
    BY <1>2 DEF HandlersEnd, InDispatch
  <2>3. QED
    BY <1>2, <2>1, <2>2
<1>5. QED
  BY <1>1, <1>2, <1>3, <1>4, RescheduledStep DEF RetryNotAttempted

\* recoverExpiredDispatch: put back what was never prepared, redeliver to a
\* provisioner that fences, and otherwise leave the outcome to observation.
LEMMA RecoverExpiredDispatchStep ==
  ASSUME IInv, NEW w \in Workers, RecoverExpiredDispatch(w) PROVE IInv'
<1> USE DEF IInv
<1>1. /\ Active(outbox["Dispatch"]) /\ outbox["Dispatch"].n = Attempt
  BY DEF RecoverExpiredDispatch, Active, MessagesAgree
<1>2. HandlersEnd /\ worker' = worker
  BY DEF RecoverExpiredDispatch, HandlersEnd, TypeOK
<1>3. setbacks' \in 0..MaxSetbacks /\ disturbed' = disturbed
  BY SetbackCounts DEF RecoverExpiredDispatch, limits, TypeOK
<1>4. CASE /\ exec.state = "Pending"
           /\ outbox' = Release(outbox, "Dispatch", "Pending")
           /\ UNCHANGED <<rows, provider>>
  BY <1>1, <1>2, <1>3, <1>4, ReleaseStep DEF Kinds
<1>5. CASE /\ exec.state = "Dispatching" /\ Fenced
           /\ SetAttempt(Attempt, "Pending")
           /\ SaveExecution([exec EXCEPT !.state = "Pending"])
           /\ outbox' = [Release(outbox, "Dispatch", "Pending")
                           EXCEPT !["Dispatch"].expected = exec.version + 1]
           /\ UNCHANGED <<op, opVersion, provider>>
  BY <1>1, <1>2, <1>3, <1>5, RescheduledStep
<1>6. CASE exec.state = "Dispatching" /\ GoUnknown(Attempt, FALSE)
  BY <1>1, <1>2, <1>3, <1>6, GoUnknownStep
<1>7. QED
  BY <1>1, <1>4, <1>5, <1>6 DEF RecoverExpiredDispatch, CanRedeliver

\* finishSuccessInTx: a success that the provider bears out finishes the
\* operation, fails it for its outputs, or defers the outputs.
LEMMA FinishSuccessStep ==
  ASSUME IInv, HandlersEnd, UNCHANGED provider,
         NEW kind \in {"Dispatch", "Observe"}, Active(outbox[kind]),
         NEW x \in Executions, NEW plan \in OutputPlans, FinishSuccess(x, kind, plan),
         ~IsTerminal(op), disturbed \/ IsFinalPhase(op), exec.recovery \/ Attempt > 0,
         x.state = "Succeeded", x.nextObs = exec.nextObs,
         x.recovery = exec.recovery, x.fenced = exec.fenced,
         exec.recovery => ~x.accepted,
         \/ exec.recovery
         \/ op.cap = "delete" /\ ~present
         \/ backend[Attempt] = "Succeeded",
         attempts' \in Seq(AttemptStates), Len(attempts') = Len(attempts),
         \A i \in 1..Len(attempts) : attempts'[i] = attempts[i] \/ attempts'[i] # "Pending"
  PROVE  IInv'
<1> USE DEF IInv
<1>1. CASE plan = "Defer"
  <2> DEFINE y == [x EXCEPT !.outputs = "Pending"]
  <2>1. /\ op.cap # "delete"
        /\ exec.recovery \/ backend[Attempt] = "Succeeded"
    BY <1>1 DEF OutputPlans
  <2>2. /\ Setback
        /\ SaveExecution(ScheduleObserve(y))
        /\ outbox' = EnqueueObserve(Complete(outbox, kind), x)
        /\ UNCHANGED <<op, opVersion>>
    BY <1>1 DEF FinishSuccess
  <2>3. /\ y \in Executions /\ y.state = "Succeeded" /\ y.accepted = x.accepted
        /\ y.nextObs = exec.nextObs /\ y.recovery = exec.recovery /\ y.fenced = exec.fenced
        /\ y.outputs = "Pending"
    BY DEF Executions, OutputResolutions
  <2> HIDE DEF y
  <2>4. /\ exec' \in Executions /\ exec'.version = exec.version + 1 /\ exec'.nextObs = exec.nextObs + 1
        /\ exec'.state = "Succeeded" /\ exec'.accepted = x.accepted /\ exec'.outputs = "Pending"
        /\ exec'.recovery = exec.recovery /\ exec'.fenced = exec.fenced
    BY <2>2, <2>3, SavedFields, ScheduledFields
  <2>5. /\ outbox' \in [Kinds -> Messages]
        /\ outbox'["Drive"] = outbox["Drive"]
        /\ outbox'["Dispatch"].n = outbox["Dispatch"].n
        /\ outbox'["Dispatch"].state \notin {"Pending", "Leased"}
        /\ outbox'["Dispatch"].state = "Dead" => outbox["Dispatch"].state = "Dead"
        /\ outbox'["Observe"].n = exec.nextObs
        /\ outbox'["Observe"].expected = exec.version + 1
        /\ outbox'["Observe"].state = "Pending"
    BY <2>2, ObserveEnqueued
  <2>6. ObserveOpen'
    BY <2>4 DEF ObserveOpen, OutputsPending
  <2>7. setbacks' \in 0..MaxSetbacks /\ disturbed' = disturbed
    BY <2>2, SetbackCounts
  <2>8. QED
    BY <2>1, <2>2, <2>4, <2>5, <2>6, <2>7, ToObserveStep
<1>2. ASSUME NEW outputs \in OutputResolutions, outputs # "Pending",
             NEW state \in {"Succeeded", "Failed"},
             state = "Failed" => outputs = "Rejected",
             Finish([x EXCEPT !.outputs = outputs], state, kind), UNCHANGED limits
      PROVE  IInv'
  <2> DEFINE y == [x EXCEPT !.outputs = outputs]
  <2>1. /\ y \in Executions /\ y.state = "Succeeded" /\ y.accepted = x.accepted
        /\ y.nextObs = exec.nextObs /\ y.recovery = exec.recovery /\ y.fenced = exec.fenced
        /\ y.outputs = outputs
    BY DEF Executions
  <2>2. /\ op' = [op EXCEPT !.state = state] /\ opVersion' = opVersion + 1
        /\ SaveExecution(y) /\ outbox' = Complete(outbox, kind)
    BY <1>2 DEF Finish
  <2> HIDE DEF y
  <2>3. /\ exec' \in Executions /\ exec'.nextObs = exec.nextObs
        /\ exec'.state = "Succeeded" /\ exec'.accepted = x.accepted /\ exec'.outputs = outputs
        /\ exec'.recovery = exec.recovery /\ exec'.fenced = exec.fenced
    BY <2>1, <2>2, SavedFields
  <2>4. setbacks' \in 0..MaxSetbacks /\ disturbed' = disturbed
    BY <1>2 DEF limits, TypeOK
  <2>5. ~OutputsPending'
    BY <1>2, <2>3 DEF OutputsPending
  <2>6. QED
    BY <1>2, <2>2, <2>3, <2>4, <2>5, FinishedStep
<1>3. CASE plan = "Reject"
  BY <1>2, <1>3 DEF FinishSuccess, OutputResolutions
<1>4. CASE plan \in {"None", "Publish"}
  <2>1. Finish([x EXCEPT !.outputs = IF plan = "Publish" THEN "Published" ELSE "None"],
               "Succeeded", kind) /\ UNCHANGED limits
    BY <1>4 DEF FinishSuccess
  <2>2. CASE plan = "Publish"
    BY <1>2, <2>1, <2>2 DEF OutputResolutions
  <2>3. CASE plan # "Publish"
    BY <1>2, <2>1, <2>3 DEF OutputResolutions
  <2>4. QED
    BY <2>2, <2>3
<1>5. QED
  BY <1>1, <1>3, <1>4 DEF FinishSuccess

\* The observation loop stays alive (scheduleNextObservation) with what the
\* observation said about acceptance.
LEMMA ObserveAgainStep ==
  ASSUME IInv, HandlersEnd, NEW x \in Executions, ObserveAgain(x),
         Active(outbox["Observe"]), ~IsTerminal(op), disturbed \/ IsFinalPhase(op),
         exec.recovery \/ Attempt > 0,
         x.nextObs = exec.nextObs, x.recovery = exec.recovery, x.fenced = exec.fenced,
         x.outputs = exec.outputs,
         x.state \in {"Unknown", "Accepted"} \/ (x.state = exec.state /\ OutputsPending),
         exec.recovery => x.state = "Succeeded" /\ ~x.accepted,
         x.state = "Accepted" => x.accepted /\ backend[Attempt] # "None",
         x.state = "Unknown" =>
           attempts[Attempt] = "Unknown" \/ (x.accepted /\ backend[Attempt] # "None"),
         x.accepted /\ ~Fenced => backend[Attempt] # "None"
  PROVE  IInv'
<1> USE DEF IInv
<1>1. /\ SaveExecution(ScheduleObserve(x))
      /\ outbox' = EnqueueObserve(Complete(outbox, "Observe"), x)
      /\ UNCHANGED <<op, opVersion, attempts, provider, limits>>
  BY DEF ObserveAgain
<1>2. /\ exec' \in Executions /\ exec'.version = exec.version + 1 /\ exec'.nextObs = exec.nextObs + 1
      /\ exec'.state = x.state /\ exec'.accepted = x.accepted /\ exec'.outputs = exec.outputs
      /\ exec'.recovery = exec.recovery /\ exec'.fenced = exec.fenced
  BY <1>1, SavedFields, ScheduledFields
<1>3. /\ outbox' \in [Kinds -> Messages]
      /\ outbox'["Drive"] = outbox["Drive"]
      /\ outbox'["Dispatch"].n = outbox["Dispatch"].n
      /\ outbox'["Dispatch"].state \notin {"Pending", "Leased"}
      /\ outbox'["Dispatch"].state = "Dead" => outbox["Dispatch"].state = "Dead"
      /\ outbox'["Observe"].n = exec.nextObs
      /\ outbox'["Observe"].expected = exec.version + 1
      /\ outbox'["Observe"].state = "Pending"
  BY <1>1, ObserveEnqueued
<1>4. ObserveOpen' /\ (OutputsPending' => OutputsPending)
  BY <1>2 DEF ObserveOpen, OutputsPending
<1>5. OutputsPending' => exec.recovery \/ backend[Attempt] = "Succeeded"
  BY <1>4 DEF RowsAgree
<1>6. setbacks' \in 0..MaxSetbacks /\ disturbed' = disturbed /\ attempts \in Seq(AttemptStates)
  BY <1>1 DEF limits, TypeOK
<1>7. QED
  BY <1>1, <1>2, <1>3, <1>4, <1>5, <1>6, ToObserveStep

\* recordDispatch: every truthful answer to Submit is recorded as what it is.
LEMMA RecordDispatchStep ==
  ASSUME IInv, NEW w \in Workers, RecordDispatch(w) PROVE IInv'
<1> USE DEF IInv
<1> DEFINE n == worker[w].n
           answer == worker[w].result
           x == [exec EXCEPT !.accepted = answer \notin {"Rejected", "Absent"}]
<1>1. /\ worker[w].kind = "Dispatch" /\ Active(outbox["Dispatch"]) /\ ~Active(outbox["Observe"])
      /\ exec.state = "Dispatching" /\ ~exec.accepted /\ ~exec.recovery
      /\ Attempt = n /\ Attempt > 0 /\ n \in 1..Attempt
      /\ ~IsTerminal(op) /\ IsFinalPhase(op)
      /\ InDispatch(w) /\ DispatcherAgrees(w)
      /\ AnswerTrue(n, worker[w].sent, answer)
      /\ answer = "Rejected" => backend[n] = "None"
  BY RecordableFacts DEF RecordDispatch
<1>2. HandlersEnd /\ ~InDispatch(w)'
  BY HandlerEnds DEF RecordDispatch
<1>3. UNCHANGED provider
  BY DEF RecordDispatch
<1>4. /\ x \in Executions /\ x.state = exec.state /\ (x.accepted <=> answer \notin {"Rejected", "Absent"})
      /\ x.nextObs = exec.nextObs /\ x.recovery = exec.recovery /\ x.fenced = exec.fenced
      /\ x.outputs = exec.outputs
  BY DEF TypeOK, Executions
<1>5. ASSUME NEW state \in ExecutionStates
      PROVE  LET y == [x EXCEPT !.state = state] IN
             /\ y \in Executions /\ y.state = state /\ y.accepted = x.accepted
             /\ y.nextObs = exec.nextObs /\ y.recovery = exec.recovery /\ y.fenced = exec.fenced
             /\ y.outputs = exec.outputs
  BY <1>4 DEF Executions
<1>6. ASSUME NEW state \in AttemptStates \ {"Pending"}, SetAttempt(n, state)
      PROVE  /\ attempts' \in Seq(AttemptStates) /\ Len(attempts') = Len(attempts)
             /\ \A i \in 1..Len(attempts) : attempts'[i] = attempts[i] \/ attempts'[i] # "Pending"
             /\ attempts'[n] = state
  BY <1>1, <1>6, SetAttemptFields
<1>7. CASE answer = "Ambiguous" /\ GoUnknown(n, FALSE) /\ UNCHANGED limits
  BY <1>1, <1>2, <1>7, GoUnknownStep DEF limits, TypeOK
<1>8. CASE answer = "AmbiguousFound" /\ GoUnknown(n, TRUE) /\ UNCHANGED limits
  BY <1>1, <1>2, <1>8, GoUnknownStep DEF limits, TypeOK, AnswerTrue
<1>9. CASE /\ answer = "Running"
           /\ SetAttempt(n, "Accepted")
           /\ SaveExecution(ScheduleObserve([x EXCEPT !.state = "Accepted"]))
           /\ outbox' = EnqueueObserve(Complete(outbox, "Dispatch"), exec)
           /\ UNCHANGED <<op, opVersion, limits>>
  <2> DEFINE y == [x EXCEPT !.state = "Accepted"]
  <2>1. /\ y \in Executions /\ y.state = "Accepted" /\ y.accepted
        /\ y.nextObs = exec.nextObs /\ y.recovery = exec.recovery /\ y.fenced = exec.fenced
    BY <1>4, <1>5, <1>9 DEF ExecutionStates
  <2>2. SaveExecution(ScheduleObserve(y))
    BY <1>9
  <2> HIDE DEF y
  <2>3. /\ exec' \in Executions /\ exec'.version = exec.version + 1 /\ exec'.nextObs = exec.nextObs + 1
        /\ exec'.state = "Accepted" /\ exec'.accepted
        /\ exec'.recovery = exec.recovery /\ exec'.fenced = exec.fenced
    BY <2>1, <2>2, SavedFields, ScheduledFields
  <2>4. /\ outbox' \in [Kinds -> Messages]
        /\ outbox'["Drive"] = outbox["Drive"]
        /\ outbox'["Dispatch"].n = outbox["Dispatch"].n
        /\ outbox'["Dispatch"].state \notin {"Pending", "Leased"}
        /\ outbox'["Dispatch"].state = "Dead" => outbox["Dispatch"].state = "Dead"
        /\ outbox'["Observe"].n = exec.nextObs
        /\ outbox'["Observe"].expected = exec.version + 1
        /\ outbox'["Observe"].state = "Pending"
    BY <1>1, <1>9, ObserveEnqueued
  <2>5. ObserveOpen' /\ ~OutputsPending'
    BY <2>3 DEF ObserveOpen, OutputsPending
  <2>6. backend[Attempt] # "None"
    BY <1>1, <1>9 DEF AnswerTrue
  <2>7. setbacks' \in 0..MaxSetbacks /\ disturbed' = disturbed
    BY <1>9 DEF limits, TypeOK
  <2>8. /\ attempts' \in Seq(AttemptStates) /\ Len(attempts') = Len(attempts)
        /\ \A i \in 1..Len(attempts) : attempts'[i] = attempts[i] \/ attempts'[i] # "Pending"
    BY <1>6, <1>9 DEF AttemptStates
  <2>9. QED
    BY <1>1, <1>2, <1>3, <1>9, <2>3, <2>4, <2>5, <2>6, <2>7, <2>8, ToObserveStep
<1>10. CASE /\ answer \in {"Rejected", "Failed"}
            /\ SetAttempt(n, IF answer = "Rejected" THEN "Rejected" ELSE "Accepted")
            /\ Finish([x EXCEPT !.state = "Failed"], "Failed", "Dispatch")
            /\ UNCHANGED limits
  <2> DEFINE y == [x EXCEPT !.state = "Failed"]
  <2>1. /\ y \in Executions /\ y.state = "Failed" /\ y.nextObs = exec.nextObs
        /\ y.recovery = exec.recovery /\ y.fenced = exec.fenced /\ y.outputs = exec.outputs
    BY <1>5 DEF ExecutionStates
  <2>2. /\ op' = [op EXCEPT !.state = "Failed"] /\ opVersion' = opVersion + 1
        /\ SaveExecution(y) /\ outbox' = Complete(outbox, "Dispatch")
    BY <1>10 DEF Finish
  <2> HIDE DEF y
  <2>3. /\ exec' \in Executions /\ exec'.nextObs = exec.nextObs
        /\ exec'.state = "Failed" /\ exec'.outputs = exec.outputs
        /\ exec'.recovery = exec.recovery /\ exec'.fenced = exec.fenced
    BY <2>1, <2>2, SavedFields
  <2>4. ~OutputsPending'
    BY <2>3 DEF OutputsPending
  <2>5. /\ attempts' \in Seq(AttemptStates) /\ Len(attempts') = Len(attempts)
        /\ \A i \in 1..Len(attempts) : attempts'[i] = attempts[i] \/ attempts'[i] # "Pending"
    BY <1>6, <1>10 DEF AttemptStates
  <2>6. \/ backend[Attempt] = "Failed"
        \/ /\ backend[Attempt] = "None"
           /\ ~Fenced => \A v \in Workers : ~(InDispatch(v)' /\ worker[v].n = Attempt)
    <3>1. backend[Attempt] = "Failed" \/ backend[Attempt] = "None"
      BY <1>1, <1>10 DEF AnswerTrue, DispatcherAgrees
    <3>2. ~Fenced => \A v \in Workers : InDispatch(v) /\ worker[v].n = Attempt => v = w
      BY <1>1 DEF DispatcherAgrees
    <3>3. \A v \in Workers : InDispatch(v)' => InDispatch(v)
      BY <1>2 DEF HandlersEnd, InDispatch
    <3>4. QED
      BY <1>2, <3>1, <3>2, <3>3
  <2>7. setbacks' \in 0..MaxSetbacks /\ disturbed' = disturbed
    BY <1>10 DEF limits, TypeOK
  <2>8. QED
    BY <1>1, <1>2, <1>3, <2>2, <2>3, <2>4, <2>5, <2>6, <2>7, FinishedStep
<1>11. ASSUME answer \in {"Absent", "Succeeded"},
              SetAttempt(n, IF answer = "Absent" THEN "Rejected" ELSE "Accepted"),
              NEW plan \in OutputPlans,
              FinishSuccess([x EXCEPT !.state = "Succeeded"], "Dispatch", plan)
       PROVE  IInv'
  <2> DEFINE y == [x EXCEPT !.state = "Succeeded"]
  <2>1. /\ y \in Executions /\ y.state = "Succeeded" /\ y.nextObs = exec.nextObs
        /\ y.recovery = exec.recovery /\ y.fenced = exec.fenced
    BY <1>5 DEF ExecutionStates
  <2>2. FinishSuccess(y, "Dispatch", plan)
    BY <1>11
  <2> HIDE DEF y
  <2>3. /\ attempts' \in Seq(AttemptStates) /\ Len(attempts') = Len(attempts)
        /\ \A i \in 1..Len(attempts) : attempts'[i] = attempts[i] \/ attempts'[i] # "Pending"
    BY <1>6, <1>11 DEF AttemptStates
  <2>4. (op.cap = "delete" /\ ~present) \/ backend[Attempt] = "Succeeded"
    BY <1>1, <1>11 DEF AnswerTrue
  <2>5. QED
    BY <1>1, <1>2, <1>3, <2>1, <2>2, <2>3, <2>4, FinishSuccessStep
<1>12. QED
  BY <1>7, <1>8, <1>9, <1>10, <1>11 DEF RecordDispatch

\* recordPendingOutputs: outputs of a durable success are published, rejected,
\* deferred again or, in a recovery, asked for again.
LEMMA RecordPendingOutputsStep ==
  ASSUME IInv, NEW w \in Workers, RecordPendingOutputs(w) PROVE IInv'
<1> USE DEF IInv
<1>1. /\ Active(outbox["Observe"]) /\ ObserveOpen /\ EvidenceTrue(worker[w].result)
      /\ exec.recovery \/ Attempt > 0
      /\ ~IsTerminal(op)
      /\ disturbed \/ IsFinalPhase(op)
      /\ OutputsPending
  BY ObservableFacts DEF RecordPendingOutputs
<1>2. HandlersEnd
  BY HandlerEnds DEF RecordPendingOutputs
<1>3. exec \in Executions /\ attempts \in Seq(AttemptStates) /\ exec.state = "Succeeded"
  BY <1>1 DEF TypeOK, OutputsPending
<1>4. /\ exec.recovery => ~exec.accepted
      /\ exec.accepted /\ ~Fenced => backend[Attempt] # "None"
      /\ exec.recovery \/ backend[Attempt] = "Succeeded"
  BY <1>1 DEF RowsAgree, AttemptRecordsTrue, AcceptedWasLaunched
<1>5. ASSUME NEW plan \in OutputPlans, FinishSuccess(exec, "Observe", plan),
             UNCHANGED <<attempts, provider>>
      PROVE  IInv'
  BY <1>1, <1>2, <1>3, <1>4, <1>5, FinishSuccessStep
<1>6. CASE ObserveAgain(exec)
  BY <1>1, <1>2, <1>3, <1>4, <1>6, ObserveAgainStep
<1>7. QED
  BY <1>5, <1>6 DEF RecordPendingOutputs

\* ObservationOutcomeRetry: absence of an attempt that was never accepted opens
\* the next attempt.
LEMMA ResubmittedStep ==
  ASSUME IInv, HandlersEnd, disturbed' = disturbed, setbacks' \in 0..MaxSetbacks,
         Active(outbox["Observe"]), ~Active(outbox["Dispatch"]),
         ~IsTerminal(op), Attempt > 0, exec.state = "Unknown", ~exec.accepted,
         launches[Attempt] = 0 \/ Attempt \in late,
         attempts' = Append([attempts EXCEPT ![Attempt] = "NotFound"], "Pending"),
         backend' = Append(backend, "None"),
         launches' = Append(launches, 0),
         UNCHANGED late,
         SaveExecution([exec EXCEPT !.state = "Pending"]),
         outbox' = Enqueue(Complete(outbox, "Observe"), "Dispatch", Attempt + 1, exec.version + 1),
         UNCHANGED <<op, opVersion, present>>
  PROVE  IInv'
<1> USE DEF IInv
<1>1. /\ Attempt \in 1..Attempt /\ Attempt = Len(attempts) /\ Attempt \in Nat
      /\ ~exec.recovery /\ IsFinalPhase(op)
      /\ Len(backend) = Len(attempts) /\ Len(launches) = Len(attempts)
      /\ attempts \in Seq(AttemptStates) /\ backend \in Seq(BackendStates) /\ launches \in Seq(Nat)
  BY DEF RowsAgree, TypeOK, Attempt
<1> DEFINE x == [exec EXCEPT !.state = "Pending"]
           old == [attempts EXCEPT ![Attempt] = "NotFound"]
           box == Complete(outbox, "Observe")
<1>2. /\ x \in Executions /\ x.state = "Pending" /\ x.accepted = exec.accepted
      /\ x.nextObs = exec.nextObs /\ x.recovery = exec.recovery /\ x.fenced = exec.fenced
  BY DEF TypeOK, Executions, ExecutionStates
<1>3. SaveExecution(x)
  OBVIOUS
<1>4. /\ old \in Seq(AttemptStates) /\ Len(old) = Len(attempts) /\ old[Attempt] = "NotFound"
      /\ \A i \in 1..Len(attempts) : i # Attempt => old[i] = attempts[i]
  BY <1>1, ExceptSeq DEF AttemptStates
<1>5. /\ box \in [Kinds -> Messages]
      /\ box["Observe"].n = outbox["Observe"].n
      /\ box["Observe"].state = "Completed"
      /\ \A k \in Kinds \ {"Observe"} : box[k] = outbox[k]
  BY ReleaseFields DEF Complete, TypeOK, Kinds, MessageStates
<1>6. attempts' = Append(old, "Pending")
  OBVIOUS
<1>7. outbox' = Enqueue(box, "Dispatch", Attempt + 1, exec.version + 1)
  OBVIOUS
<1> HIDE DEF x, old, box
<1>8. /\ exec' \in Executions /\ exec'.version = exec.version + 1 /\ exec'.nextObs = exec.nextObs
      /\ exec'.state = "Pending" /\ ~exec'.accepted
      /\ ~exec'.recovery /\ exec'.fenced = exec.fenced
  BY <1>1, <1>2, <1>3, SavedFields
<1>9. /\ attempts' \in Seq(AttemptStates) /\ Len(attempts') = Attempt + 1
      /\ attempts'[Attempt + 1] = "Pending"
      /\ \A i \in 1..Attempt : attempts'[i] = attempts[i] \/ attempts'[i] # "Pending"
  BY <1>1, <1>4, <1>6, AppendProperties DEF AttemptStates
<1>10. /\ backend' \in Seq(BackendStates) /\ Len(backend') = Attempt + 1
       /\ backend'[Attempt + 1] = "None"
       /\ \A i \in 1..Attempt : backend'[i] = backend[i]
  BY <1>1, AppendProperties DEF BackendStates
<1>11. /\ launches' \in Seq(Nat) /\ Len(launches') = Attempt + 1
       /\ launches'[Attempt + 1] = 0
       /\ \A i \in 1..Attempt : launches'[i] = launches[i]
  BY <1>1, AppendProperties
<1>12. /\ outbox' \in [Kinds -> Messages]
       /\ outbox'["Drive"] = outbox["Drive"]
       /\ outbox'["Dispatch"].n = Attempt + 1
       /\ outbox'["Dispatch"].expected = exec.version + 1
       /\ outbox'["Dispatch"].state = "Pending"
       /\ outbox'["Observe"].n = outbox["Observe"].n
       /\ outbox'["Observe"].state = "Completed"
  <2>1. /\ Attempt + 1 \in Nat /\ exec.version + 1 \in Nat /\ "Dispatch" \in Kinds
    BY <1>1 DEF TypeOK, Executions, Kinds
  <2>2. box["Dispatch"].n = outbox["Dispatch"].n /\ outbox["Dispatch"].n \in Nat
    BY <1>5 DEF TypeOK, Kinds, Messages
  <2>3. Attempt + 1 > box["Dispatch"].n
    BY <1>1, <2>2 DEF MessagesAgree
  <2>4. /\ outbox' \in [Kinds -> Messages]
        /\ outbox'["Dispatch"].n = Attempt + 1
        /\ outbox'["Dispatch"].expected = exec.version + 1
        /\ outbox'["Dispatch"].state = "Pending"
        /\ \A k \in Kinds \ {"Dispatch"} : outbox'[k] = box[k]
    BY <1>5, <1>7, <2>1, <2>3, EnqueueFields
  <2>5. QED
    BY <1>5, <2>4 DEF Kinds
<1>13. \A w \in Workers : ~(InDispatch(w)' /\ worker[w].n = Attempt + 1)
  <2>1. \A w \in Workers : InDispatch(w)' => InDispatch(w)
    BY DEF HandlersEnd, InDispatch
  <2>2. QED
    BY <1>1, <2>1 DEF DispatchersAgree, DispatcherAgrees
<1>14. \A i \in Attempt..(Attempt + 1 - 1) : i > 0 /\ launches[i] > 0 => i \in late
  BY <1>1
<1>15. \A i \in 1..(Attempt + 1) : i # Attempt + 1 => i \in 1..Attempt
  BY <1>1
<1>16. QED
  BY <1>1, <1>8, <1>9, <1>10, <1>11, <1>12, <1>13, <1>14, <1>15, ToDispatchStep

\* RecordObservation: evidence of the lease holder decides the execution.
LEMMA RecordObservationStep ==
  ASSUME IInv, NEW w \in Workers, RecordObservation(w) PROVE IInv'
<1> USE DEF IInv
<1> DEFINE answer == worker[w].result
           x == [exec EXCEPT !.accepted = TRUE]
<1>1. /\ Active(outbox["Observe"]) /\ ~Active(outbox["Dispatch"])
      /\ EvidenceTrue(answer)
      /\ Attempt \in Nat
      /\ ~IsTerminal(op)
      /\ disturbed \/ IsFinalPhase(op)
      /\ exec.state \in {"Unknown", "Accepted"} /\ ~OutputsPending
      /\ exec.recovery \/ Attempt > 0
  BY ObservableFacts DEF RecordObservation, ObserveOpen
<1>2. HandlersEnd
  BY HandlerEnds DEF RecordObservation
<1>3. /\ ~exec.recovery /\ Attempt > 0 /\ Attempt \in 1..Attempt
      /\ exec.accepted /\ ~Fenced => backend[Attempt] # "None"
      /\ exec.state = "Accepted" => exec.accepted /\ backend[Attempt] # "None"
      /\ exec.state = "Unknown" =>
           attempts[Attempt] = "Unknown" \/ (exec.accepted /\ backend[Attempt] # "None")
  BY <1>1 DEF RowsAgree, AttemptRecordsTrue, AcceptedWasLaunched
<1>4. exec \in Executions /\ attempts \in Seq(AttemptStates) /\ setbacks \in 0..MaxSetbacks
  BY DEF TypeOK
<1>5. ASSUME NEW state \in ExecutionStates
      PROVE  LET y == [x EXCEPT !.state = state]
                 z == [exec EXCEPT !.state = state]
             IN  /\ y \in Executions /\ y.state = state /\ y.accepted
                 /\ y.nextObs = exec.nextObs /\ y.recovery = exec.recovery
                 /\ y.fenced = exec.fenced /\ y.outputs = exec.outputs
                 /\ z \in Executions /\ z.state = state /\ z.accepted = exec.accepted
                 /\ z.nextObs = exec.nextObs /\ z.recovery = exec.recovery
                 /\ z.fenced = exec.fenced /\ z.outputs = exec.outputs
  BY DEF TypeOK, Executions
<1>6. CASE ObserveAgain(exec)
  BY <1>1, <1>2, <1>3, <1>4, <1>6, ObserveAgainStep
<1>7. CASE /\ answer = "NotFoundFailed"
           /\ SetAttempt(Attempt, "Rejected")
           /\ Finish([exec EXCEPT !.state = "Failed", !.accepted = FALSE], "Failed", "Observe")
           /\ UNCHANGED <<provider, limits>>
  <2> DEFINE y == [exec EXCEPT !.state = "Failed", !.accepted = FALSE]
  <2>1. /\ y \in Executions /\ y.state = "Failed" /\ y.nextObs = exec.nextObs
        /\ y.recovery = exec.recovery /\ y.fenced = exec.fenced
    BY DEF TypeOK, Executions, ExecutionStates
  <2>2. /\ op' = [op EXCEPT !.state = "Failed"] /\ opVersion' = opVersion + 1
        /\ SaveExecution(y) /\ outbox' = Complete(outbox, "Observe")
    BY <1>7 DEF Finish
  <2> HIDE DEF y
  <2>3. /\ exec' \in Executions /\ exec'.nextObs = exec.nextObs /\ exec'.state = "Failed"
        /\ exec'.recovery = exec.recovery /\ exec'.fenced = exec.fenced
    BY <2>1, <2>2, SavedFields
  <2>4. ~OutputsPending' /\ backend[Attempt] = "None" /\ Fenced
    BY <1>1, <1>7, <2>3 DEF OutputsPending, EvidenceTrue
  <2>5. /\ attempts' \in Seq(AttemptStates) /\ Len(attempts') = Len(attempts)
        /\ \A i \in 1..Len(attempts) : attempts'[i] = attempts[i] \/ attempts'[i] # "Pending"
    BY <1>3, <1>7, SetAttemptFields DEF AttemptStates
  <2>6. setbacks' \in 0..MaxSetbacks /\ disturbed' = disturbed
    BY <1>4, <1>7 DEF limits
  <2>7. QED
    BY <1>1, <1>2, <1>3, <1>7, <2>2, <2>3, <2>4, <2>5, <2>6, FinishedStep
<1>8. CASE /\ answer = "NotFound" /\ MayResubmit
           /\ attempts' = Append([attempts EXCEPT ![Attempt] = "NotFound"], "Pending")
           /\ backend' = Append(backend, "None")
           /\ launches' = Append(launches, 0)
           /\ UNCHANGED late
           /\ SaveExecution([exec EXCEPT !.state = "Pending"])
           /\ outbox' = Enqueue(Complete(outbox, "Observe"), "Dispatch", Attempt + 1, exec.version + 1)
           /\ UNCHANGED <<op, opVersion, present, limits>>
  <2>1. /\ exec.state = "Unknown" /\ ~exec.accepted
        /\ launches[Attempt] = 0 \/ Attempt \in late
    BY <1>1, <1>8 DEF MayResubmit, EvidenceTrue
  <2>2. setbacks' \in 0..MaxSetbacks /\ disturbed' = disturbed
    BY <1>4, <1>8 DEF limits
  <2>3. QED
    BY <1>1, <1>2, <1>3, <1>8, <2>1, <2>2, ResubmittedStep
<1>9. CASE ObserveAgain([exec EXCEPT !.state = "Unknown"])
  <2> DEFINE y == [exec EXCEPT !.state = "Unknown"]
  <2>2. /\ y \in Executions /\ y.state = "Unknown" /\ y.accepted = exec.accepted
        /\ y.nextObs = exec.nextObs /\ y.recovery = exec.recovery
        /\ y.fenced = exec.fenced /\ y.outputs = exec.outputs
    BY <1>5 DEF ExecutionStates
  <2>3. ObserveAgain(y)
    BY <1>9
  <2> HIDE DEF y
  <2>4. QED
    BY <1>1, <1>2, <1>3, <2>2, <2>3, ObserveAgainStep
<1>10. CASE answer = "FoundUnknown" /\ ObserveAgain([x EXCEPT !.state = "Unknown"])
  <2>1. backend[Attempt] # "None"
    BY <1>1, <1>10 DEF EvidenceTrue
  <2> DEFINE y == [x EXCEPT !.state = "Unknown"]
  <2>2. /\ y \in Executions /\ y.state = "Unknown" /\ y.accepted = TRUE
        /\ y.nextObs = exec.nextObs /\ y.recovery = exec.recovery
        /\ y.fenced = exec.fenced /\ y.outputs = exec.outputs
    BY <1>5 DEF ExecutionStates
  <2>3. ObserveAgain(y)
    BY <1>10
  <2> HIDE DEF y
  <2>4. QED
    BY <1>1, <1>2, <1>3, <2>1, <2>2, <2>3, ObserveAgainStep
<1>11. CASE answer = "Running" /\ ObserveAgain([x EXCEPT !.state = "Accepted"])
  <2>1. backend[Attempt] # "None"
    BY <1>1, <1>11 DEF EvidenceTrue
  <2> DEFINE y == [x EXCEPT !.state = "Accepted"]
  <2>2. /\ y \in Executions /\ y.state = "Accepted" /\ y.accepted = TRUE
        /\ y.nextObs = exec.nextObs /\ y.recovery = exec.recovery
        /\ y.fenced = exec.fenced /\ y.outputs = exec.outputs
    BY <1>5 DEF ExecutionStates
  <2>3. ObserveAgain(y)
    BY <1>11
  <2> HIDE DEF y
  <2>4. QED
    BY <1>1, <1>2, <1>3, <2>1, <2>2, <2>3, ObserveAgainStep
<1>12. CASE /\ answer = "Failed"
            /\ Finish([x EXCEPT !.state = "Failed"], "Failed", "Observe")
            /\ UNCHANGED <<attempts, provider, limits>>
  <2> DEFINE y == [x EXCEPT !.state = "Failed"]
  <2>1. /\ y \in Executions /\ y.state = "Failed" /\ y.nextObs = exec.nextObs
        /\ y.recovery = exec.recovery /\ y.fenced = exec.fenced
    BY <1>5 DEF ExecutionStates
  <2>2. /\ op' = [op EXCEPT !.state = "Failed"] /\ opVersion' = opVersion + 1
        /\ SaveExecution(y) /\ outbox' = Complete(outbox, "Observe")
    BY <1>12 DEF Finish
  <2> HIDE DEF y
  <2>3. /\ exec' \in Executions /\ exec'.nextObs = exec.nextObs /\ exec'.state = "Failed"
        /\ exec'.recovery = exec.recovery /\ exec'.fenced = exec.fenced
    BY <2>1, <2>2, SavedFields
  <2>4. ~OutputsPending' /\ backend[Attempt] = "Failed"
    BY <1>1, <1>12, <2>3 DEF OutputsPending, EvidenceTrue
  <2>5. setbacks' \in 0..MaxSetbacks /\ disturbed' = disturbed
    BY <1>4, <1>12 DEF limits
  <2>6. QED
    BY <1>1, <1>2, <1>3, <1>4, <1>12, <2>2, <2>3, <2>4, <2>5, FinishedStep
<1>13. ASSUME answer = "Succeeded", NEW plan \in OutputPlans,
              FinishSuccess([x EXCEPT !.state = "Succeeded"], "Observe", plan),
              UNCHANGED <<attempts, provider>>
       PROVE  IInv'
  <2> DEFINE y == [x EXCEPT !.state = "Succeeded"]
  <2>1. /\ y \in Executions /\ y.state = "Succeeded" /\ y.nextObs = exec.nextObs
        /\ y.recovery = exec.recovery /\ y.fenced = exec.fenced
    BY <1>5 DEF ExecutionStates
  <2>2. FinishSuccess(y, "Observe", plan)
    BY <1>13
  <2> HIDE DEF y
  <2>3. (op.cap = "delete" /\ ~present) \/ backend[Attempt] = "Succeeded"
    BY <1>1, <1>3, <1>13 DEF EvidenceTrue
  <2>4. QED
    BY <1>1, <1>2, <1>3, <1>4, <1>13, <2>1, <2>2, <2>3, FinishSuccessStep
<1>14. QED
  BY <1>6, <1>7, <1>8, <1>9, <1>10, <1>11, <1>12, <1>13 DEF RecordObservation

\* TriggerObserve (an operator's or a caller's Observe): one more observation.
LEMMA TriggerObserveStep ==
  ASSUME IInv, TriggerObserve PROVE IInv'
<1> USE DEF IInv
<1>1. /\ disturbed /\ ~IsTerminal(op) /\ ObserveOpen
      /\ SaveExecution(ScheduleObserve(exec))
      /\ outbox' = EnqueueObserve(outbox, exec)
      /\ UNCHANGED <<op, opVersion, attempts, worker, provider>>
  BY DEF TriggerObserve, ObserveOpen
<1>2. /\ exec \in Executions /\ attempts \in Seq(AttemptStates)
      /\ outbox \in [Kinds -> Messages] /\ HandlersEnd
  BY <1>1 DEF TypeOK, HandlersEnd
<1>3. /\ exec' \in Executions /\ exec'.version = exec.version + 1 /\ exec'.nextObs = exec.nextObs + 1
      /\ exec'.state = exec.state /\ exec'.accepted = exec.accepted /\ exec'.outputs = exec.outputs
      /\ exec'.recovery = exec.recovery /\ exec'.fenced = exec.fenced
  BY <1>1, <1>2, SavedFields, ScheduledFields
<1>4. /\ outbox' \in [Kinds -> Messages]
      /\ outbox'["Observe"].n = exec.nextObs
      /\ outbox'["Observe"].expected = exec.version + 1
      /\ outbox'["Observe"].state = "Pending"
      /\ \A k \in Kinds \ {"Observe"} : outbox'[k] = outbox[k]
  <2>1. exec.nextObs \in Nat /\ exec.version + 1 \in Nat /\ outbox["Observe"].n \in Nat
    BY <1>2 DEF Executions, Kinds, Messages
  <2>2. exec.nextObs > outbox["Observe"].n
    BY <2>1 DEF MessagesAgree
  <2>3. QED
    BY <1>1, <1>2, <2>1, <2>2, EnqueueFields DEF EnqueueObserve, Kinds
<1>5. outbox["Dispatch"].state \notin {"Pending", "Leased"}
  BY <1>1 DEF MessagesAgree, Active, ObserveOpen, OutputsPending
<1>6. /\ exec.recovery \/ Attempt > 0
      /\ exec.recovery => exec.state = "Succeeded" /\ ~exec.accepted
      /\ exec.state = "Accepted" => exec.accepted /\ backend[Attempt] # "None"
      /\ exec.state = "Unknown" =>
           attempts[Attempt] = "Unknown" \/ (exec.accepted /\ backend[Attempt] # "None")
      /\ OutputsPending => exec.recovery \/ backend[Attempt] = "Succeeded"
      /\ exec.accepted /\ ~Fenced => backend[Attempt] # "None"
  BY <1>1 DEF RowsAgree, ObserveOpen, OutputsPending, Attempt, TypeOK,
              AttemptRecordsTrue, AcceptedWasLaunched
<1>7. ObserveOpen' /\ (OutputsPending' <=> OutputsPending)
  BY <1>1, <1>3 DEF ObserveOpen, OutputsPending
<1>8. setbacks' \in 0..MaxSetbacks /\ disturbed' = disturbed
  BY SetbackCounts DEF TriggerObserve
<1>9. QED
  BY <1>1, <1>2, <1>3, <1>4, <1>5, <1>6, <1>7, <1>8, ToObserveStep DEF Kinds

-----------------------------------------------------------------------------
(* Preparation, the provider call and the backend. *)

\* PrepareDispatch moves the execution to Dispatching and its attempt to Leased.
LEMMA PreparedRows ==
  ASSUME IInv, Active(outbox["Dispatch"]), DispatchCurrent(Attempt), PrepareRows(Attempt),
         UNCHANGED <<provider, disturbed>>
  PROVE  /\ op' = op /\ opVersion' = opVersion
         /\ exec' \in Executions /\ exec'.version = exec.version + 1 /\ exec'.nextObs = exec.nextObs
         /\ exec'.state = "Dispatching" /\ exec'.fenced = exec.fenced
         /\ attempts' \in Seq(AttemptStates) /\ Len(attempts') = Len(attempts)
         /\ attempts'[Attempt] = "Leased"
         /\ \A i \in 1..Len(attempts) : i # Attempt => attempts'[i] = attempts[i]
         /\ ~IsTerminal(op) /\ IsFinalPhase(op) /\ Attempt \in 1..Attempt /\ ~Active(outbox["Observe"])
         /\ RowsAgree' /\ PendingNeverRan' /\ RefusedForGood'
         /\ LaunchedOnce' /\ AttemptRecordsTrue' /\ OutcomeIsTruth'
<1> USE DEF IInv
<1> DEFINE x == [exec EXCEPT !.state = "Dispatching"]
<1>1. /\ SetAttempt(Attempt, "Leased") /\ SaveExecution(x) /\ op' = op /\ opVersion' = opVersion
      /\ exec.state = "Pending" /\ attempts[Attempt] = "Pending"
  BY DEF PrepareRows, DispatchCurrent
<1>2. /\ x \in Executions /\ x.state = "Dispatching" /\ x.accepted = exec.accepted
      /\ x.nextObs = exec.nextObs /\ x.recovery = exec.recovery /\ x.fenced = exec.fenced
  BY DEF TypeOK, Executions, ExecutionStates
<1> HIDE DEF x
<1>3. /\ exec' \in Executions /\ exec'.version = exec.version + 1 /\ exec'.nextObs = exec.nextObs
      /\ exec'.state = "Dispatching" /\ exec'.fenced = exec.fenced
      /\ exec'.accepted = exec.accepted /\ exec'.recovery = exec.recovery
  BY <1>1, <1>2, SavedFields
<1>4. /\ Attempt \in 1..Attempt /\ Attempt > 0 /\ Attempt \in Nat /\ Attempt = Len(attempts)
      /\ ~exec.accepted /\ ~exec.recovery /\ ~IsTerminal(op) /\ IsFinalPhase(op)
      /\ ~Active(outbox["Observe"])
  BY <1>1 DEF MessagesAgree, RowsAgree, TypeOK, Attempt, ObserveOpen, OutputsPending
<1>5. /\ attempts' \in Seq(AttemptStates) /\ Len(attempts') = Len(attempts)
      /\ attempts'[Attempt] = "Leased"
      /\ \A i \in 1..Len(attempts) : i # Attempt => attempts'[i] = attempts[i]
  BY <1>1, <1>4, SetAttemptFields DEF AttemptStates
<1>6. /\ backend' = backend /\ launches' = launches /\ late' = late /\ present' = present
      /\ Attempt' = Attempt /\ Fenced' = Fenced
      /\ IsTerminal(op)' = IsTerminal(op) /\ IsFinalPhase(op)' = IsFinalPhase(op)
  BY <1>1, <1>3, <1>5 DEF provider, Attempt, Fenced, IsTerminal, IsFinalPhase
<1>7. RowsAgree'
  BY <1>1, <1>3, <1>4, <1>5, <1>6 DEF RowsAgree, OutputsPending
<1>8. PendingNeverRan'
  BY <1>4, <1>5, <1>6 DEF PendingNeverRan
<1>9. RefusedForGood' /\ OutcomeIsTruth'
  BY <1>1, <1>4 DEF RefusedForGood, OutcomeIsTruth, IsTerminal
<1>10. LaunchedOnce' /\ AttemptRecordsTrue'
  BY <1>3, <1>4, <1>6 DEF LaunchedOnce, AttemptRecordsTrue, SupersededNeverRan, AcceptedWasLaunched
<1>11. QED
  BY <1>1, <1>3, <1>4, <1>5, <1>7, <1>8, <1>9, <1>10

\* A committed preparation whose acknowledgement is lost: the message is retried
\* as it stood, and nobody holds the prepared attempt.
LEMMA PrepareUnacknowledgedStep ==
  ASSUME IInv, NEW w \in Workers, PrepareUnacknowledged(w) PROVE IInv'
<1> USE DEF IInv
<1>1. /\ worker[w].kind = "Dispatch" /\ Active(outbox["Dispatch"]) /\ Attempt = worker[w].n
      /\ outbox["Dispatch"].n = Attempt
  BY OwnedIsActive DEF PrepareUnacknowledged, DispatchCurrent
<1>2. setbacks' \in 0..MaxSetbacks /\ disturbed' = disturbed /\ disturbed
  BY SetbackCounts DEF PrepareUnacknowledged
<1>3. /\ op' = op /\ opVersion' = opVersion
      /\ exec' \in Executions /\ exec'.version = exec.version + 1 /\ exec'.nextObs = exec.nextObs
      /\ exec'.state = "Dispatching" /\ exec'.fenced = exec.fenced
      /\ attempts' \in Seq(AttemptStates) /\ Len(attempts') = Len(attempts)
      /\ attempts'[Attempt] = "Leased"
      /\ \A i \in 1..Len(attempts) : i # Attempt => attempts'[i] = attempts[i]
      /\ ~IsTerminal(op) /\ IsFinalPhase(op) /\ Attempt \in 1..Attempt /\ ~Active(outbox["Observe"])
      /\ RowsAgree' /\ PendingNeverRan' /\ RefusedForGood'
      /\ LaunchedOnce' /\ AttemptRecordsTrue' /\ OutcomeIsTruth'
  BY <1>1, <1>2, PreparedRows DEF PrepareUnacknowledged
<1>4. HandlersEnd
  BY HandlerEnds DEF PrepareUnacknowledged
<1>5. /\ outbox' \in [Kinds -> Messages]
      /\ outbox'["Dispatch"].n = outbox["Dispatch"].n
      /\ outbox'["Dispatch"].state = "Pending"
      /\ outbox'["Drive"] = outbox["Drive"] /\ outbox'["Observe"] = outbox["Observe"]
  BY ReleaseFields DEF PrepareUnacknowledged, TypeOK, Kinds, MessageStates
<1>6. /\ backend' = backend /\ launches' = launches /\ late' = late /\ present' = present
      /\ Attempt' = Attempt /\ Attempt = Len(attempts) /\ Attempt \in Nat
  BY <1>3 DEF PrepareUnacknowledged, provider, Attempt, TypeOK
<1>7. TypeOK'
  BY <1>2, <1>3, <1>4, <1>5, <1>6 DEF TypeOK, HandlersEnd
<1>8. ~Fenced => \A v \in Workers : InDispatch(v)' => attempts'[worker[v].n] # "Pending"
  <2>1. \A v \in Workers : InDispatch(v)' => InDispatch(v)
    BY <1>4 DEF HandlersEnd, InDispatch
  <2>2. QED
    BY <1>3, <1>6, <2>1 DEF DispatchersAgree, DispatcherAgrees
<1>9. Recorded
  BY <1>2, <1>3, <1>4, <1>5, <1>6, <1>7, <1>8 DEF Recorded, Active
<1>10. MessagesAgree'
  BY <1>1, <1>3, <1>5, <1>6 DEF MessagesAgree, Active
<1>11. Undisturbed'
  BY <1>2 DEF Undisturbed
<1>12. QED
  BY <1>3, <1>7, <1>9, <1>10, <1>11, RecordedHandlers

\* PrepareDispatch: the worker becomes the only one that may send the attempt.
LEMMA PrepareStep ==
  ASSUME IInv, NEW w \in Workers, Prepare(w) PROVE IInv'
<1> USE DEF IInv
<1>1. /\ worker[w].kind = "Dispatch" /\ worker[w].step = "claimed" /\ Owns(w)
      /\ Active(outbox["Dispatch"]) /\ outbox["Dispatch"].state = "Leased"
      /\ Attempt = worker[w].n /\ outbox["Dispatch"].n = Attempt
      /\ attempts[Attempt] = "Pending" /\ ~worker[w].sent
      /\ UNCHANGED <<outbox, provider, limits>>
  BY OwnedIsActive DEF Prepare, DispatchCurrent, FreshClaims
<1>2. /\ op' = op /\ opVersion' = opVersion
      /\ exec' \in Executions /\ exec'.version = exec.version + 1 /\ exec'.nextObs = exec.nextObs
      /\ exec'.state = "Dispatching" /\ exec'.fenced = exec.fenced
      /\ attempts' \in Seq(AttemptStates) /\ Len(attempts') = Len(attempts)
      /\ attempts'[Attempt] = "Leased"
      /\ \A i \in 1..Len(attempts) : i # Attempt => attempts'[i] = attempts[i]
      /\ ~IsTerminal(op) /\ IsFinalPhase(op) /\ Attempt \in 1..Attempt /\ ~Active(outbox["Observe"])
      /\ RowsAgree' /\ PendingNeverRan' /\ RefusedForGood'
      /\ LaunchedOnce' /\ AttemptRecordsTrue' /\ OutcomeIsTruth'
  BY <1>1, PreparedRows DEF Prepare, limits
<1>3. /\ worker' \in [Workers -> Claims]
      /\ worker'[w].step = "submitting" /\ worker'[w].version = exec.version + 1
      /\ worker'[w].kind = "Dispatch" /\ worker'[w].n = Attempt /\ ~worker'[w].sent
      /\ \A v \in Workers \ {w} : worker'[v] = worker[v]
  <2>1. worker' = [worker EXCEPT ![w].step = "submitting", ![w].version = exec.version + 1]
    BY DEF Prepare
  <2>2. exec.version + 1 \in Nat
    BY DEF TypeOK, Executions
  <2>3. QED
    BY <1>1, <2>1, <2>2 DEF TypeOK, Claims, Steps
<1>4. /\ backend' = backend /\ launches' = launches /\ late' = late /\ present' = present
      /\ Attempt' = Attempt /\ Attempt = Len(attempts) /\ Attempt \in Nat
      /\ Fenced' = Fenced /\ disturbed' = disturbed /\ outbox' = outbox
  BY <1>1, <1>2 DEF provider, Attempt, TypeOK, Fenced, limits
<1>5. TypeOK'
  BY <1>1, <1>2, <1>3, <1>4 DEF TypeOK, limits
<1>6. \A v \in Workers : Owns(v)' <=> Owns(v)
  <2>1. ASSUME NEW v \in Workers PROVE Owns(v)' <=> Owns(v)
    <3>1. worker'[v].kind = worker[v].kind /\ worker'[v].n = worker[v].n
      BY <1>1, <1>3
    <3>2. QED
      BY <1>4, <3>1 DEF Owns
  <2>2. QED
    BY <2>1
<1>7. \A v \in Workers \ {w} : Owns(v) => worker[v].kind = "Drive"
  <2> SUFFICES ASSUME NEW v \in Workers \ {w}, Owns(v) PROVE worker[v].kind = "Drive"
    OBVIOUS
  <2>1. worker[v].kind \in Kinds /\ Active(outbox[worker[v].kind])
    BY OwnedIsActive
  <2>2. worker[v].kind # "Dispatch"
    BY <1>1, OneOwner
  <2>3. QED
    BY <1>2, <2>1, <2>2 DEF Kinds
<1>8. MessagesAgree'
  BY <1>1, <1>2, <1>4 DEF MessagesAgree
<1>9. FreshClaims'
  BY <1>3 DEF FreshClaims
<1>10. DispatchersAgree'
  <2>1. ASSUME ~Fenced, NEW v \in Workers, InDispatch(v) PROVE worker[v].n # Attempt
    BY <1>1, <2>1 DEF DispatchersAgree, DispatcherAgrees
  <2>2. ASSUME NEW v \in Workers \ {w}, InDispatch(v)' PROVE DispatcherAgrees(v)'
    <3>1. InDispatch(v) /\ DispatcherAgrees(v) /\ worker'[v] = worker[v] /\ ~Owns(v)'
      BY <1>3, <1>6, <1>7, <2>2 DEF InDispatch, DispatchersAgree, DispatcherAgrees
    <3>2. ~Fenced => attempts'[worker[v].n] # "Pending"
      BY <1>2, <1>4, <3>1 DEF DispatcherAgrees
    <3>3. ~Fenced => \A u \in Workers : InDispatch(u)' /\ worker'[u].n = worker[v].n => u = v
      BY <1>3, <2>1, <3>1 DEF DispatcherAgrees, InDispatch
    <3>4. QED
      BY <1>4, <3>1, <3>2, <3>3 DEF DispatcherAgrees
  <2>3. DispatcherAgrees(w)'
    <3>1. ~Fenced => backend[Attempt] = "None"
      BY <1>1, <1>2 DEF PendingNeverRan
    <3>2. ~Fenced => \A u \in Workers : InDispatch(u)' /\ worker'[u].n = Attempt => u = w
      BY <1>3, <2>1 DEF InDispatch
    <3>3. QED
      BY <1>2, <1>3, <1>4, <3>1, <3>2 DEF DispatcherAgrees
  <2>4. QED
    BY <2>2, <2>3 DEF DispatchersAgree
<1>11. AnswersTrue'
  BY <1>2, <1>3, <1>4, <1>6 DEF AnswersTrue, AnswerTrue
<1>12. ObserversAgree' /\ EvidencesTrue'
  <2>1. \A v \in Workers : InObserve(v)' => worker'[v] = worker[v] /\ InObserve(v) /\ v # w
    BY <1>3 DEF InObserve
  <2>2. \A v \in Workers : InObserve(v)' => worker[v].kind = "Observe" /\ ~Owns(v)'
    BY <1>6, <1>7, <2>1 DEF ObserversAgree
  <2>3. QED
    BY <2>1, <2>2 DEF ObserversAgree, EvidencesTrue, InObserve
<1>13. Undisturbed'
  <2>1. IsFinalPhase(op)' /\ ~IsTerminal(op)' /\ ~ObserveOpen' /\ ~ObserveOpen
    BY <1>2, <1>1 DEF IsFinalPhase, IsTerminal, ObserveOpen, OutputsPending, Prepare, DispatchCurrent
  <2>2. QED
    BY <1>1, <1>2, <1>4, <2>1 DEF Undisturbed
<1>14. UndisturbedClaims'
  BY <1>3, <1>6, <1>7 DEF UndisturbedClaims
<1>15. QED
  BY <1>2, <1>5, <1>8, <1>9, <1>10, <1>11, <1>12, <1>13, <1>14

\* The provider call (Submit, SubmitFenced): without fencing only the attempt's
\* one dispatcher can make it; with fencing only the lease holder can, and only
\* for an attempt that has not been applied.
LEMMA LaunchStep ==
  ASSUME IInv, NEW w \in Workers, Launch(w) PROVE IInv'
<1> USE DEF IInv
<1> DEFINE n == worker[w].n
<1>1. /\ worker[w].step = "submitting" /\ ~worker[w].sent
      /\ Fenced => Owns(w) /\ Attempt = n /\ backend[n] = "None"
      /\ backend' = [backend EXCEPT ![n] = IF @ = "None" THEN "Running" ELSE @]
      /\ launches' = [launches EXCEPT ![n] = @ + 1]
      /\ late' = IF Owns(w) THEN late ELSE late \cup {n}
      /\ worker' = [worker EXCEPT ![w].sent = TRUE]
      /\ op' = op /\ opVersion' = opVersion /\ exec' = exec /\ attempts' = attempts
      /\ outbox' = outbox /\ present' = present /\ setbacks' = setbacks /\ disturbed' = disturbed
  BY DEF Launch, rows, limits
<1>2. InDispatch(w) /\ DispatcherAgrees(w)
  BY <1>1 DEF InDispatch, DispatchersAgree
<1>3. /\ n \in 1..Attempt /\ Attempt = Len(attempts) /\ Attempt \in Nat /\ worker[w].kind = "Dispatch"
      /\ Len(backend) = Attempt /\ Len(launches) = Attempt
      /\ backend \in Seq(BackendStates) /\ launches \in Seq(Nat)
      /\ backend[n] = "None"
  BY <1>1, <1>2 DEF DispatcherAgrees, RowsAgree, TypeOK, Attempt
<1>4. launches[n] = 0
  BY <1>3 DEF RowsAgree
<1>5. /\ backend' \in Seq(BackendStates) /\ Len(backend') = Attempt
      /\ backend'[n] = "Running"
      /\ \A i \in 1..Attempt : i # n => backend'[i] = backend[i]
  <2>1. backend' = [backend EXCEPT ![n] = "Running"]
    BY <1>1, <1>3
  <2>2. QED
    BY <1>3, <2>1, ExceptSeq DEF BackendStates
<1>6. /\ launches' \in Seq(Nat) /\ Len(launches') = Attempt
      /\ launches'[n] = 1
      /\ \A i \in 1..Attempt : i # n => launches'[i] = launches[i]
  <2>1. launches' = [launches EXCEPT ![n] = 1]
    BY <1>1, <1>3, <1>4
  <2>2. QED
    BY <1>3, <2>1, ExceptSeq
<1>7. /\ worker' \in [Workers -> Claims]
      /\ worker'[w].sent /\ worker'[w].step = "submitting"
      /\ worker'[w].n = n /\ worker'[w].kind = worker[w].kind /\ worker'[w].version = worker[w].version
      /\ \A v \in Workers \ {w} : worker'[v] = worker[v]
  BY <1>1 DEF TypeOK, Claims
<1>8. /\ Attempt' = Attempt /\ Fenced' = Fenced
      /\ \A v \in Workers : (Owns(v)' <=> Owns(v)) /\ (InDispatch(v)' <=> InDispatch(v))
                            /\ worker'[v].n = worker[v].n
  BY <1>1, <1>7 DEF Attempt, Fenced, Owns, InDispatch
<1>9. Owns(w) => Active(outbox["Dispatch"]) /\ n = Attempt /\ exec.state = "Dispatching"
  BY <1>2, <1>3, OwnedIsActive DEF DispatcherAgrees, MessagesAgree
<1>10. TypeOK'
  BY <1>1, <1>3, <1>5, <1>6, <1>7 DEF TypeOK
<1>11. n = Attempt => /\ op.state # "Succeeded" \/ exec.recovery \/ (op.cap = "delete" /\ ~present)
                      /\ ~(op.state = "Failed" /\ exec.outputs # "Rejected")
  <2>1. op.state = "Failed" => ~Fenced
    BY <1>1, <1>9 DEF RowsAgree, IsTerminal
  <2>2. QED
    BY <1>2, <1>3, <2>1 DEF OutcomeIsTruth, RefusedForGood
<1>12. RowsAgree'
  <2>1. \A i \in 1..Attempt : backend'[i] = "None" <=> launches'[i] = 0
    BY <1>5, <1>6 DEF RowsAgree
  <2>2. /\ IsTerminal(op)' = IsTerminal(op) /\ IsFinalPhase(op)' = IsFinalPhase(op)
        /\ OutputsPending' = OutputsPending
    BY <1>1 DEF IsTerminal, IsFinalPhase, OutputsPending
  <2>3. /\ exec.state \in {"Accepted", "Unknown"} /\ backend[Attempt] # "None" => n # Attempt
        /\ OutputsPending /\ ~exec.recovery => n # Attempt
    BY <1>3 DEF RowsAgree
  <2>4. Attempt > 0 /\ n # Attempt => backend'[Attempt] = backend[Attempt]
    BY <1>3, <1>5
  <2>5. Attempt > 0
    BY <1>3
  <2>6. QED
    BY <1>1, <1>3, <1>5, <1>6, <1>8, <2>1, <2>2, <2>3, <2>4, <2>5 DEF RowsAgree
<1>13. MessagesAgree' /\ Undisturbed'
  BY <1>1, <1>8 DEF MessagesAgree, Undisturbed, ObserveOpen, OutputsPending
<1>14. FreshClaims' /\ UndisturbedClaims'
  BY <1>1, <1>7, <1>8 DEF FreshClaims, UndisturbedClaims
<1>15. DispatchersAgree'
  <2> SUFFICES ASSUME NEW v \in Workers, InDispatch(v)' PROVE DispatcherAgrees(v)'
    BY DEF DispatchersAgree
  <2>1. DispatcherAgrees(v) /\ worker[v].n \in 1..Attempt
    BY <1>8 DEF DispatchersAgree, DispatcherAgrees
  <2>2. CASE v = w
    BY <1>1, <1>2, <1>5, <1>7, <1>8, <2>2 DEF DispatcherAgrees
  <2>3. CASE v # w
    <3>1. worker'[v] = worker[v]
      BY <1>7, <2>3
    <3>2. ~Fenced => worker[v].n # n
      BY <1>2, <1>8, <2>1, <2>3 DEF DispatcherAgrees
    <3>3. /\ worker[v].sent => backend'[worker[v].n] # "None"
          /\ ~Fenced => backend'[worker[v].n] = backend[worker[v].n]
      BY <1>5, <2>1, <3>2 DEF DispatcherAgrees
    <3>4. QED
      BY <1>1, <1>8, <2>1, <3>1, <3>3 DEF DispatcherAgrees
  <2>4. QED
    BY <2>2, <2>3
<1>16. AnswersTrue'
  <2> SUFFICES ASSUME NEW v \in Workers, worker'[v].step = "submitted"
               PROVE  /\ AnswerTrue(worker[v].n, worker[v].sent, worker[v].result)'
                      /\ worker'[v].result = "Rejected" /\ Fenced' /\ Owns(v)'
                           => backend'[worker'[v].n] = "None"
    BY DEF AnswersTrue
  <2>1. /\ v # w /\ worker'[v] = worker[v] /\ InDispatch(v) /\ worker[v].n \in 1..Attempt
        /\ AnswerTrue(worker[v].n, worker[v].sent, worker[v].result)
        /\ worker[v].result = "Rejected" /\ Fenced /\ Owns(v) => backend[worker[v].n] = "None"
        /\ worker[v].kind = "Dispatch"
    BY <1>7 DEF InDispatch, DispatchersAgree, DispatcherAgrees, AnswersTrue
  <2>2. Fenced => ~Owns(v)
    BY <1>1, <1>3, <2>1, OneOwner
  <2>3. backend[worker[v].n] # "None" => backend'[worker[v].n] = backend[worker[v].n]
    BY <1>3, <1>5, <2>1
  <2>4. QED
    BY <1>1, <1>8, <2>1, <2>2, <2>3 DEF AnswerTrue
<1>17. \A v \in Workers : InObserve(v)' => worker'[v] = worker[v] /\ InObserve(v)
  BY <1>7 DEF InObserve
<1>18. ObserversAgree'
  BY <1>1, <1>8, <1>17 DEF ObserversAgree
<1>19. EvidencesTrue'
  <2> SUFFICES ASSUME NEW v \in Workers, worker'[v].step = "observed", Owns(v)'
               PROVE  EvidenceTrue(worker[v].result)'
    BY DEF EvidencesTrue
  <2>1. /\ worker'[v] = worker[v] /\ worker[v].kind = "Observe" /\ Owns(v)
        /\ EvidenceTrue(worker[v].result)
    BY <1>8, <1>17 DEF InObserve, ObserversAgree, EvidencesTrue
  <2>2. Active(outbox["Observe"])
    BY <2>1, OwnedIsActive
  <2>3. ~Owns(w)
    BY <1>9, <2>2 DEF MessagesAgree, ObserveOpen, OutputsPending
  <2>4. ~Fenced /\ late' = late \cup {n}
    BY <1>1, <2>3
  <2>5. /\ Attempt > 0
        /\ backend[Attempt] # "None" => backend'[Attempt] = backend[Attempt]
        /\ launches[Attempt] = 0 => launches'[Attempt] = 0 \/ Attempt \in late'
    BY <1>3, <1>5, <1>6, <2>4
  <2>6. QED
    BY <1>1, <1>8, <2>1, <2>4, <2>5 DEF EvidenceTrue
<1>20. PendingNeverRan'
  <2>1. ~Fenced => attempts[n] # "Pending"
    BY <1>2 DEF DispatcherAgrees
  <2>2. QED
    BY <1>1, <1>5, <1>8, <2>1 DEF PendingNeverRan
<1>21. RefusedForGood' /\ OutcomeIsTruth'
  <2>1. n # Attempt => backend'[Attempt] = backend[Attempt]
    BY <1>3, <1>5
  <2>2. QED
    BY <1>1, <1>8, <1>11, <2>1 DEF RefusedForGood, OutcomeIsTruth
<1>22. LaunchedOnce'
  <2>1. DOMAIN launches = 1..Attempt /\ DOMAIN launches' = 1..Attempt
    BY <1>3, <1>6
  <2>2. \A i \in 1..Attempt : launches[i] <= 1
    BY <2>1 DEF LaunchedOnce
  <2>3. ASSUME NEW i \in 1..Attempt PROVE launches'[i] <= 1
    BY <1>6, <2>2
  <2>4. QED
    BY <2>1, <2>3 DEF LaunchedOnce
<1>23. AttemptRecordsTrue'
  <2>1. SupersededNeverRan'
    BY <1>1, <1>3, <1>6, <1>8, <1>9 DEF AttemptRecordsTrue, SupersededNeverRan
  <2>2. AcceptedWasLaunched'
    <3>1. backend[Attempt] # "None" => backend'[Attempt] # "None"
      BY <1>3, <1>5
    <3>2. QED
      BY <1>1, <1>8, <3>1 DEF AttemptRecordsTrue, AcceptedWasLaunched, IsTerminal
  <2>3. QED
    BY <2>1, <2>2 DEF AttemptRecordsTrue
<1>24. QED
  BY <1>10, <1>12, <1>13, <1>14, <1>15, <1>16, <1>18, <1>19, <1>20, <1>21, <1>22, <1>23

\* The backend finishes a run that nobody has recorded an outcome for.
LEMMA BackendFinishesStep ==
  ASSUME IInv, NEW i \in 1..Len(backend), BackendFinishes(i) PROVE IInv'
<1> USE DEF IInv
<1>1. PICK outcome \in {"Succeeded", "Failed"} : backend' = [backend EXCEPT ![i] = outcome]
  BY DEF BackendFinishes
<1>2. /\ backend[i] = "Running"
      /\ op' = op /\ opVersion' = opVersion /\ exec' = exec /\ attempts' = attempts
      /\ outbox' = outbox /\ worker' = worker /\ launches' = launches /\ late' = late
      /\ present' = present /\ setbacks' = setbacks /\ disturbed' = disturbed
  BY DEF BackendFinishes, rows, limits
<1>3. /\ Attempt' = Attempt /\ Attempt = Len(attempts) /\ Attempt \in Nat /\ Len(backend) = Attempt
      /\ Fenced' = Fenced /\ i \in 1..Attempt
      /\ backend \in Seq(BackendStates)
  BY <1>2 DEF Attempt, Fenced, TypeOK, RowsAgree
<1>4. /\ backend' \in Seq(BackendStates) /\ Len(backend') = Attempt
      /\ backend'[i] = outcome
      /\ \A j \in 1..Attempt : j # i => backend'[j] = backend[j]
  BY <1>1, <1>3, ExceptSeq DEF BackendStates
<1>5. \A j \in 1..Attempt : /\ backend'[j] = "None" <=> backend[j] = "None"
                            /\ backend[j] \in {"Succeeded", "Failed"} => backend'[j] = backend[j]
  BY <1>2, <1>4
<1>6. \A v \in Workers : (Owns(v)' <=> Owns(v)) /\ (InDispatch(v)' <=> InDispatch(v))
                         /\ (InObserve(v)' <=> InObserve(v))
  BY <1>2 DEF Owns, InDispatch, InObserve
<1>7. TypeOK'
  BY <1>2, <1>4 DEF TypeOK
<1>8. Attempt > 0 /\ Attempt \in 1..Attempt
  BY <1>3
<1>9. RowsAgree'
  <2>1. /\ IsTerminal(op)' = IsTerminal(op) /\ IsFinalPhase(op)' = IsFinalPhase(op)
        /\ OutputsPending' = OutputsPending
    BY <1>2 DEF IsTerminal, IsFinalPhase, OutputsPending
  <2>2. QED
    BY <1>2, <1>3, <1>4, <1>5, <1>8, <2>1 DEF RowsAgree
<1>10. MessagesAgree' /\ Undisturbed'
  BY <1>2, <1>3 DEF MessagesAgree, Undisturbed, ObserveOpen, OutputsPending
<1>11. FreshClaims' /\ UndisturbedClaims' /\ ObserversAgree'
  BY <1>2, <1>6 DEF FreshClaims, UndisturbedClaims, ObserversAgree
<1>12. DispatchersAgree'
  <2> SUFFICES ASSUME NEW v \in Workers, InDispatch(v)' PROVE DispatcherAgrees(v)'
    BY DEF DispatchersAgree
  <2>1. DispatcherAgrees(v) /\ worker[v].n \in 1..Attempt
    BY <1>6 DEF DispatchersAgree, DispatcherAgrees
  <2>2. QED
    BY <1>2, <1>3, <1>5, <1>6, <2>1 DEF DispatcherAgrees
<1>13. AnswersTrue'
  <2> SUFFICES ASSUME NEW v \in Workers, worker'[v].step = "submitted"
               PROVE  /\ AnswerTrue(worker[v].n, worker[v].sent, worker[v].result)'
                      /\ worker'[v].result = "Rejected" /\ Fenced' /\ Owns(v)'
                           => backend'[worker'[v].n] = "None"
    BY DEF AnswersTrue
  <2>1. /\ worker[v].n \in 1..Attempt
        /\ AnswerTrue(worker[v].n, worker[v].sent, worker[v].result)
        /\ worker[v].result = "Rejected" /\ Fenced /\ Owns(v) => backend[worker[v].n] = "None"
    BY <1>2 DEF InDispatch, DispatchersAgree, DispatcherAgrees, AnswersTrue
  <2>2. QED
    BY <1>2, <1>3, <1>5, <1>6, <2>1 DEF AnswerTrue
<1>14. EvidencesTrue'
  BY <1>2, <1>3, <1>5, <1>6, <1>8 DEF EvidencesTrue, EvidenceTrue
<1>15. PendingNeverRan' /\ LaunchedOnce'
  BY <1>2, <1>3, <1>5 DEF PendingNeverRan, LaunchedOnce
<1>16. RefusedForGood' /\ OutcomeIsTruth'
  BY <1>2, <1>3, <1>5, <1>6, <1>8 DEF RefusedForGood, OutcomeIsTruth
<1>17. AttemptRecordsTrue'
  BY <1>2, <1>3, <1>5, <1>8 DEF AttemptRecordsTrue, SupersededNeverRan, AcceptedWasLaunched, IsTerminal
<1>18. QED
  BY <1>7, <1>9, <1>10, <1>11, <1>12, <1>13, <1>14, <1>15, <1>16, <1>17

-----------------------------------------------------------------------------
(* Drive. *)

\* The operation before its final phase: no attempt, no dispatch in progress, and
\* advancing it keeps it well formed and unfinished.
LEMMA DriveFacts ==
  ASSUME IInv, NEW w \in Workers, Drive(w), ~DriveStale
  PROVE  LET advanced == AdvancePhase(op, NextPhase(op)) IN
         /\ DriveAdvances(w)
         /\ worker[w].kind = "Drive" /\ Active(outbox["Drive"]) /\ outbox["Drive"].n <= opVersion
         /\ ~IsFinalPhase(op) /\ ~IsTerminal(op)
         /\ Attempt = 0 /\ attempts = <<>> /\ backend = <<>> /\ launches = <<>> /\ late = {}
         /\ ~Active(outbox["Dispatch"]) /\ outbox["Dispatch"].n = 0
         /\ \A v \in Workers : ~InDispatch(v)
         /\ advanced \in Operations /\ advanced.cap = op.cap /\ advanced.state = "Running"
         /\ op.cap = "delete" => advanced.phase \notin {"Planning", "Applying"}
         /\ op.cap # "delete" => advanced.phase # "Destroying"
<1> USE DEF IInv
<1>1. DriveAdvances(w) /\ worker[w].kind = "Drive" /\ Owns(w)
  BY DEF Drive
<1>2. ~IsFinalPhase(op) /\ ~IsTerminal(op)
  BY DEF DriveStale, IsFinalPhase, NextPhase
<1>3. Active(outbox["Drive"]) /\ outbox["Drive"].n <= opVersion
  BY <1>1, OwnedIsActive DEF MessagesAgree
<1>4. Attempt = 0 /\ Len(backend) = 0 /\ Len(launches) = 0
  BY <1>2 DEF RowsAgree, TypeOK, Attempt
<1>5. attempts = <<>> /\ backend = <<>> /\ launches = <<>> /\ late = {}
  <2>1. attempts \in Seq(AttemptStates) /\ backend \in Seq(BackendStates) /\ launches \in Seq(Nat)
        /\ late \subseteq 1..Len(attempts) /\ Len(attempts) = 0
    BY <1>4 DEF TypeOK, Attempt
  <2>2. 1..0 = {}
    OBVIOUS
  <2>3. QED
    BY <1>4, <2>1, <2>2, EmptySeq
<1>6. ~Active(outbox["Dispatch"]) /\ outbox["Dispatch"].n = 0
  BY <1>4 DEF MessagesAgree, TypeOK, Messages, Kinds
<1>7. \A v \in Workers : ~InDispatch(v)
  BY <1>4 DEF DispatchersAgree, DispatcherAgrees
<1>8. LET advanced == AdvancePhase(op, NextPhase(op)) IN
      /\ advanced \in Operations /\ advanced.cap = op.cap /\ advanced.state = "Running"
      /\ advanced.phase = NextPhase(op)
  BY <1>2, PhaseAdvances DEF AdvancePhase, TypeOK, Operations, OperationStates
<1>9. QED
  BY <1>1, <1>2, <1>3, <1>4, <1>5, <1>6, <1>7, <1>8, PhaseAdvances

\* Completing the Drive that was handled.
LEMMA DriveCompleted ==
  ASSUME TypeOK
  PROVE  LET box == Complete(outbox, "Drive") IN
         /\ box \in [Kinds -> Messages]
         /\ box["Drive"].n = outbox["Drive"].n
         /\ box["Drive"].state = "Completed"
         /\ box["Dispatch"] = outbox["Dispatch"] /\ box["Observe"] = outbox["Observe"]
BY ReleaseFields DEF Complete, TypeOK, Kinds, MessageStates

\* A phase before the last: the next Drive carries the new operation version.
LEMMA DrivePhaseStep ==
  ASSUME IInv, NEW w \in Workers, Drive(w), ~DriveStale,
         ~IsFinalPhase(AdvancePhase(op, NextPhase(op)))
  PROVE  IInv'
<1> USE DEF IInv
<1> DEFINE advanced == AdvancePhase(op, NextPhase(op))
           box == Complete(outbox, "Drive")
<1>1. /\ DriveAdvances(w)
      /\ worker[w].kind = "Drive" /\ Active(outbox["Drive"]) /\ outbox["Drive"].n <= opVersion
      /\ ~IsFinalPhase(op) /\ ~IsTerminal(op)
      /\ Attempt = 0
      /\ ~Active(outbox["Dispatch"]) /\ outbox["Dispatch"].n = 0
      /\ \A v \in Workers : ~InDispatch(v)
      /\ advanced \in Operations /\ advanced.cap = op.cap /\ advanced.state = "Running"
      /\ op.cap = "delete" => advanced.phase \notin {"Planning", "Applying"}
      /\ op.cap # "delete" => advanced.phase # "Destroying"
  BY DriveFacts
<1>2. /\ op' = advanced /\ opVersion' = opVersion + 1
      /\ outbox' = Enqueue(box, "Drive", opVersion + 1, opVersion + 1)
      /\ UNCHANGED <<exec, attempts, provider, limits>> /\ BecomeIdle(w)
  BY <1>1 DEF DriveAdvances, Drive
<1>3. ~IsFinalPhase(advanced)
  OBVIOUS
<1> HIDE DEF advanced
<1>4. /\ exec' = exec /\ attempts' = attempts /\ backend' = backend /\ launches' = launches
      /\ late' = late /\ present' = present /\ setbacks' = setbacks /\ disturbed' = disturbed
      /\ Attempt' = Attempt /\ Fenced' = Fenced
  BY <1>2 DEF provider, limits, Attempt, Fenced
<1>5. /\ box \in [Kinds -> Messages]
      /\ box["Drive"].n = outbox["Drive"].n
      /\ box["Dispatch"] = outbox["Dispatch"] /\ box["Observe"] = outbox["Observe"]
  BY DriveCompleted
<1> HIDE DEF box
<1>6. opVersion \in Nat /\ outbox["Drive"].n \in Nat
  BY DEF TypeOK, Kinds, Messages
<1>7. /\ outbox' \in [Kinds -> Messages]
      /\ outbox'["Drive"].n = opVersion + 1 /\ outbox'["Drive"].expected = opVersion + 1
      /\ outbox'["Drive"].state = "Pending"
      /\ outbox'["Dispatch"] = outbox["Dispatch"] /\ outbox'["Observe"] = outbox["Observe"]
  <2>1. opVersion + 1 \in Nat /\ opVersion + 1 > box["Drive"].n
    BY <1>1, <1>5, <1>6
  <2>2. /\ outbox' \in [Kinds -> Messages]
        /\ outbox'["Drive"].n = opVersion + 1 /\ outbox'["Drive"].expected = opVersion + 1
        /\ outbox'["Drive"].state = "Pending"
        /\ \A k \in Kinds \ {"Drive"} : outbox'[k] = box[k]
    BY <1>2, <1>5, <2>1, EnqueueFields DEF Kinds
  <2>3. QED
    BY <1>5, <2>2 DEF Kinds
<1>8. /\ worker' \in [Workers -> Claims]
      /\ worker'[w].step = "idle" /\ ~worker'[w].sent
      /\ \A v \in Workers \ {w} : worker'[v] = worker[v]
  BY <1>2, IdleFields
<1>9. ASSUME NEW v \in Workers, worker'[v].step # "idle"
      PROVE  worker'[v] = worker[v] /\ (Owns(v)' => Owns(v) /\ worker[v].kind # "Drive")
  <2>1. worker'[v] = worker[v] /\ worker[v].kind \in Kinds
    BY <1>8, <1>9 DEF TypeOK, Claims
  <2>2. QED
    BY <1>7, <2>1 DEF Owns, Kinds
<1>10. TypeOK'
  BY <1>1, <1>2, <1>4, <1>6, <1>7, <1>8 DEF TypeOK
<1>11. op'.cap = op.cap /\ op'.state = "Running" /\ ~IsTerminal(op)' /\ ~IsFinalPhase(op)'
  BY <1>1, <1>2, <1>3 DEF IsTerminal, IsFinalPhase
<1>12. RowsAgree'
  BY <1>1, <1>2, <1>4, <1>11 DEF RowsAgree, OutputsPending
<1>13. MessagesAgree'
  BY <1>1, <1>2, <1>4, <1>6, <1>7 DEF MessagesAgree, ObserveOpen, OutputsPending
<1>14. FreshClaims' /\ DispatchersAgree' /\ AnswersTrue'
  BY <1>1, <1>8, <1>9 DEF FreshClaims, DispatchersAgree, AnswersTrue, InDispatch
<1>15. ObserversAgree' /\ EvidencesTrue'
  BY <1>4, <1>9, <1>11 DEF ObserversAgree, EvidencesTrue, EvidenceTrue, InObserve
<1>16. Undisturbed'
  BY <1>1, <1>2, <1>4, <1>7, <1>11 DEF Undisturbed, Active
<1>17. UndisturbedClaims'
  BY <1>4, <1>9 DEF UndisturbedClaims
<1>18. PendingNeverRan' /\ RefusedForGood' /\ LaunchedOnce' /\ AttemptRecordsTrue' /\ OutcomeIsTruth'
  BY <1>1, <1>4, <1>11 DEF PendingNeverRan, RefusedForGood, LaunchedOnce, AttemptRecordsTrue,
                     SupersededNeverRan, AcceptedWasLaunched, OutcomeIsTruth
<1>19. QED
  BY <1>10, <1>12, <1>13, <1>14, <1>15, <1>16, <1>17, <1>18

\* The last phase (prepareFirstSubmission): the first attempt, or the observation
\* of the source's outputs, takes over from the Drive.
LEMMA DriveLastStep ==
  ASSUME IInv, NEW w \in Workers, Drive(w), ~DriveStale,
         IsFinalPhase(AdvancePhase(op, NextPhase(op)))
  PROVE  IInv'
<1> USE DEF IInv
<1> DEFINE advanced == AdvancePhase(op, NextPhase(op))
           box == Complete(outbox, "Drive")
<1>1. /\ DriveAdvances(w)
      /\ worker[w].kind = "Drive" /\ Active(outbox["Drive"]) /\ outbox["Drive"].n <= opVersion
      /\ ~IsFinalPhase(op) /\ ~IsTerminal(op)
      /\ Attempt = 0 /\ attempts = <<>> /\ backend = <<>> /\ launches = <<>> /\ late = {}
      /\ ~Active(outbox["Dispatch"]) /\ outbox["Dispatch"].n = 0
      /\ \A v \in Workers : ~InDispatch(v)
      /\ advanced \in Operations /\ advanced.cap = op.cap /\ advanced.state = "Running"
      /\ op.cap = "delete" => advanced.phase \notin {"Planning", "Applying"}
      /\ op.cap # "delete" => advanced.phase # "Destroying"
  BY DriveFacts
<1>2. /\ op' = advanced /\ opVersion' = opVersion + 1 /\ UNCHANGED limits /\ BecomeIdle(w)
      /\ IsFinalPhase(advanced)
  BY <1>1 DEF DriveAdvances, Drive
<1>3. \/ /\ exec.recovery
         /\ CanEnqueue(box, "Observe", exec.nextObs)
         /\ outbox' = EnqueueObserve(box, exec)
         /\ SaveExecution(ScheduleObserve(exec))
         /\ UNCHANGED <<attempts, provider>>
      \/ /\ ~exec.recovery
         /\ outbox' = Enqueue(box, "Dispatch", 1, exec.version + 1)
         /\ SaveExecution(exec)
         /\ AppendAttempt
  BY <1>1 DEF DriveAdvances
<1> HIDE DEF advanced
<1>4. op'.cap = op.cap /\ op'.state = "Running" /\ ~IsTerminal(op)' /\ IsFinalPhase(op)'
  BY <1>1, <1>2 DEF IsTerminal, IsFinalPhase
<1>5. /\ box \in [Kinds -> Messages]
      /\ box["Drive"].n = outbox["Drive"].n /\ box["Drive"].state = "Completed"
      /\ box["Dispatch"] = outbox["Dispatch"] /\ box["Observe"] = outbox["Observe"]
  BY DriveCompleted
<1> HIDE DEF box
<1>6. /\ opVersion \in Nat /\ outbox["Drive"].n \in Nat /\ outbox["Observe"].n \in Nat
      /\ exec \in Executions /\ exec.nextObs \in Nat /\ exec.version + 1 \in Nat
      /\ setbacks' = setbacks /\ disturbed' = disturbed
  BY <1>2 DEF TypeOK, Kinds, Messages, Executions, limits
<1>7. HandlersEnd
  BY <1>2, HandlerEnds
<1>8. \A v \in Workers : ~InDispatch(v)'
  BY <1>1, <1>7 DEF HandlersEnd, InDispatch
<1>9. RefusedForGood' /\ OutcomeIsTruth'
  BY <1>4 DEF RefusedForGood, OutcomeIsTruth
<1>10. CASE exec.recovery
  <2>1. /\ exec' \in Executions /\ exec'.version = exec.version + 1 /\ exec'.nextObs = exec.nextObs + 1
        /\ exec'.state = exec.state /\ exec'.accepted = exec.accepted /\ exec'.outputs = exec.outputs
        /\ exec'.recovery = exec.recovery /\ exec'.fenced = exec.fenced
    <3>1. SaveExecution(ScheduleObserve(exec))
      BY <1>3, <1>10
    <3>2. QED
      BY <1>6, <3>1, SavedFields, ScheduledFields
  <2>2. /\ outbox' \in [Kinds -> Messages]
        /\ outbox'["Observe"].n = exec.nextObs /\ outbox'["Observe"].expected = exec.version + 1
        /\ outbox'["Observe"].state = "Pending"
        /\ outbox'["Drive"] = box["Drive"] /\ outbox'["Dispatch"] = outbox["Dispatch"]
    <3>1. exec.nextObs > box["Observe"].n
      BY <1>5, <1>6 DEF MessagesAgree
    <3>2. /\ outbox' \in [Kinds -> Messages]
          /\ outbox'["Observe"].n = exec.nextObs /\ outbox'["Observe"].expected = exec.version + 1
          /\ outbox'["Observe"].state = "Pending"
          /\ \A k \in Kinds \ {"Observe"} : outbox'[k] = box[k]
      BY <1>3, <1>5, <1>6, <1>10, <3>1, EnqueueFields DEF EnqueueObserve, Kinds
    <3>3. QED
      BY <1>5, <3>2 DEF Kinds
  <2>3. /\ attempts' = attempts /\ backend' = backend /\ launches' = launches /\ late' = late
        /\ present' = present /\ Attempt' = 0
    BY <1>1, <1>3, <1>10 DEF provider, Attempt
  <2>4. /\ OutputsPending' /\ ObserveOpen'
        /\ ~Active(outbox["Dispatch"])' /\ ~Active(outbox["Drive"])' /\ Active(outbox["Observe"])'
        /\ outbox'["Dispatch"].n = 0 /\ outbox'["Drive"].n = outbox["Drive"].n
    BY <1>1, <1>5, <1>10, <2>1, <2>2 DEF ObserveOpen, OutputsPending, RowsAgree, Active
  <2>5. TypeOK'
    BY <1>1, <1>2, <1>6, <1>7, <2>1, <2>2, <2>3 DEF TypeOK, HandlersEnd
  <2>6. RowsAgree'
    BY <1>1, <1>2, <1>4, <1>10, <2>1, <2>3, <2>4 DEF RowsAgree
  <2>7. MessagesAgree'
    BY <1>1, <1>2, <1>6, <2>1, <2>2, <2>3, <2>4 DEF MessagesAgree
  <2>8. PendingNeverRan' /\ LaunchedOnce'
    BY <1>1, <2>3 DEF PendingNeverRan, LaunchedOnce
  <2>9. AttemptRecordsTrue'
    BY <1>1, <1>10, <2>1, <2>3 DEF AttemptRecordsTrue, SupersededNeverRan, AcceptedWasLaunched, RowsAgree
  <2>10. Undisturbed'
    <3>1. ~disturbed => outbox["Dispatch"].state # "Dead"
      BY DEF Undisturbed
    <3>2. QED
      BY <1>4, <1>5, <1>6, <2>2, <2>4, <3>1 DEF Undisturbed
  <2>11. Recorded
    <3>1. Len(attempts) <= Len(attempts') /\ \A i \in 1..Attempt : backend'[i] = backend[i]
      BY <1>1, <2>3
    <3>2. QED
      BY <1>4, <1>6, <1>7, <1>8, <2>1, <2>2, <2>3, <2>4, <2>5, <3>1 DEF Recorded, Active
  <2>12. QED
    BY <1>9, <2>5, <2>6, <2>7, <2>8, <2>9, <2>10, <2>11, RecordedHandlers
<1>11. CASE ~exec.recovery
  <2>1. /\ exec' \in Executions /\ exec'.version = exec.version + 1 /\ exec'.nextObs = exec.nextObs
        /\ exec'.state = exec.state /\ exec'.accepted = exec.accepted
        /\ ~exec'.recovery /\ exec'.fenced = exec.fenced
    BY <1>3, <1>6, <1>11, SavedFields
  <2>2. exec.state = "Pending" /\ ~exec.accepted /\ ~Active(outbox["Observe"])
    BY <1>1, <1>11 DEF RowsAgree, MessagesAgree, ObserveOpen, OutputsPending
  <2>3. /\ outbox' \in [Kinds -> Messages]
        /\ outbox'["Dispatch"].n = 1 /\ outbox'["Dispatch"].expected = exec.version + 1
        /\ outbox'["Dispatch"].state = "Pending"
        /\ outbox'["Drive"] = box["Drive"] /\ outbox'["Observe"] = outbox["Observe"]
    <3>1. 1 > box["Dispatch"].n
      BY <1>1, <1>5
    <3>2. /\ outbox' \in [Kinds -> Messages]
          /\ outbox'["Dispatch"].n = 1 /\ outbox'["Dispatch"].expected = exec.version + 1
          /\ outbox'["Dispatch"].state = "Pending"
          /\ \A k \in Kinds \ {"Dispatch"} : outbox'[k] = box[k]
      BY <1>3, <1>5, <1>6, <1>11, <3>1, EnqueueFields DEF Kinds
    <3>3. QED
      BY <1>5, <3>2 DEF Kinds
  <2>4. /\ attempts' = Append(<<>>, "Pending") /\ backend' = Append(<<>>, "None")
        /\ launches' = Append(<<>>, 0) /\ late' = {} /\ present' = present
    BY <1>1, <1>3, <1>11 DEF AppendAttempt
  <2>5. /\ attempts' \in Seq(AttemptStates) /\ Len(attempts') = 1 /\ attempts'[1] = "Pending"
        /\ backend' \in Seq(BackendStates) /\ Len(backend') = 1 /\ backend'[1] = "None"
        /\ launches' \in Seq(Nat) /\ Len(launches') = 1 /\ launches'[1] = 0
        /\ Attempt' = 1
    BY <2>4 DEF AttemptStates, BackendStates, Attempt
  <2>6. TypeOK'
    BY <1>1, <1>2, <1>6, <1>7, <2>1, <2>3, <2>4, <2>5 DEF TypeOK, HandlersEnd
  <2>7. RowsAgree'
    BY <1>1, <1>2, <1>4, <2>1, <2>2, <2>5 DEF RowsAgree, OutputsPending
  <2>8. /\ ~Active(outbox["Drive"])' /\ Active(outbox["Dispatch"])' /\ ~Active(outbox["Observe"])'
        /\ ~ObserveOpen' /\ outbox'["Drive"].n = outbox["Drive"].n
        /\ outbox'["Drive"].state = "Completed"
    BY <1>5, <2>1, <2>2, <2>3 DEF Active, ObserveOpen, OutputsPending
  <2>9. MessagesAgree'
    <3>1. outbox'["Drive"].n <= opVersion' /\ outbox'["Observe"].n < exec'.nextObs
      BY <1>1, <1>2, <1>6, <2>1, <2>3, <2>8 DEF MessagesAgree
    <3>2. QED
      BY <2>1, <2>2, <2>3, <2>5, <2>8, <3>1 DEF MessagesAgree
  <2>10. PendingNeverRan' /\ LaunchedOnce' /\ AttemptRecordsTrue'
    <3>1. \A i \in 1..1 : i = 1
      OBVIOUS
    <3>2. \A i \in 1..(1 - 1) : FALSE
      OBVIOUS
    <3>3. PendingNeverRan'
      BY <2>5, <3>1 DEF PendingNeverRan
    <3>4. LaunchedOnce'
      BY <2>5, <3>1 DEF LaunchedOnce
    <3>5. AttemptRecordsTrue'
      BY <2>1, <2>2, <2>4, <2>5, <3>2 DEF AttemptRecordsTrue, SupersededNeverRan, AcceptedWasLaunched
    <3>6. QED
      BY <3>3, <3>4, <3>5
  <2>11. Undisturbed'
    <3>1. ~disturbed => outbox["Observe"].state # "Dead"
      BY <1>1 DEF Undisturbed
    <3>2. QED
      BY <1>4, <1>6, <2>1, <2>2, <2>3, <2>8, <3>1 DEF Undisturbed
  <2>12. Recorded
    <3>1. Len(attempts) <= Len(attempts') /\ \A i \in 1..Attempt : backend'[i] = backend[i]
      BY <1>1, <2>5
    <3>2. QED
      BY <1>4, <1>6, <1>7, <1>8, <2>1, <2>3, <2>4, <2>6, <2>8, <3>1 DEF Recorded, Active
  <2>13. QED
    BY <1>9, <2>6, <2>7, <2>9, <2>10, <2>11, <2>12, RecordedHandlers
<1>12. QED
  BY <1>10, <1>11

\* A stale Drive is completed without any effect; an undisturbed one never is.
LEMMA DriveStep ==
  ASSUME IInv, NEW w \in Workers, Drive(w) PROVE IInv'
<1>1. CASE DriveStale
  <2>1. disturbed /\ Active(outbox["Drive"])
    BY <1>1, UndisturbedNeverStale, OwnedIsActive DEF Drive, IInv, TypeOK
  <2>2. /\ outbox' = Complete(outbox, "Drive") /\ UNCHANGED <<rows, provider>> /\ BecomeIdle(w)
        /\ setbacks' \in 0..MaxSetbacks /\ disturbed' = disturbed
    BY <1>1 DEF Drive, limits, IInv, TypeOK
  <2>3. QED
    BY <2>1, <2>2, ReleaseStep DEF Complete, Kinds
<1>2. CASE ~DriveStale
  BY <1>2, DrivePhaseStep, DriveLastStep
<1>3. QED
  BY <1>1, <1>2

-----------------------------------------------------------------------------
(* The theorems. *)

\* Every transaction, provider call and fault keeps the inductive invariant.
LEMMA NextIInv == IInv /\ [Next]_vars => IInv'
<1> SUFFICES ASSUME IInv, [Next]_vars PROVE IInv'
  OBVIOUS
<1>1. ASSUME NEW w \in Workers, NEW kind \in Kinds, Claim(w, kind) PROVE IInv'
  BY <1>1, ClaimStep
<1>2. ASSUME NEW w \in Workers, LoseClaim(w) PROVE IInv'
  <2>1. setbacks' \in 0..MaxSetbacks /\ disturbed' = disturbed
    BY <1>2 DEF LoseClaim, limits, IInv, TypeOK
  <2>2. QED
    BY <1>2, <2>1, DroppedStep DEF LoseClaim
<1>3. ASSUME NEW w \in Workers, Drive(w) PROVE IInv'
  BY <1>3, DriveStep
<1>4. ASSUME NEW w \in Workers, Prepare(w) PROVE IInv'
  BY <1>4, PrepareStep
<1>5. ASSUME NEW w \in Workers, Launch(w) PROVE IInv'
  BY <1>5, LaunchStep
<1>6. ASSUME NEW w \in Workers, SubmitReturns(w) PROVE IInv'
  BY <1>6, SubmitReturnsStep
<1>7. ASSUME NEW w \in Workers, RetryNotAttempted(w) PROVE IInv'
  BY <1>7, RetryNotAttemptedStep
<1>8. ASSUME NEW w \in Workers, RecordDispatch(w) PROVE IInv'
  BY <1>8, RecordDispatchStep
<1>9. ASSUME NEW w \in Workers, RecoverExpiredDispatch(w) PROVE IInv'
  BY <1>9, RecoverExpiredDispatchStep
<1>10. ASSUME NEW w \in Workers, LoadObservation(w) PROVE IInv'
  BY <1>10, LoadObservationStep
<1>11. ASSUME NEW w \in Workers, ObserveReturns(w) PROVE IInv'
  BY <1>11, ObserveReturnsStep
<1>12. ASSUME NEW w \in Workers, RecordPendingOutputs(w) PROVE IInv'
  BY <1>12, RecordPendingOutputsStep
<1>13. ASSUME NEW w \in Workers, RecordObservation(w) PROVE IInv'
  BY <1>13, RecordObservationStep
<1>14. ASSUME NEW w \in Workers, QuarantineObservation(w) PROVE IInv'
  BY <1>14, QuarantineStep
<1>15. ASSUME NEW w \in Workers, SettleStale(w) PROVE IInv'
  BY <1>15, SettleStaleStep
<1>16. ASSUME NEW w \in Workers, RetryOutbox(w) PROVE IInv'
  BY <1>16, RetryOutboxStep
<1>17. ASSUME NEW w \in Workers, PrepareUnacknowledged(w) PROVE IInv'
  BY <1>17, PrepareUnacknowledgedStep
<1>18. ASSUME NEW w \in Workers, MarkDispatchUnknown(w) PROVE IInv'
  BY <1>18, MarkDispatchUnknownStep
<1>19. ASSUME NEW w \in Workers, Crash(w) PROVE IInv'
  <2>1. setbacks' \in 0..MaxSetbacks /\ disturbed' = disturbed
    BY <1>19, SetbackCounts DEF Crash, IInv
  <2>2. QED
    BY <1>19, <2>1, DroppedStep DEF Crash
<1>20. ASSUME NEW kind \in Kinds, HeldLeaseExpires(kind) PROVE IInv'
  <2>1. setbacks' \in 0..MaxSetbacks /\ disturbed' = disturbed
    BY <1>20, SetbackCounts DEF HeldLeaseExpires, IInv
  <2>2. QED
    BY <1>20, <2>1, ExpiryStep DEF HeldLeaseExpires
<1>21. ASSUME NEW kind \in Kinds, AbandonedLeaseExpires(kind) PROVE IInv'
  <2>1. setbacks' \in 0..MaxSetbacks /\ disturbed' = disturbed
    BY <1>21 DEF AbandonedLeaseExpires, limits, IInv, TypeOK
  <2>2. QED
    BY <1>21, <2>1, ExpiryStep DEF AbandonedLeaseExpires
<1>22. CASE TriggerObserve
  BY <1>22, TriggerObserveStep
<1>23. ASSUME NEW i \in 1..Len(backend), BackendFinishes(i) PROVE IInv'
  BY <1>23, BackendFinishesStep
<1>24. CASE UNCHANGED vars
  <2>1. Quiet
    BY <1>24 DEF vars, Quiet, rows, provider, IInv, TypeOK, Active, Owns
  <2>2. Undisturbed' /\ UndisturbedClaims'
    BY <1>24 DEF vars, IInv, Undisturbed, UndisturbedClaims, ObserveOpen, OutputsPending, Owns
  <2>3. QED
    BY <2>1, <2>2, QuietStep
<1>25. ASSUME NEW w \in Workers, WorkerStep(w) PROVE IInv'
  BY <1>1, <1>2, <1>3, <1>4, <1>5, <1>6, <1>7, <1>8, <1>9, <1>10, <1>11, <1>12, <1>13, <1>14,
     <1>15, <1>25 DEF WorkerStep
<1>26. CASE Fault
  BY <1>16, <1>17, <1>18, <1>19, <1>20, <1>26 DEF Fault
<1>27. QED
  BY <1>21, <1>22, <1>23, <1>24, <1>25, <1>26 DEF Next

\* The inductive invariant holds throughout.
LEMMA AlwaysIInv == Spec => []IInv
BY InitIInv, NextIInv, PTL DEF Spec

\* Every row, message and handler keeps its type (internal/worker, the outbox and
\* submission tables), for any number of workers and setbacks.
THEOREM TypeCorrect == Spec => []TypeOK
<1>1. IInv => TypeOK
  BY DEF IInv
<1>2. QED
  BY <1>1, AlwaysIInv, PTL

\* A submission attempt reaches the provider at most once: of a provisioner that
\* does not fence because an expired dispatch is never redelivered to it
\* (recoverExpiredDispatch), of one that does because only the lease holder may
\* apply an attempt that its journal does not know (SubmitFenced).
THEOREM NeverLaunchedTwice == Spec => []LaunchedOnce
<1>1. IInv => LaunchedOnce
  BY DEF IInv
<1>2. QED
  BY <1>1, AlwaysIInv, PTL

\* Superseded attempts never ran, but for a worker paused past its lease, and
\* accepted ones did (InterpretObservation, AcceptanceConfirmed).
THEOREM RecordsAreTrue == Spec => []AttemptRecordsTrue
<1>1. IInv => AttemptRecordsTrue
  BY DEF IInv
<1>2. QED
  BY <1>1, AlwaysIInv, PTL

\* The recorded outcome of an operation is the provider's (recordDispatch,
\* RecordObservation), and it can no longer be overtaken by a late call.
THEOREM OutcomesAreTrue == Spec => []OutcomeIsTruth
<1>1. IInv => OutcomeIsTruth
  BY DEF IInv
<1>2. QED
  BY <1>1, AlwaysIInv, PTL

\* An unfinished operation that nobody interferes with has exactly one active
\* message, and it fits the rows (runOnce), or it is quarantined.
THEOREM WorkIsNeverLost == Spec => []OneCurrentMessage
<1>1. IInv => OneCurrentMessage
  <2> SUFFICES ASSUME IInv, ~disturbed PROVE OneCurrentMessage
    BY DEF OneCurrentMessage
  <2> USE DEF IInv
  <2> DEFINE active == {kind \in Kinds : Active(outbox[kind])}
  <2>1. /\ outbox["Drive"].state # "Dead" /\ outbox["Dispatch"].state # "Dead"
        /\ Quarantined <=> outbox["Observe"].state = "Dead"
    BY DEF Undisturbed, Quarantined, Kinds
  <2>2. CASE IsTerminal(op)
    <3>1. ~Active(outbox["Drive"]) /\ ~Active(outbox["Dispatch"]) /\ ~Active(outbox["Observe"])
      BY <2>2 DEF Undisturbed, RowsAgree, MessagesAgree, ObserveOpen, OutputsPending
    <3>2. QED
      BY <2>2, <3>1 DEF OneCurrentMessage, Kinds
  <2>3. CASE ~IsTerminal(op) /\ Quarantined
    <3>1. ~Active(outbox["Drive"]) /\ ~Active(outbox["Dispatch"]) /\ ~Active(outbox["Observe"])
      BY <2>1, <2>3 DEF Undisturbed, MessagesAgree, ObserveOpen, OutputsPending, Active
    <3>2. QED
      BY <2>3, <3>1 DEF OneCurrentMessage, Kinds
  <2>4. CASE ~IsTerminal(op) /\ ~Quarantined /\ ~IsFinalPhase(op)
    <3>1. active = {"Drive"} /\ Current("Drive")
      BY <2>4 DEF Undisturbed, Current, Kinds
    <3>2. QED
      BY <2>4, <3>1 DEF OneCurrentMessage, Kinds
  <2>5. CASE ~IsTerminal(op) /\ ~Quarantined /\ IsFinalPhase(op) /\ ObserveOpen
    <3>1. Active(outbox["Observe"]) /\ ~Active(outbox["Drive"])
      BY <2>1, <2>5 DEF Undisturbed
    <3>2. ~Active(outbox["Dispatch"])
      BY <2>5 DEF MessagesAgree, ObserveOpen, OutputsPending
    <3>3. active = {"Observe"}
      BY <3>1, <3>2 DEF Kinds
    <3>4. Current("Observe")
      BY <2>5, <3>1 DEF MessagesAgree, ObserveOpen, Current
    <3>5. QED
      BY <2>5, <3>3, <3>4 DEF OneCurrentMessage, Kinds
  <2>6. CASE ~IsTerminal(op) /\ ~Quarantined /\ IsFinalPhase(op) /\ ~ObserveOpen
    <3>1. /\ Active(outbox["Dispatch"]) /\ ~Active(outbox["Drive"])
          /\ exec.state = "Dispatching" => outbox["Dispatch"].state = "Leased"
      BY <2>6 DEF Undisturbed
    <3>2. ~Active(outbox["Observe"])
      BY <2>6 DEF MessagesAgree
    <3>3. active = {"Dispatch"}
      BY <3>1, <3>2 DEF Kinds
    <3>4. Current("Dispatch")
      BY <2>6, <3>1 DEF MessagesAgree, RowsAgree, Current
    <3>5. QED
      BY <2>6, <3>3, <3>4 DEF OneCurrentMessage, Kinds
  <2>7. QED
    BY <2>2, <2>3, <2>4, <2>5, <2>6
<1>2. QED
  BY <1>1, AlwaysIInv, PTL

-----------------------------------------------------------------------------
(***************************************************************************)
(* The resource that the operations follow one another on, under the same  *)
(* lifecycle engine: proofs about ResourceLife, for any bound on the       *)
(* generations.                                                            *)
(***************************************************************************)

\* No finished operation leaves Reconciling=True behind, or a passive
\* observation that makes the resource Ready would revive it.
Settled == IsTerminal(latest) => status.reconciling = "False"

\* Reconciled=True survives passive observations that hide readiness, so it
\* has to be justified in every state but Deleted.
ReconciledJustified ==
  status.reconciled = "True" /\ status.state # "Deleted" => converged = gen

\* A delete remembers, in the Ready condition, a resource that was Ready.
DeleteRemembers ==
  ~IsTerminal(latest) /\ latest.cap = "delete" =>
    /\ before \in {"Ready", "Failed"}
    /\ before = "Ready" => status.ready = "True"

LifeInv ==
  /\ LifeTypeOK
  /\ ActiveRepresented
  /\ Settled
  /\ ReconciledJustified
  /\ DeleteRemembers

-----------------------------------------------------------------------------
(* What the engine's operators return. *)

\* A request (lifecycle.Engine.Request) writes a well-formed status that
\* represents the requested operation, whatever it was before.
LEMMA RequestedFields ==
  ASSUME NEW st \in Statuses, NEW cap \in Capabilities, NEW target \in Nat
  PROVE  LET r == RequestedStatus(st, cap, target) IN
         /\ r \in Statuses
         /\ r.observed = target
         /\ r.state = RequestedState(st, cap)
         /\ r.reconciled = "False"
         /\ r.reconciling = "True"
         /\ cap = "delete" /\ st.state = "Ready" => r.ready = "True"
<1>1. EnsurePreviouslyReady(st) \in Statuses
  BY DEF EnsurePreviouslyReady, Statuses, ConditionStatuses
<1>2. cap = "delete" /\ st.state = "Ready" => EnsurePreviouslyReady(st).ready = "True"
  BY DEF EnsurePreviouslyReady, Statuses
<1>3. RequestedState(st, cap) \in ResourceStates
  BY DEF RequestedState, Statuses, ResourceStates
<1>4. QED
  BY <1>1, <1>2, <1>3 DEF RequestedStatus, Statuses, ConditionStatuses

\* Observed facts (applyObservation) that preserve the state leave Reconciling
\* and the observed generation alone and never turn Reconciled to True.
LEMMA ObservedFields ==
  ASSUME NEW st \in Statuses, NEW f \in Facts, NEW preserve \in BOOLEAN
  PROVE  LET r == ObservedStatus(st, f, preserve) IN
         /\ r \in Statuses
         /\ r.observed = st.observed
         /\ r.reconciling = st.reconciling
         /\ r.reconciled = "True" => st.reconciled = "True"
         /\ preserve \/ st.state \in {"Deleted", "Failed"} => r.state = st.state
         /\ r.state \in {st.state, "Ready", "Unknown"}
<1> DEFINE sState == IF preserve \/ st.state \in {"Deleted", "Failed"} THEN st.state
                     ELSE IF f.presence = "Present" /\ f.readiness = "Ready" THEN "Ready"
                     ELSE IF f.presence = "NotFound" \/ f.readiness = "NotReady" THEN "Unknown"
                     ELSE st.state
           sReady == IF f.presence # "Unknown" \/ f.readiness # "Unknown" \/ st.ready = "Absent"
                     THEN ReadinessCondition(f) ELSE st.ready
           sReconciled == IF f.drift = "Drifted" /\ st.reconciled \in {"True", "Absent"}
                          THEN "False" ELSE st.reconciled
           r == [st EXCEPT !.state = sState, !.ready = sReady, !.reconciled = sReconciled]
<1>1. ObservedStatus(st, f, preserve) = r
  BY DEF ObservedStatus
<1>2. /\ sState \in ResourceStates
      /\ preserve \/ st.state \in {"Deleted", "Failed"} => sState = st.state
      /\ sState \in {st.state, "Ready", "Unknown"}
  BY DEF Statuses, ResourceStates
<1>3. sReady \in ConditionStatuses
  BY DEF ReadinessCondition, Statuses, ConditionStatuses
<1>4. sReconciled \in ConditionStatuses /\ (sReconciled = "True" => st.reconciled = "True")
  BY DEF Statuses, ConditionStatuses
<1> HIDE DEF sState, sReady, sReconciled
<1>5. QED
  BY <1>1, <1>2, <1>3, <1>4 DEF Statuses

\* A completion (Engine.Complete) ends the reconciliation in Ready or Deleted
\* and claims Reconciled only for the resource's current generation.
LEMMA CompletedFields ==
  ASSUME NEW g \in Nat, NEW st \in Statuses, NEW o \in Operations
  PROVE  LET r == CompletedStatus(g, st, o) IN
         /\ r \in Statuses
         /\ r.observed = st.observed
         /\ r.reconciling = "False"
         /\ r.state = IF o.cap = "delete" THEN "Deleted" ELSE "Ready"
         /\ r.reconciled = "True" => ~(g > o.target)
BY DEF CompletedStatus, Statuses, Operations, ConditionStatuses, ResourceStates

\* A failure (Engine.Fail) ends the reconciliation, never as Reconciled, in
\* Ready after an update and otherwise in Ready or Failed.
LEMMA FailedFields ==
  ASSUME NEW g \in Nat, NEW st \in Statuses, NEW o \in Operations
  PROVE  LET r == FailedStatus(g, st, o) IN
         /\ r \in Statuses
         /\ r.observed = st.observed
         /\ r.reconciling = "False"
         /\ r.reconciled = "False"
         /\ r.state \in {"Ready", "Failed"}
         /\ o.cap = "update" => r.state = "Ready"
         /\ o.cap = "delete" /\ st.ready = "True" => r.state = "Ready"
BY DEF FailedStatus, Statuses, Operations, Capabilities, ConditionStatuses, ResourceStates

\* Facts that accompany a terminal outcome keep its state: what the two lemmas
\* above say of the outcome also holds after the worker applied the evidence.
LEMMA FinishFields ==
  ASSUME NEW st \in Statuses, NEW r \in FinishStatuses(st)
  PROVE  /\ r \in Statuses
         /\ r.observed = st.observed
         /\ r.reconciling = st.reconciling
         /\ r.state = st.state
         /\ r.reconciled = "True" => st.reconciled = "True"
<1>1. CASE r = st
  BY <1>1
<1>2. ASSUME NEW f \in Facts, r = ObservedStatus(st, f, TRUE)
      PROVE  /\ r \in Statuses
             /\ r.observed = st.observed
             /\ r.reconciling = st.reconciling
             /\ r.state = st.state
             /\ r.reconciled = "True" => st.reconciled = "True"
  BY <1>2, ObservedFields
<1>3. QED
  BY <1>1, <1>2 DEF FinishStatuses

-----------------------------------------------------------------------------
(* The inductive invariant. *)

\* Creation (persistCreateRequest) establishes the inductive invariant.
LEMMA LifeBegins == ASSUME LifeInit PROVE LifeInv
<1>1. UnknownStatus \in Statuses /\ 1 \in Nat /\ "create" \in Capabilities
  BY DEF UnknownStatus, Statuses, ResourceStates, ConditionStatuses, Capabilities
<1>2. /\ status \in Statuses
      /\ status.observed = 1
      /\ status.state = "Pending"
      /\ status.reconciled = "False"
  BY <1>1, RequestedFields DEF LifeInit, RequestedState
<1>3. /\ latest \in Operations
      /\ latest.cap = "create" /\ latest.state = "Pending" /\ latest.target = 1
  BY DEF LifeInit, RequestedOperation, Operations, Capabilities, OperationStates, Phases
<1>4. LifeTypeOK
  BY <1>2, <1>3, MaxGenerationAssumption DEF LifeInit, LifeTypeOK, ResourceStates
<1>5. ActiveRepresented
  BY <1>2, <1>3 DEF LifeInit, ActiveRepresented, IsTerminal, ActiveCapability
<1>6. Settled /\ ReconciledJustified /\ DeleteRemembers
  BY <1>2, <1>3 DEF Settled, ReconciledJustified, DeleteRemembers, IsTerminal
<1>7. QED
  BY <1>4, <1>5, <1>6 DEF LifeInv

\* Every admitted request re-establishes the invariant: it replaces a finished
\* operation by a new one that the status represents.
LEMMA AdmitKeeps ==
  ASSUME LifeInv, NEW cap \in Capabilities, NEW target \in 1..MaxGeneration,
         Admit(cap, target, target),
         RequestPrecondition(target, status, cap, FALSE)
           \/ RequestPrecondition(target, status, cap, TRUE)
  PROVE  LifeInv'
<1>1. target \in Nat /\ status \in Statuses
  BY MaxGenerationAssumption DEF LifeInv, LifeTypeOK
<1>2. /\ status' \in Statuses
      /\ status'.observed = target
      /\ status'.state = RequestedState(status, cap)
      /\ status'.reconciled = "False"
      /\ status'.reconciling = "True"
      /\ cap = "delete" /\ status.state = "Ready" => status'.ready = "True"
  BY <1>1, RequestedFields DEF Admit
<1>3. /\ latest' \in Operations
      /\ latest'.cap = cap /\ latest'.state = "Pending" /\ latest'.target = target
  BY <1>1 DEF Admit, RequestedOperation, Operations, OperationStates, Phases
<1>4. /\ cap = "update" => status.state = "Ready"
      /\ cap = "delete" => status.state \in {"Ready", "Failed"}
  BY DEF RequestPrecondition
<1>5. LifeTypeOK'
  BY <1>1, <1>2, <1>3 DEF Admit, LifeInv, LifeTypeOK, Statuses
<1>6. ActiveRepresented'
  BY <1>2, <1>3, <1>4
  DEF Admit, ActiveRepresented, IsTerminal, ActiveCapability, RequestedState, Capabilities
<1>7. Settled' /\ ReconciledJustified' /\ DeleteRemembers'
  BY <1>2, <1>3, <1>4 DEF Admit, Settled, ReconciledJustified, DeleteRemembers, IsTerminal
<1>8. QED
  BY <1>5, <1>6, <1>7 DEF LifeInv

\* A terminal transition keeps the invariant when the status it stores is no
\* longer active, keeps the observed generation and claims Reconciled only for
\* a generation that converged.
LEMMA FinishKeeps ==
  ASSUME LifeInv, ~IsTerminal(latest),
         NEW outcome \in {"Succeeded", "Failed"},
         latest' = [latest EXCEPT !.state = outcome],
         UNCHANGED <<gen, before>>,
         status' \in Statuses, converged' \in Nat,
         status'.observed = status.observed,
         status'.reconciling = "False",
         status'.state \notin {"Pending", "Deleting"},
         status'.reconciled = "True" /\ status'.state # "Deleted" => converged' = gen
  PROVE  LifeInv'
<1>1. /\ latest' \in Operations
      /\ latest'.target = latest.target
      /\ latest'.state = outcome
  BY DEF LifeInv, LifeTypeOK, Operations, OperationStates
<1>2. LifeTypeOK'
  BY <1>1 DEF LifeInv, LifeTypeOK
<1>3. ActiveRepresented'
  BY <1>1 DEF LifeInv, ActiveRepresented, IsTerminal, StatusActive, ActiveCapability
<1>4. Settled' /\ ReconciledJustified' /\ DeleteRemembers'
  BY <1>1 DEF Settled, ReconciledJustified, DeleteRemembers, IsTerminal
<1>5. QED
  BY <1>2, <1>3, <1>4 DEF LifeInv

\* Every committed transaction on the resource preserves the invariant.
LEMMA LifeGoesOn == ASSUME LifeInv, [LifeNext]_lifeVars PROVE LifeInv'
<1>0. /\ gen \in Nat /\ gen \in 1..MaxGeneration /\ converged \in Nat
      /\ status \in Statuses
      /\ latest \in Operations /\ latest.cap \in Capabilities /\ latest.target \in Nat
      /\ latest.state \in OperationStates
  BY MaxGenerationAssumption DEF LifeInv, LifeTypeOK, Operations
<1>1. CASE AdmitUpdate
  <2>1. gen + 1 \in 1..MaxGeneration /\ "update" \in Capabilities
    BY <1>0, <1>1, MaxGenerationAssumption DEF AdmitUpdate, Capabilities
  <2>2. QED
    BY <1>1, <2>1, AdmitKeeps DEF AdmitUpdate, CanRequest
<1>2. CASE AdmitDelete
  <2>1. "delete" \in Capabilities
    BY DEF Capabilities
  <2>2. QED
    BY <1>0, <1>2, <2>1, AdmitKeeps DEF AdmitDelete, CanRequest
<1>3. CASE AdmitRetry
  <2>1. Admit(latest.cap, gen, gen) /\ RequestPrecondition(gen, status, latest.cap, TRUE)
    BY <1>3 DEF AdmitRetry, CanRequest
  <2>2. QED
    BY <1>0, <2>1, AdmitKeeps
<1>4. CASE Advance
  <2>1. /\ ~IsTerminal(latest) /\ NextPhase(latest) \in Phases
    BY <1>0, <1>4 DEF Advance, NextPhase, Phases, Operations
  <2>2. /\ latest' \in Operations
        /\ latest'.cap = latest.cap /\ latest'.target = latest.target /\ latest'.state = "Running"
    BY <1>0, <1>4, <2>1 DEF Advance, AdvancePhase, Operations, OperationStates
  <2>3. /\ status' \in Statuses
        /\ status'.state = status.state /\ status'.observed = status.observed
        /\ status'.ready = status.ready
        /\ status'.reconciling = "True" /\ status'.reconciled = "False"
    BY <1>0, <1>4 DEF Advance, AdvancedStatus, Statuses, ConditionStatuses
  <2>4. LifeTypeOK'
    BY <1>4, <2>2, <2>3 DEF Advance, LifeInv, LifeTypeOK
  <2>5. ActiveRepresented'
    BY <1>0, <1>4, <2>1, <2>2, <2>3
    DEF Advance, LifeInv, ActiveRepresented, IsTerminal, ActiveCapability, Capabilities
  <2>6. Settled' /\ ReconciledJustified' /\ DeleteRemembers'
    BY <1>4, <2>1, <2>2, <2>3
    DEF Advance, LifeInv, Settled, ReconciledJustified, DeleteRemembers, IsTerminal
  <2>7. QED
    BY <2>4, <2>5, <2>6 DEF LifeInv
<1>5. CASE CompleteOperation
  <2> DEFINE done == CompletedStatus(gen, status, latest)
  <2>1. /\ ~IsTerminal(latest) /\ latest.target = gen
    BY <1>5 DEF CompleteOperation, CanComplete, IsTerminal, LifeInv, ActiveRepresented
  <2>2. /\ done \in Statuses /\ done.observed = status.observed
        /\ done.reconciling = "False"
        /\ done.state = IF latest.cap = "delete" THEN "Deleted" ELSE "Ready"
    BY <1>0, CompletedFields
  <2>3. /\ status' \in Statuses /\ status'.observed = status.observed
        /\ status'.reconciling = "False" /\ status'.state = done.state
    <3>1. status' \in FinishStatuses(done)
      BY <1>5 DEF CompleteOperation
    <3> HIDE DEF done
    <3>2. QED
      BY <2>2, <3>1, FinishFields
  <2>4. /\ converged' \in Nat
        /\ status'.state # "Deleted" => converged' = gen
    BY <1>0, <1>5, <2>1, <2>2, <2>3 DEF CompleteOperation
  <2>5. QED
    BY <1>5, <2>1, <2>2, <2>3, <2>4, FinishKeeps DEF CompleteOperation
<1>6. CASE FailOperation
  <2> DEFINE done == FailedStatus(gen, status, latest)
  <2>1. done \in Statuses /\ done.observed = status.observed /\ done.reconciling = "False"
        /\ done.reconciled = "False" /\ done.state \in {"Ready", "Failed"}
    BY <1>0, FailedFields
  <2>2. /\ status' \in Statuses /\ status'.observed = status.observed
        /\ status'.reconciling = "False" /\ status'.state \in {"Ready", "Failed"}
        /\ status'.reconciled # "True"
    <3>1. status' \in FinishStatuses(done)
      BY <1>6 DEF FailOperation
    <3> HIDE DEF done
    <3>2. QED
      BY <2>1, <3>1, FinishFields
  <2>3. QED
    BY <1>0, <1>6, <2>2, FinishKeeps DEF FailOperation, CanFail
<1>7. CASE FailAtGate
  <2>1. /\ status' \in Statuses /\ status'.observed = status.observed
        /\ status'.reconciling = "False" /\ status'.state \in {"Ready", "Failed"}
        /\ status'.reconciled # "True"
    BY <1>0, <1>7, FailedFields DEF FailAtGate
  <2>2. QED
    BY <1>0, <1>7, <2>1, FinishKeeps DEF FailAtGate, CanFail
<1>8. CASE PassiveObserve
  <2>1. PICK f \in Facts : status' = ObservedStatus(status, f, FALSE)
    BY <1>8 DEF PassiveObserve
  <2>2. /\ status' \in Statuses /\ status'.observed = status.observed
        /\ status'.reconciling = status.reconciling
        /\ status'.reconciled = "True" => status.reconciled = "True"
        /\ status.state = "Deleted" => status'.state = "Deleted"
        /\ status'.state \in {status.state, "Ready", "Unknown"}
    BY <1>0, <2>1, ObservedFields
  <2>3. status.reconciling = "False" /\ status.state \notin {"Pending", "Deleting"}
    BY <1>8 DEF PassiveObserve, LifeInv, Settled, StatusActive, ActiveCapability
  <2>4. LifeTypeOK'
    BY <1>8, <2>2 DEF PassiveObserve, LifeInv, LifeTypeOK
  <2>5. ActiveRepresented'
    BY <1>8, <2>2, <2>3
    DEF PassiveObserve, LifeInv, ActiveRepresented, IsTerminal, StatusActive, ActiveCapability
  <2>6. Settled' /\ ReconciledJustified' /\ DeleteRemembers'
    BY <1>8, <2>2, <2>3
    DEF PassiveObserve, LifeInv, Settled, ReconciledJustified, DeleteRemembers, IsTerminal
  <2>7. QED
    BY <2>4, <2>5, <2>6 DEF LifeInv
<1>9. CASE UNCHANGED lifeVars
  BY <1>9 DEF lifeVars, LifeInv, LifeTypeOK, ActiveRepresented, Settled, ReconciledJustified,
              DeleteRemembers
<1>10. QED
  BY <1>1, <1>2, <1>3, <1>4, <1>5, <1>6, <1>7, <1>8, <1>9 DEF LifeNext

\* The strengthening holds in every reachable state.
LEMMA LifeInvariance == LifeSpec => []LifeInv
<1>1. LifeInit => LifeInv
  BY LifeBegins
<1>2. LifeInv /\ [LifeNext]_lifeVars => LifeInv'
  BY LifeGoesOn
<1>3. QED
  BY <1>1, <1>2, PTL DEF LifeSpec

-----------------------------------------------------------------------------
(* The properties of ResourceLife.cfg, for every bound on the generations. *)

\* The rows of a resource stay well-formed under every engine transition.
THEOREM LifeTypeCorrect == LifeSpec => []LifeTypeOK
<1>1. LifeInv => LifeTypeOK
  BY DEF LifeInv
<1>2. QED
  BY <1>1, LifeInvariance, PTL

\* The status represents the unfinished operation, and only an unfinished one,
\* so the engine never refuses the evidence of a live operation
\* (validateOperationContext).
THEOREM ActiveIsRepresented == LifeSpec => []ActiveRepresented
<1>1. LifeInv => ActiveRepresented
  BY DEF LifeInv
<1>2. QED
  BY <1>1, LifeInvariance, PTL

\* What the dependency gate takes for convergence (classifyDependency) is the
\* convergence of the current generation.
THEOREM ReconciledIsConverged == LifeSpec => []ReconciledMeansConverged
<1>1. LifeInv => ReconciledMeansConverged
  BY DEF LifeInv, ReconciledJustified, ReconciledMeansConverged
<1>2. QED
  BY <1>1, LifeInvariance, PTL

\* No request, evidence or passive fact revives a tombstone.
THEOREM DeletedStaysDeleted == LifeSpec => DeletedIsFinal
<1>1. LifeInv /\ [LifeNext]_lifeVars
        => [status.state = "Deleted" => status'.state = "Deleted"]_(lifeVars)
  <2> SUFFICES ASSUME LifeInv, LifeNext, status.state = "Deleted"
               PROVE  status'.state = "Deleted"
    BY DEF lifeVars
  <2>0. /\ status \in Statuses /\ latest \in Operations
        /\ latest.cap \in Capabilities /\ IsTerminal(latest)
    BY DEF LifeInv, LifeTypeOK, Operations, ActiveRepresented, ActiveCapability, Capabilities
  <2>1. CASE AdmitUpdate \/ AdmitDelete
    BY <2>1 DEF AdmitUpdate, AdmitDelete, CanRequest, RequestPrecondition
  <2>2. CASE AdmitRetry
    BY <2>0, <2>2 DEF AdmitRetry, RetryStateCompatible, Capabilities
  <2>3. CASE Advance \/ CompleteOperation \/ FailOperation \/ FailAtGate
    BY <2>0, <2>3 DEF Advance, CompleteOperation, FailOperation, FailAtGate, CanComplete, CanFail, IsTerminal
  <2>4. CASE PassiveObserve
    <3>1. PICK f \in Facts : status' = ObservedStatus(status, f, FALSE)
      BY <2>4 DEF PassiveObserve
    <3>2. QED
      BY <2>0, <3>1, ObservedFields
  <2>5. QED
    BY <2>1, <2>2, <2>3, <2>4 DEF LifeNext
<1>2. QED
  BY <1>1, LifeInvariance, PTL DEF LifeSpec, DeletedIsFinal

\* A resource that was usable is never reported Failed by an update, nor by the
\* failed delete of a resource that was Ready (Engine.Fail).
THEOREM UsableNeverFails == LifeSpec => FailedOnlyIfNeverUsable
<1>1. LifeInv /\ [LifeNext]_lifeVars
        => [status'.state = "Failed" /\ status.state # "Failed"
              => latest.cap = "create" \/ before = "Failed"]_(lifeVars)
  <2> SUFFICES ASSUME LifeInv, LifeNext, status'.state = "Failed", status.state # "Failed"
               PROVE  latest.cap = "create" \/ before = "Failed"
    BY DEF lifeVars
  <2>0. /\ gen \in Nat /\ status \in Statuses /\ latest \in Operations
        /\ latest.cap \in Capabilities /\ latest.target \in Nat
    BY MaxGenerationAssumption DEF LifeInv, LifeTypeOK, Operations
  <2>1. ASSUME NEW cap \in Capabilities, NEW t \in Nat, Admit(cap, t, t) PROVE FALSE
    <3>1. status'.state = RequestedState(status, cap)
      BY <2>0, <2>1, RequestedFields DEF Admit
    <3>2. QED
      BY <3>1 DEF RequestedState
  <2>2. CASE AdmitUpdate \/ AdmitDelete \/ AdmitRetry
    <3>1. gen + 1 \in Nat /\ "update" \in Capabilities /\ "delete" \in Capabilities
      BY <2>0 DEF Capabilities
    <3>2. \/ Admit("update", gen + 1, gen + 1)
          \/ Admit("delete", gen, gen)
          \/ Admit(latest.cap, gen, gen)
      BY <2>2 DEF AdmitUpdate, AdmitDelete, AdmitRetry
    <3>3. QED
      BY <2>0, <2>1, <3>1, <3>2
  <2>3. CASE Advance
    BY <2>0, <2>3 DEF Advance, AdvancedStatus, Statuses
  <2>4. CASE CompleteOperation
    <3>1. CompletedStatus(gen, status, latest) \in Statuses
          /\ CompletedStatus(gen, status, latest).state # "Failed"
      BY <2>0, CompletedFields
    <3>2. status' \in FinishStatuses(CompletedStatus(gen, status, latest))
      BY <2>4 DEF CompleteOperation
    <3>3. QED
      BY <3>1, <3>2, FinishFields
  <2>5. CASE FailOperation \/ FailAtGate
    <3> DEFINE done == FailedStatus(gen, status, latest)
    <3>1. /\ done \in Statuses
          /\ latest.cap = "update" => done.state = "Ready"
          /\ latest.cap = "delete" /\ status.ready = "True" => done.state = "Ready"
      BY <2>0, FailedFields
    <3>2. ~IsTerminal(latest) /\ status' \in FinishStatuses(done)
      BY <2>5 DEF FailOperation, FailAtGate, CanFail, FinishStatuses
    <3> HIDE DEF done
    <3>3. done.state = "Failed"
      BY <3>1, <3>2, FinishFields
    <3>4. QED
      BY <2>0, <3>1, <3>2, <3>3 DEF Capabilities, LifeInv, DeleteRemembers
  <2>6. CASE PassiveObserve
    <3>1. PICK f \in Facts : status' = ObservedStatus(status, f, FALSE)
      BY <2>6 DEF PassiveObserve
    <3>2. status'.state \in {status.state, "Ready", "Unknown"}
      BY <2>0, <3>1, ObservedFields
    <3>3. QED
      BY <3>2
  <2>7. QED
    BY <2>2, <2>3, <2>4, <2>5, <2>6 DEF LifeNext
<1>2. QED
  BY <1>1, LifeInvariance, PTL DEF LifeSpec, FailedOnlyIfNeverUsable
=============================================================================
