------------------------------ MODULE Recovery ------------------------------
(***************************************************************************)
(* Quarantined work and the operator who recovers it: the outbox rows of   *)
(* one resource and of its successive operations, the background observer, *)
(* the recovery planner, and the three operator mutations with their       *)
(* idempotency keys and their optional If-Match.                           *)
(*                                                                         *)
(* A worker handler is one step: the transaction that settles a message    *)
(* checks again what the earlier ones checked.  Only a dispatch is seen    *)
(* while it is under way, because its execution is then Dispatching.       *)
(***************************************************************************)
EXTENDS Naturals, FiniteSets

CONSTANTS
  Keys,          \* idempotency keys of one operator
  NoRow,         \* the target of an action that is not about a row
  MaxOps,        \* bound on the operations of the resource
  MaxSequence,   \* bound on the observations of one operation
  MaxVersion,    \* bound on the version at which an observation is asked for
  MaxUnsent,     \* bound on the version of an execution that goes back unsent
  MaxDead,       \* bound on the quarantined messages
  MaxActions,    \* bound on the accepted operator actions
  MaxToggles,    \* bound on the changes of the registration
  MaxShown       \* bound on the actions after which a diagnostic is still read

ASSUME BoundsAssumption ==
  /\ {MaxOps, MaxSequence, MaxVersion, MaxUnsent, MaxDead, MaxActions, MaxToggles,
      MaxShown} \subseteq Nat
  /\ MaxOps > 0

Ops == 1..MaxOps

VARIABLES
  op,          \* the current operation: number, phase, version, finished
  exec,        \* its execution: state, version, attempt, next observation
  resource,    \* its version and its state; Ready stands for Failed too
  outbox,      \* the rows, those that are settled included
  due,         \* the version at which the dependents last had to be woken
  woken,       \* the version up to which they were
  registered,  \* the provisioner is registered
  ledger,      \* the accepted operator actions
  shown,       \* the diagnostics the operator looks at
  toggles

vars == <<op, exec, resource, outbox, due, woken, registered, ledger, shown, toggles>>
observer == <<registered, toggles>>
operator == <<ledger, shown>>

Kinds == {"Drive", "Dispatch", "Observe", "PassiveObserve", "WakeDependents"}
ExecutionStates == {"Pending", "Dispatching", "Unknown", "Accepted", "Done"}

Active(r) == r.state \in {"Pending", "Leased"}

\* Rows of the resource have no operation.
OwnerOf(kind, o) == IF kind \in {"PassiveObserve", "WakeDependents"} THEN 0 ELSE o

ActiveOf(rows, kind, o) == {r \in rows : Active(r) /\ r.kind = kind /\ r.op = OwnerOf(kind, o)}

Dead == {r \in outbox : r.state = "Dead"}

TypeOK ==
  /\ op.number \in Ops /\ op.phase \in 0..2 /\ op.version \in Nat /\ op.finished \in BOOLEAN
  /\ exec.state \in ExecutionStates /\ exec.version \in Nat
  /\ exec.attempt \in Nat /\ exec.next \in Nat \ {0}
  /\ resource.version \in Nat /\ resource.state \in {"Busy", "Ready", "Deleted"}
  /\ \A r \in outbox : /\ r.kind \in Kinds /\ r.op \in 0..MaxOps
                       /\ r.expected \in Nat /\ r.sequence \in Nat
                       /\ r.state \in {"Pending", "Leased", "Completed", "Dead"}
  /\ \A r, s \in outbox : r.key = s.key => r = s
  /\ \A r, s \in outbox : Active(r) /\ Active(s) /\ r.kind = s.kind /\ r.op = s.op => r = s
  /\ due \in Nat /\ woken \in Nat
  /\ registered \in BOOLEAN
  /\ Cardinality(ledger) <= MaxActions
  /\ toggles \in 0..MaxToggles

-----------------------------------------------------------------------------
(* Messages and the outbox table. *)

\* A key says what the message is about, its kind, its aggregate and a number, and
\* who made it.
Row(key, kind, o, expected, sequence) ==
  [key |-> key, kind |-> kind, op |-> OwnerOf(kind, o), expected |-> expected,
   sequence |-> sequence, state |-> "Pending"]

DriveMessage(o, version) == Row(<<"Drive", o, version, "Chain">>, "Drive", o, version, 0)
DispatchMessage(o, attempt, version) ==
  Row(<<"Dispatch", o, attempt, "Chain">>, "Dispatch", o, version, attempt)
ObserveMessage(o, sequence, version) ==
  Row(<<"Observe", o, sequence, "Chain">>, "Observe", o, version, sequence)
PassiveObserveMessage(sequence, version) ==
  Row(<<"PassiveObserve", 0, sequence, "Chain">>, "PassiveObserve", 0, version, sequence)
WakeDependentsMessage(version) ==
  Row(<<"WakeDependents", 0, version, "Chain">>, "WakeDependents", 0, version, 0)

\* The key is unique over all of history: a row that has it is kept.
Spent(rows, message) == \E r \in rows : r.key = message.key

\* One active row of a kind for each aggregate.
Conflicts(rows, message) == ~Spent(rows, message) /\ ActiveOf(rows, message.kind, message.op) # {}

Enqueued(rows, message) ==
  IF Spent(rows, message) \/ Conflicts(rows, message) THEN rows ELSE rows \cup {message}

\* Somebody always waits for this resource; a wake is folded into an active one.
WithWake(rows, version) == Enqueued(rows, WakeDependentsMessage(version))

Settled(r, state) == (outbox \ {r}) \cup {[r EXCEPT !.state = state]}

Completed(r) == Settled(r, "Completed")

\* The resource has been created and is at rest.
NothingShown == [request |-> NoRow]

Init ==
  /\ op = [number |-> 1, phase |-> 2, version |-> 1, finished |-> TRUE]
  /\ exec = [state |-> "Done", version |-> 1, attempt |-> 1, next |-> 1]
  /\ resource = [version |-> 1, state |-> "Ready"]
  /\ outbox = {}
  /\ due = 0 /\ woken = 0
  /\ registered = TRUE
  /\ ledger = {} /\ shown = NothingShown
  /\ toggles = 0

-----------------------------------------------------------------------------
(* The workers. *)

\* A message that fails for good is quarantined; a dispatch only before it has
\* begun, and with it the operation waits for a human being.
Quarantine(r) ==
  /\ r.state = "Pending"
  /\ Cardinality({s \in outbox : s.state = "Dead"}) < MaxDead
  /\ outbox' = Settled(r, "Dead")
  /\ UNCHANGED <<op, exec, resource, due, woken, observer, operator>>

Drive(r) ==
  LET stale == op.finished \/ op.number # r.op \/ op.version # r.expected \/ op.phase = 2
      last == op.phase = 1
  IN  /\ r.state = "Pending" /\ r.kind = "Drive"
      /\ \/ /\ stale
            /\ outbox' = Completed(r)
            /\ UNCHANGED <<op, exec, resource>>
         \/ /\ ~stale
            /\ op' = [op EXCEPT !.phase = @ + 1, !.version = @ + 1]
            /\ resource' = [resource EXCEPT !.version = @ + 1]
            /\ exec' = IF last THEN [exec EXCEPT !.attempt = 1, !.version = @ + 1] ELSE exec
            /\ outbox' = Enqueued(Completed(r),
                           IF last THEN DispatchMessage(r.op, 1, exec.version + 1)
                                   ELSE DriveMessage(r.op, op.version + 1))
      /\ UNCHANGED <<due, woken, observer, operator>>

\* The lease and the state Dispatching are written before the provider is called.
PrepareDispatch(r) ==
  LET current == /\ exec.version = r.expected /\ exec.attempt = r.sequence
                 /\ exec.state = "Pending" /\ op.number = r.op
  IN  /\ r.state = "Pending" /\ r.kind = "Dispatch" /\ registered
      /\ \/ ~current /\ outbox' = Completed(r) /\ UNCHANGED exec
         \/ /\ current
            /\ outbox' = Settled(r, "Leased")
            /\ exec' = [exec EXCEPT !.state = "Dispatching", !.version = @ + 1]
      /\ UNCHANGED <<op, resource, due, woken, observer, operator>>

\* scheduleObserve
NextObserve(e) == [e EXCEPT !.next = @ + 1, !.version = @ + 1]

ObserveFor(e) == ObserveMessage(op.number, e.next, e.version + 1)

\* The provider has taken the work, or nobody knows: the call was ambiguous, or
\* its lease ran out.
SubmitReturns(r) ==
  /\ r.state = "Leased"
  /\ \E state \in {"Accepted", "Unknown"} :
       LET e == [exec EXCEPT !.state = state]
       IN  exec' = NextObserve(e) /\ outbox' = Enqueued(Completed(r), ObserveFor(e))
  /\ UNCHANGED <<op, resource, due, woken, observer, operator>>

\* Not attempted: the same message, for the new version of the execution.
SubmitNotAttempted(r) ==
  /\ r.state = "Leased" /\ exec.version < MaxUnsent
  /\ exec' = [exec EXCEPT !.state = "Pending", !.version = @ + 1]
  /\ outbox' = (outbox \ {r}) \cup {[r EXCEPT !.state = "Pending", !.expected = exec.version + 1]}
  /\ UNCHANGED <<op, resource, due, woken, observer, operator>>

\* The terminal transition, with its wake.
Finish(r) ==
  /\ op' = [op EXCEPT !.finished = TRUE, !.version = @ + 1]
  /\ exec' = [exec EXCEPT !.state = "Done", !.version = @ + 1]
  /\ \E state \in {"Ready", "Deleted"} :
       resource' = [version |-> resource.version + 1, state |-> state]
  /\ outbox' = WithWake(Completed(r), resource.version + 1)
  /\ due' = resource.version + 1
  /\ UNCHANGED <<woken, observer, operator>>

\* What an observation of the current execution leads to.
Observe(r) ==
  LET current == /\ ~op.finished /\ op.number = r.op
                 /\ exec.version = r.expected /\ exec.next = r.sequence + 1
  IN  /\ r.state = "Pending" /\ r.kind = "Observe"
      /\ \/ /\ ~current
            /\ outbox' = Completed(r)
            /\ UNCHANGED <<op, exec, resource, due, woken, observer, operator>>
         \/ /\ current /\ registered /\ exec.next <= MaxSequence
            /\ \E state \in {exec.state, "Accepted"} :
                 LET e == [exec EXCEPT !.state = state]
                 IN  exec' = NextObserve(e) /\ outbox' = Enqueued(Completed(r), ObserveFor(e))
            /\ UNCHANGED <<op, resource, due, woken, observer, operator>>
         \/ /\ current /\ registered /\ exec.state = "Unknown" /\ exec.attempt = 1
            /\ exec' = [exec EXCEPT !.state = "Pending", !.attempt = 2, !.version = @ + 1]
            /\ outbox' = Enqueued(Completed(r), DispatchMessage(r.op, 2, exec.version + 1))
            /\ UNCHANGED <<op, resource, due, woken, observer, operator>>
         \/ current /\ registered /\ Finish(r)

\* Facts are applied only to the version that was observed, and never beside an
\* operation.
PassiveObserve(r) ==
  LET current == r.expected = resource.version /\ op.finished
  IN  /\ r.state = "Pending" /\ r.kind = "PassiveObserve"
      /\ \/ ~current /\ outbox' = Completed(r) /\ UNCHANGED <<resource, due>>
         \/ /\ current /\ registered
            /\ resource' = [resource EXCEPT !.version = @ + 1]
            /\ outbox' = WithWake(Completed(r), resource.version + 1)
            /\ due' = resource.version + 1
      /\ UNCHANGED <<op, exec, woken, observer, operator>>

\* The version handshake is Dependencies' subject; here the dependents are woken.
WakeDependents(r) ==
  /\ r.state = "Pending" /\ r.kind = "WakeDependents"
  /\ woken' = IF r.expected > woken THEN r.expected ELSE woken
  /\ outbox' = IF r.expected # resource.version
               THEN Enqueued(Completed(r), WakeDependentsMessage(resource.version))
               ELSE Completed(r)
  /\ UNCHANGED <<op, exec, resource, due, observer, operator>>

-----------------------------------------------------------------------------
(* Requests of the developers, and the background observer. *)

\* Settled rows whose key cannot come again, because it has the number of a
\* finished operation or an old version in it, are left out from here on.
Relevant(r) == Active(r) \/ (r.op = 0 /\ (r.state = "Dead" \/ r.key[3] = 0))

NextOperation ==
  /\ op.finished /\ op.number < MaxOps /\ resource.state = "Ready"
  /\ op' = [number |-> op.number + 1, phase |-> 0, version |-> 1, finished |-> FALSE]
  /\ exec' = [state |-> "Pending", version |-> 1, attempt |-> 0, next |-> 1]
  /\ resource' = [version |-> resource.version + 1, state |-> "Busy"]
  /\ outbox' = Enqueued({r \in outbox : Relevant(r)}, DriveMessage(op.number + 1, 1))
  /\ UNCHANGED <<due, woken, observer, operator>>

\* The background observer enqueues a message, always with sequence 0, for a
\* resource that was Ready when its page was read, which this one once was; an
\* error is not looked at.
SchedulePassiveObservations ==
  /\ outbox' = Enqueued(outbox, PassiveObserveMessage(0, resource.version))
  /\ UNCHANGED <<op, exec, resource, due, woken, observer, operator>>

\* An observation on request has the version for its sequence.
RequestPassiveObservation ==
  LET message == PassiveObserveMessage(resource.version, resource.version)
  IN  /\ resource.version <= MaxVersion
      /\ ~Conflicts(outbox, message)
      /\ outbox' = Enqueued(outbox, message)
      /\ UNCHANGED <<op, exec, resource, due, woken, observer, operator>>

\* The server is started with another set of provisioners, while the operator
\* looks at what the old one answered.
ToggleRegistration ==
  /\ toggles < MaxToggles /\ shown # NothingShown
  /\ toggles' = toggles + 1
  /\ registered' = ~registered
  /\ UNCHANGED <<op, exec, resource, outbox, due, woken, operator>>

-----------------------------------------------------------------------------
(* The recovery planner: what may be done, given the current rows. *)

ObservableForObserve == exec.state \in {"Unknown", "Accepted"}

PlanOperationObserve ==
  /\ ~op.finished /\ registered /\ ObservableForObserve
  /\ ActiveOf(outbox, "Observe", op.number) = {}

PlanResourcePassiveObserve ==
  /\ resource.state # "Deleted" /\ registered /\ op.finished
  /\ ActiveOf(outbox, "PassiveObserve", 0) = {}

\* Mutant: the last observation is the one that comes next.
SupersededByLast(r) ==
  CASE r.kind = "Dispatch" -> r.sequence # exec.attempt
    [] r.kind = "Observe"  -> r.sequence = 0 \/ r.sequence # exec.next
    [] OTHER               -> FALSE

\* The dead row is not the latest of its kind.
Superseded(r) ==
  CASE r.kind = "Dispatch" -> r.sequence # exec.attempt
    [] r.kind = "Observe"  -> r.sequence = 0 \/ r.sequence + 1 # exec.next
    [] OTHER               -> FALSE

EquivalentKind(r) == IF r.kind = "Dispatch" THEN "Observe" ELSE r.kind

Equivalent(r) == ActiveOf(outbox, EquivalentKind(r), r.op)

PlanDeadWorkRecovery(r) ==
  /\ r.state = "Dead"
  /\ Equivalent(r) = {}
  /\ IF r.op # 0
     THEN /\ r.op = op.number /\ ~op.finished
          /\ ~Superseded(r)
          /\ registered
          /\ r.kind \in {"Dispatch", "Observe"} => ObservableForObserve
     ELSE /\ op.finished
          /\ resource.state # "Deleted"
          /\ r.kind = "PassiveObserve" => registered

TargetOf(request) == CHOOSE r \in outbox : r.key = request.target

Plan(request) ==
  CASE request.action = "observe" -> PlanOperationObserve
    [] request.action = "passive" -> PlanResourcePassiveObserve
    [] OTHER                      -> PlanDeadWorkRecovery(TargetOf(request))

-----------------------------------------------------------------------------
(* Diagnostics. *)

\* The active work as a revision has it.
ActiveWorkParts(o) == {<<r.key, r.state>> : r \in {s \in outbox : Active(s) /\ s.op = o}}

\* Mutant: the revision leaves the active equivalent work out.
WorkRevisionOfRow(r) ==
  <<r.key, r.state, op, exec.version, exec.state, resource.version, resource.state, registered>>

WorkRevision(r) ==
  IF r.op # 0
  THEN <<r.key, r.state, op.number = r.op, op.version, op.finished, exec.version, exec.state,
         Superseded(r), Equivalent(r) # {}, registered>>
  ELSE <<r.key, r.state, resource.version, resource.state, op.finished, Equivalent(r) # {},
         registered>>

OperationRevision == <<op, exec, ActiveWorkParts(op.number), registered>>

ResourceRevision ==
  <<resource, op, IF op.finished THEN <<>> ELSE exec, ActiveWorkParts(0), registered>>

Revision(request) ==
  CASE request.action = "observe" -> OperationRevision
    [] request.action = "passive" -> ResourceRevision
    [] OTHER                      -> WorkRevision(TargetOf(request))

\* The operator reads a diagnostic, and with it the revision to send as If-Match.
Show(request) ==
  /\ shown = NothingShown /\ Cardinality(ledger) <= MaxShown
  /\ shown' = [request |-> request, revision |-> Revision(request), allowed |-> Plan(request)]
  /\ UNCHANGED <<op, exec, resource, outbox, due, woken, observer, ledger>>

OperationOperatorDiagnostics == Show([action |-> "observe", target |-> NoRow])

ResourceOperatorDiagnostics ==
  resource.version <= MaxVersion /\ Show([action |-> "passive", target |-> NoRow])

WorkOperatorDiagnostics(r) == Show([action |-> "recover", target |-> r.key])

-----------------------------------------------------------------------------
(* The mutations. *)

Bound(k) == {a \in ledger : a.key = k}

\* Mutant: the version the execution has before the action saves it.
NextObserveStale == ObserveMessage(op.number, exec.next, exec.version)

\* nextObserveMessage
NextObserveMessage == ObserveMessage(op.number, exec.next, exec.version + 1)

\* An identity that belongs to the action alone.
OperatorMessage(kind) ==
  Row(<<kind, OwnerOf(kind, op.number), Cardinality(ledger) + 1, "Operator">>, kind, op.number,
      IF kind = "Drive" THEN op.version ELSE resource.version, 0)

\* The new work that a request stands for; a dispatch is never made.
CreatedWork(request) ==
  LET kind == CASE request.action = "observe" -> "Observe"
                [] request.action = "passive" -> "PassiveObserve"
                [] OTHER                      -> EquivalentKind(TargetOf(request))
  IN  IF kind = "Observe" THEN NextObserveMessage ELSE OperatorMessage(kind)

\* If-Match, when it is sent, is the revision that was shown.
Matches(request) == shown.request = request /\ shown.revision = Revision(request)

\* Work, audit record and binding of the key are one transaction.  A request
\* whose key is bound is answered from the ledger, or refused when it is another
\* request, and one that does not match or is not allowed is refused: they leave
\* no trace.  An operator whose answer was lost sends the request again.
RunOperatorMutation(k, request) ==
  LET message == CreatedWork(request)
  IN  /\ Bound(k) = {} /\ Cardinality(ledger) < MaxActions
      /\ Plan(request)
      /\ shown = NothingShown \/ Matches(request)
      /\ shown' = NothingShown
      /\ ~Conflicts(outbox, message)
      /\ outbox' = Enqueued(outbox, message)
      /\ exec' = IF message.kind = "Observe" THEN NextObserve(exec) ELSE exec
      /\ ledger' = ledger \cup {[key |-> k, action |-> Cardinality(ledger) + 1, work |-> message.key]}
      /\ UNCHANGED <<op, resource, due, woken, observer>>

TriggerOperationObservation(k) == RunOperatorMutation(k, [action |-> "observe", target |-> NoRow])

TriggerResourcePassiveObservation(k) ==
  RunOperatorMutation(k, [action |-> "passive", target |-> NoRow])

RecoverDeadWork(k, r) == RunOperatorMutation(k, [action |-> "recover", target |-> r.key])

-----------------------------------------------------------------------------
Work(r) ==
  \/ Drive(r) \/ PrepareDispatch(r) \/ SubmitReturns(r) \/ SubmitNotAttempted(r)
  \/ Observe(r) \/ PassiveObserve(r) \/ WakeDependents(r)

Next ==
  \/ \E r \in outbox : Work(r) \/ Quarantine(r)
  \/ NextOperation \/ SchedulePassiveObservations \/ RequestPassiveObservation
  \/ ToggleRegistration
  \/ OperationOperatorDiagnostics \/ ResourceOperatorDiagnostics
  \/ \E r \in Dead : WorkOperatorDiagnostics(r)
  \/ \E k \in Keys : \/ TriggerOperationObservation(k) \/ TriggerResourcePassiveObservation(k)
                     \/ \E r \in Dead : RecoverDeadWork(k, r)

Spec == Init /\ [][Next]_vars

Fairness == WF_vars(SchedulePassiveObservations) /\ WF_vars(\E r \in outbox : Work(r))

FairSpec == Spec /\ Fairness

-----------------------------------------------------------------------------
\* Quarantine never strands anything that an operator could not set going again:
\* an operation without active work has a dead row that may be recovered, or one
\* of a dispatch that never began; and dependents who were not woken have a dead
\* wake that may be recovered, while the resource is there and at rest.
NothingStranded ==
  /\ ~op.finished /\ registered /\ {r \in outbox : Active(r) /\ r.op = op.number} = {}
     => \E r \in Dead : /\ r.op = op.number
                        /\ PlanDeadWorkRecovery(r) \/ (r.kind = "Dispatch" /\ exec.state = "Pending")
  /\ woken < due /\ op.finished /\ resource.state # "Deleted"
     /\ ActiveOf(outbox, "WakeDependents", 0) = {}
     => \E r \in Dead : r.kind = "WakeDependents" /\ PlanDeadWorkRecovery(r)

\* Work that is waiting for a worker is current when the worker gets it: the
\* recovery and the chain of messages it joins agree on versions and sequences,
\* so that nothing they made is settled as stale with nothing to follow it.
ActiveIsCurrent ==
  TypeOK /\ \A r \in outbox : Active(r) /\ r.op = op.number /\ ~op.finished =>
    CASE r.kind = "Drive"   -> r.expected = op.version
      [] r.kind = "Observe" -> r.expected = exec.version /\ r.sequence + 1 = exec.next
      [] OTHER -> r.sequence = exec.attempt /\ r.expected = IF r.state = "Leased" THEN exec.version - 1
                                                            ELSE exec.version

\* An operator action that is accepted is the only one of its key, so that every
\* answer to a repeated request names the same work; it has put a new row into
\* the outbox and was not swallowed by the key of a row that is there already;
\* and if it was sent with If-Match, it was shown as allowed.
AcceptedActionIsSound ==
  [][\A a \in ledger' \ ledger :
       /\ \A b \in ledger : b.key # a.key
       /\ \E r \in outbox' \ outbox : r.key = a.work
       /\ shown # NothingShown => shown.allowed]_vars

\* The background observer looks at a deployed resource again and again.
DriftIsWatched ==
  []<>(resource.state # "Ready" \/ ActiveOf(outbox, "PassiveObserve", 0) # {})
=============================================================================
