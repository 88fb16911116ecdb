----------------------------- MODULE Crossplane -----------------------------
(***************************************************************************)
(* The Crossplane provisioner (internal/provisioning/crossplane) for one    *)
(* resource, that is for one object name in the cluster, and the           *)
(* operations that follow one another on it: a create, updates, a delete.  *)
(*                                                                         *)
(* Every action is one request of a Submit or Observe call to the API      *)
(* server, a step of the Crossplane controllers, of somebody else in the   *)
(* cluster, or a fault.  The object carries the operation that was written *)
(* last, which is also the target generation that is stamped on it; 0 is   *)
(* no operation, UID or version.                                           *)
(***************************************************************************)
EXTENDS Naturals, Sequences, FiniteSets

CONSTANTS
  Workers,     \* worker loops, each in a server of its own
  MaxOps,      \* bound on the operations of the resource
  MaxRetries,  \* maxConditionalRetries
  NoWorker,    \* holder of a message that is not leased
  MaxFaults    \* bound on lost answers, pauses and interferences

Ops == 1..MaxOps

ASSUME CrossplaneAssumption ==
  /\ NoWorker \notin Workers
  /\ MaxOps \in Nat \ {0} /\ MaxFaults \in Nat /\ MaxRetries \in Nat \ {0}

\* DefaultConditionRules: both are required, and evaluated in this order.
Rules == <<"Ready", "Synced">>

ConditionTypes == {"Ready", "Synced"}

\* A condition that is false may have a reason that is registered as terminal.
ConditionStatuses == {"Missing", "True", "False", "Terminal"}

Conditions == [ConditionTypes -> [status: ConditionStatuses, fresh: BOOLEAN]]

Answers == {"Rejected", "Failed", "Unknown", "Accepted", "NotFound", "Running", "Succeeded"}

Steps == {"idle", "get", "create", "raced", "write", "reread", "delete", "reget", "absence",
          "answer"}

VARIABLES
  capability, \* capability of each operation
  current,   \* the operation being executed
  message,   \* its outbox message
  accepted,  \* operations whose acceptance was confirmed
  handle,    \* UID in the execution handle of each operation
  verdict,   \* conclusive answer recorded for each operation
  object,    \* the object under the resource's name
  makers,    \* who made each UID so far
  infra,     \* UIDs whose infrastructure exists
  served,    \* whether the API kind is served
  behind,    \* calls that hold another resource version than the object has
  worker,    \* what each worker loop is doing
  late,      \* history: a call that had lost its lease wrote
  disturbed, \* history: somebody else interfered
  faults     \* faults used up so far

cluster == <<object, makers, infra, served, behind>>
rows == <<capability, current, message, accepted, handle, verdict>>
history == <<late, disturbed>>
vars == <<capability, current, message, accepted, handle, verdict, object, makers, infra,
          served, behind, worker, late, disturbed, faults>>

Messages == [kind: {"Dispatch", "Observe"}, holder: Workers \cup {NoWorker}, live: BOOLEAN,
             open: BOOLEAN]

\* outputs is the target generation of the envelope in the status.
Objects == [uid: Nat, owned: BOOLEAN, op: 0..MaxOps, terminating: BOOLEAN,
            conditions: Conditions, outputs: 0..MaxOps]

Calls == [step: Steps, kind: {"Dispatch", "Observe"}, op: 0..MaxOps, uid: Nat,
          tries: 0..(MaxRetries - 1), answer: Answers, handle: Nat,
          outputs: {"None", "Available", "Unavailable", "Invalid"}, seen: Objects]

Exists == object.uid # 0

NoConditions == [c \in ConditionTypes |-> [status |-> "Missing", fresh |-> FALSE]]

NoObject == [uid |-> 0, owned |-> FALSE, op |-> 0, terminating |-> FALSE,
             conditions |-> NoConditions, outputs |-> 0]

\* The first operation creates the resource, the others change it, and none
\* follows a delete.
Histories == {f \in [Ops -> {"create", "update", "delete"}] :
                \A o \in Ops : /\ f[o] = "create" <=> o = 1
                               /\ \A p \in 1..(o - 1) : f[p] = "delete" => f[o] = "delete"}

TypeOK ==
  /\ capability \in Histories
  /\ current \in Ops
  /\ message \in Messages
  /\ accepted \subseteq Ops
  /\ handle \in [Ops -> Nat]
  /\ verdict \in [Ops -> {"None", "Rejected", "Failed", "Succeeded"}]
  /\ object \in Objects
  /\ makers \in Seq({"Liftr", "Other"})
  /\ infra \subseteq DOMAIN makers
  /\ served \in BOOLEAN
  /\ behind \subseteq Workers
  /\ worker \in [Workers -> Calls]
  /\ late \in BOOLEAN /\ disturbed \in BOOLEAN
  /\ faults \in 0..MaxFaults
  /\ Exists => object.uid \in DOMAIN makers /\ served

Idle == [step |-> "idle", kind |-> "Dispatch", op |-> 0, uid |-> 0, tries |-> 0,
         answer |-> "Unknown", handle |-> 0, outputs |-> "None", seen |-> NoObject]

NewMessage(kind) == [kind |-> kind, holder |-> NoWorker, live |-> FALSE, open |-> TRUE]

Init ==
  /\ capability \in Histories
  /\ current = 1
  /\ message = NewMessage("Dispatch")
  /\ accepted = {}
  /\ handle = [o \in Ops |-> 0]
  /\ verdict = [o \in Ops |-> "None"]
  /\ object = NoObject
  /\ makers = <<>>
  /\ infra = {}
  /\ served = TRUE
  /\ behind = Workers
  /\ worker = [w \in Workers |-> Idle]
  /\ late = FALSE /\ disturbed = FALSE
  /\ faults = 0

Fault == faults < MaxFaults /\ faults' = faults + 1

At(w, step) == worker[w].step = step

Goto(w, step) == worker' = [worker EXCEPT ![w].step = step]

Return(w, answer) ==
  worker' = [worker EXCEPT ![w] = [Idle EXCEPT !.step = "answer", !.answer = answer,
                                               !.kind = worker[w].kind, !.op = worker[w].op]]

Deletes(w) == capability[worker[w].op] = "delete"

-----------------------------------------------------------------------------
(* The worker around the provisioner; its own protocol is Execution. *)

Claim(w) ==
  /\ At(w, "idle")
  /\ message.open /\ ~message.live
  /\ message.kind = "Dispatch" => message.holder = NoWorker
  /\ message' = [message EXCEPT !.holder = w, !.live = TRUE]
  /\ worker' = [worker EXCEPT ![w] = [Idle EXCEPT !.step = "get", !.kind = message.kind,
                                        !.op = current, !.handle = handle[current]]]
  /\ UNCHANGED <<capability, current, accepted, handle, verdict, cluster, history, faults>>

\* An expired dispatch is recovered as unknown and observed.
RecoverExpiredDispatch ==
  /\ message.open /\ ~message.live /\ message.kind = "Dispatch"
  /\ message.holder # NoWorker
  /\ message' = NewMessage("Observe")
  /\ UNCHANGED <<capability, current, accepted, handle, verdict, cluster, worker, history, faults>>

Owns(w) ==
  /\ message.open /\ message.live /\ message.holder = w
  /\ message.kind = worker[w].kind /\ worker[w].op = current

\* Absence authorizes another attempt only before a confirmed acceptance.
MayResubmit(o) == o \notin accepted

\* The answer is recorded under the lease, or dropped without it.
Record(w) ==
  LET o == worker[w].op
      answer == worker[w].answer
      found == answer \in {"Accepted", "Running", "Failed", "Succeeded"}
      again == IF answer = "NotFound" /\ MayResubmit(o) THEN "Dispatch" ELSE "Observe"
  IN  /\ At(w, "answer")
      /\ worker' = [worker EXCEPT ![w] = Idle]
      /\ \/ /\ ~Owns(w)
            /\ UNCHANGED <<message, accepted, handle, verdict>>
         \/ /\ Owns(w)
            /\ accepted' = IF found THEN accepted \cup {o} ELSE accepted
            /\ handle' = [handle EXCEPT ![o] = IF answer = "Running" THEN worker[w].handle ELSE @]
            /\ IF answer \in {"Rejected", "Failed", "Succeeded"}
               THEN /\ message' = [message EXCEPT !.open = FALSE, !.live = FALSE]
                    /\ verdict' = [verdict EXCEPT ![o] = answer]
               ELSE /\ message' = NewMessage(again)
                    /\ UNCHANGED verdict
      /\ UNCHANGED <<capability, current, cluster, history, faults>>

\* The next operation is admitted once the current one has succeeded.
NextOperation ==
  /\ ~message.open /\ verdict[current] = "Succeeded" /\ capability[current] # "delete"
  /\ current < MaxOps
  /\ current' = current + 1
  /\ message' = NewMessage("Dispatch")
  /\ UNCHANGED <<capability, accepted, handle, verdict, cluster, worker, history, faults>>

-----------------------------------------------------------------------------
(* The API server: conditional writes on the one object. *)

Stamped(o, live) ==
  [live EXCEPT !.owned = TRUE, !.op = o,
               !.conditions = [c \in ConditionTypes |-> [@[c] EXCEPT !.fresh = FALSE]]]

\* POST: a new object under a free name.
PostObject(o) ==
  LET uid == Len(makers) + 1
  IN  /\ object' = Stamped(o, [NoObject EXCEPT !.uid = uid])
      /\ makers' = Append(makers, "Liftr")
      /\ infra' = infra \cup {uid}
      /\ behind' = Workers
      /\ UNCHANGED served

\* Mutant: the version is not a precondition.
VersionIgnored(w) == Exists

\* PUT carries the resource version that was verified.
VersionMatches(w) == Exists /\ w \notin behind

PutObject(o) ==
  /\ object' = Stamped(o, object)
  /\ behind' = Workers
  /\ UNCHANGED <<makers, infra, served>>

\* DELETE carries the UID that was verified.
UIDMatches(uid) == Exists /\ object.uid = uid

\* The controllers' finalizer holds the object until its infrastructure is gone.
DeleteObject ==
  /\ object' = [object EXCEPT !.terminating = TRUE]
  /\ behind' = Workers
  /\ UNCHANGED <<makers, infra, served>>

\* A write lands although the caller has lost its lease.
Note(w) == late' = (late \/ ~Owns(w)) /\ UNCHANGED disturbed

\* The write lands and is confirmed, or its answer is lost with or without it.
Attempt(w, write) ==
  \/ write /\ Note(w) /\ Return(w, "Accepted") /\ UNCHANGED faults
  \/ write /\ Note(w) /\ Fault /\ Return(w, "Unknown")
  \/ UNCHANGED <<cluster, history>> /\ Fault /\ Return(w, "Unknown")

\* Access is denied, admission refuses, or the read fails before any write.
Denied(w) == Fault /\ Return(w, "Rejected")

-----------------------------------------------------------------------------
(* Submit. *)

\* The object as it was read is the one that later requests refer to.
Verified(w, step) ==
  /\ worker' = [worker EXCEPT ![w].step = step, ![w].uid = object.uid]
  /\ behind' = behind \ {w}

\* identityMetadata.verify
Owned == object.owned

SubmitGet(w) ==
  /\ At(w, "get") /\ worker[w].kind = "Dispatch"
  /\ \/ /\ ~Exists
        /\ Goto(w, IF capability[worker[w].op] = "create" THEN "create" ELSE "absence")
        /\ UNCHANGED <<behind, faults>>
     \/ Exists /\ ~Owned /\ Return(w, "Failed") /\ UNCHANGED <<behind, faults>>
     \/ /\ Exists /\ Owned
        /\ Verified(w, IF Deletes(w) THEN "delete" ELSE "write")
        /\ UNCHANGED faults
     \/ Denied(w) /\ UNCHANGED behind
  /\ UNCHANGED <<rows, object, makers, infra, served, history>>

CreateMissing(w) ==
  /\ At(w, "create")
  /\ UNCHANGED rows
  /\ \/ ~Exists /\ served /\ Attempt(w, PostObject(worker[w].op))
     \/ ~served /\ Return(w, "Rejected") /\ UNCHANGED <<cluster, history, faults>>
     \/ Exists /\ Goto(w, "raced") /\ UNCHANGED <<cluster, history, faults>>
     \/ Denied(w) /\ UNCHANGED <<cluster, history>>

\* Another writer won the name: only an owned object is written.
RacedCreate(w) ==
  /\ At(w, "raced")
  /\ \/ ~Exists /\ Return(w, "Unknown") /\ UNCHANGED <<behind, faults>>
     \/ Exists /\ ~Owned /\ Return(w, "Failed") /\ UNCHANGED <<behind, faults>>
     \/ Exists /\ Owned /\ Verified(w, "write") /\ UNCHANGED faults
     \/ Fault /\ Return(w, "Unknown") /\ UNCHANGED behind
  /\ UNCHANGED <<rows, object, makers, infra, served, history>>

ApplyDesiredState(w) ==
  LET o == worker[w].op
  IN  /\ At(w, "write")
      /\ UNCHANGED rows
      /\ \/ VersionMatches(w) /\ Attempt(w, PutObject(o))
         \/ /\ Exists /\ ~VersionMatches(w)
            /\ Goto(w, "reread")
            /\ UNCHANGED <<cluster, history, faults>>
         \/ ~Exists /\ Return(w, "Rejected") /\ UNCHANGED <<cluster, history, faults>>
         \/ Denied(w) /\ UNCHANGED <<cluster, history>>

LastTry(w) == worker[w].tries + 1 = MaxRetries

\* After a conflict ownership and UID are verified again, and the write is
\* repeated with the new version, a few times.
ReverifyAfterConflict(w) ==
  LET same == Exists /\ Owned /\ object.uid = worker[w].uid
  IN  /\ At(w, "reread")
      /\ \/ ~same /\ Return(w, "Failed") /\ UNCHANGED <<behind, faults>>
         \/ same /\ LastTry(w) /\ Return(w, "Rejected") /\ UNCHANGED <<behind, faults>>
         \/ /\ same /\ ~LastTry(w)
            /\ worker' = [worker EXCEPT ![w].step = "write", ![w].tries = @ + 1]
            /\ behind' = behind \ {w}
            /\ UNCHANGED faults
         \/ Fault /\ Return(w, "Unknown") /\ UNCHANGED behind
      /\ UNCHANGED <<rows, object, makers, infra, served, history>>

SubmitDelete(w) ==
  /\ At(w, "delete")
  /\ UNCHANGED rows
  /\ \/ UIDMatches(worker[w].uid) /\ Attempt(w, DeleteObject)
     \/ /\ Exists /\ ~UIDMatches(worker[w].uid)
        /\ Goto(w, "reget")
        /\ UNCHANGED <<cluster, history, faults>>
     \/ ~Exists /\ Goto(w, "absence") /\ UNCHANGED <<cluster, history, faults>>
     \/ Denied(w) /\ UNCHANGED <<cluster, history>>

\* A replacement is left alone; when nothing is there the delete took effect.
ReplacedBeforeDelete(w) ==
  /\ At(w, "reget")
  /\ \/ Exists /\ Return(w, "Failed") /\ UNCHANGED faults
     \/ ~Exists /\ Return(w, "Succeeded") /\ UNCHANGED faults
     \/ Fault /\ Return(w, "Unknown")
  /\ UNCHANGED <<rows, cluster, history>>

-----------------------------------------------------------------------------
(* Observe. *)

\* resolveAbsence: a 404 proves absence only while the kind is served.
AbsenceProven == served

\* What a 404 means, for each caller; without proof an observation fails and
\* is repeated, a submission is refused or, once it has seen the object,
\* fails closed.
ResolveAbsence(w) ==
  LET observing == worker[w].kind = "Observe"
      proven == IF Deletes(w) THEN "Succeeded"
                ELSE IF observing THEN "NotFound"
                ELSE "Rejected"
      refuted == IF observing THEN "Unknown"
                 ELSE IF worker[w].uid # 0 THEN "Failed"
                 ELSE "Rejected"
      uncertain == IF observing \/ worker[w].uid # 0 THEN "Unknown" ELSE "Rejected"
  IN  /\ At(w, "absence")
      /\ \/ AbsenceProven /\ Return(w, proven) /\ UNCHANGED faults
         \/ ~AbsenceProven /\ Return(w, refuted) /\ UNCHANGED faults
         \/ Fault /\ Return(w, uncertain)
      /\ UNCHANGED <<rows, cluster, history>>

\* A condition that ends the evaluation: absent, stale, or terminally false.
Decides(condition) ==
  \/ condition.status \in {"Missing", "Terminal"}
  \/ condition.status = "True" /\ ~condition.fresh

\* The first condition, in the order of the rules, that ends the evaluation.
Decisive == {i \in DOMAIN Rules : /\ Decides(object.conditions[Rules[i]])
                                  /\ \A j \in 1..(i - 1) : ~Decides(object.conditions[Rules[j]])}

\* Mutant: conditions that are true are believed at any age.
EvaluateAnyAge(o) ==
  IF object.terminating THEN "NotReady"
  ELSE IF object.op # o THEN "Unknown"
  ELSE IF \E c \in ConditionTypes : object.conditions[c].status = "Terminal" THEN "Terminal"
  ELSE IF \E c \in ConditionTypes : object.conditions[c].status = "Missing" THEN "Unknown"
  ELSE "Ready"

\* Mutant: a terminal reason is waited out.
EvaluatePatiently(o) ==
  IF object.terminating THEN "NotReady"
  ELSE IF object.op # o THEN "Unknown"
  ELSE IF Decisive = {} THEN "Ready"
  ELSE "NotReady"

\* evaluateObject.  When no condition ends the evaluation the object is ready,
\* also after a condition, of any generation, that is false for a passing reason.
Evaluate(o) ==
  IF object.terminating THEN "NotReady"
  ELSE IF object.op # o THEN "Unknown"
  ELSE IF Decisive = {} THEN "Ready"
  ELSE IF \E i \in Decisive : object.conditions[Rules[i]].status = "Terminal" THEN "Terminal"
  ELSE IF \E i \in Decisive : \E j \in 1..(i - 1) : object.conditions[Rules[j]].status = "False"
       THEN "NotReady"
  ELSE "Unknown"

\* extractOutputEvidence, for the target generation of the operation.
ExtractOutputs(o) ==
  CASE object.outputs = 0 -> "Unavailable"
    [] object.outputs = o -> "Available"
    [] OTHER              -> "Invalid"

\* What an object that is owned, and has the UID of the handle, says.  A delete
\* is running as long as the object is there; an object that carries another
\* operation does not know of this one.
Observation(o) ==
  IF capability[o] = "delete" THEN "Running"
  ELSE IF object.op # o THEN "NotFound"
  ELSE IF Evaluate(o) = "Terminal" THEN "Failed"
  ELSE IF Evaluate(o) = "Ready" THEN "Succeeded"
  ELSE "Running"

ObserveGet(w) ==
  LET o == worker[w].op
      known == worker[w].handle
      mine == Owned /\ known \in {0, object.uid}
      answer == Observation(o)
  IN  /\ At(w, "get") /\ worker[w].kind = "Observe"
      /\ \/ ~Exists /\ Goto(w, "absence") /\ UNCHANGED faults
         \/ Exists /\ ~mine /\ Return(w, "Failed") /\ UNCHANGED faults
         \/ /\ Exists /\ mine
            /\ worker' = [worker EXCEPT ![w].step = "answer", ![w].answer = answer,
                            ![w].handle = object.uid,
                            ![w].seen = IF answer = "Succeeded" THEN object ELSE NoObject,
                            ![w].outputs = IF answer = "Succeeded" THEN ExtractOutputs(o)
                                           ELSE "None"]
            /\ UNCHANGED faults
         \/ Fault /\ Return(w, "Unknown")
      /\ UNCHANGED <<rows, cluster, history>>

-----------------------------------------------------------------------------
(* The controllers and everybody else in the cluster. *)

\* A condition is reported for the current specification.  The composition has
\* written the outputs of this specification by the time it is ready, or it
\* has those of an earlier one in the status, or none.
Reconcile(c) ==
  /\ Exists /\ object.owned /\ ~object.terminating
  /\ \E status \in IF c = "Ready" THEN {"False", "True"} ELSE {"True", "Terminal"} :
       /\ object.conditions[c].status # "Terminal"
       /\ object.conditions[c] # [status |-> status, fresh |-> TRUE]
       /\ object.conditions[c].fresh => object.conditions[c].status = "False"
       /\ \E outputs \in {object.outputs} \cup (IF c = "Ready" /\ status = "True" THEN {object.op} ELSE {}) :
            object' = [object EXCEPT !.conditions[c] = [status |-> status, fresh |-> TRUE],
                                     !.outputs = outputs]
  /\ behind' = Workers
  /\ UNCHANGED <<rows, makers, infra, served, worker, history, faults>>

\* The finalizer is removed once the infrastructure is destroyed.
Finalize ==
  /\ Exists /\ object.terminating
  /\ object' = NoObject
  /\ infra' = infra \ {object.uid}
  /\ behind' = Workers
  /\ UNCHANGED <<rows, makers, served, worker, history, faults>>

\* Somebody removes the object properly, and may put another one in its place:
\* a foreign one, or a copy of the old one.
Replace ==
  LET uid == Len(makers) + 1
  IN  /\ Fault
      /\ Exists \/ served
      /\ infra' = infra \ {object.uid}
      /\ \/ /\ Exists
            /\ object' = NoObject
            /\ UNCHANGED makers
         \/ /\ \E copy \in BOOLEAN :
                 /\ copy => Exists /\ object.owned
                 /\ object' = [(IF copy THEN object ELSE NoObject) EXCEPT !.uid = uid]
            /\ makers' = Append(makers, "Other")
      /\ behind' = Workers
      /\ disturbed' = TRUE
      /\ UNCHANGED <<rows, served, worker, late>>

\* They take their own object away again.
Withdraw ==
  /\ Exists /\ ~object.owned
  /\ object' = NoObject
  /\ behind' = Workers
  /\ UNCHANGED <<rows, makers, infra, served, worker, history, faults>>

\* The definition of the kind is removed, and all objects with it; what they
\* stood for is still there.
RetireKind ==
  /\ Fault
  /\ served
  /\ served' = FALSE
  /\ object' = NoObject
  /\ behind' = Workers
  /\ UNCHANGED <<rows, makers, infra, worker, history>>

\* An operator brings the kind back, empty.
RestoreKind ==
  /\ ~served
  /\ served' = TRUE
  /\ disturbed' = TRUE
  /\ UNCHANGED <<rows, object, makers, infra, behind, worker, late, faults>>

\* A call that has ended without its answer, or is paused, loses its lease.  A
\* server that dies is one whose call is paused for good.
LeaseExpires ==
  /\ message.open /\ message.live
  /\ \/ (~Owns(message.holder) \/ At(message.holder, "idle")) /\ UNCHANGED faults
     \/ Fault
  /\ message' = [message EXCEPT !.live = FALSE]
  /\ UNCHANGED <<capability, current, accepted, handle, verdict, cluster, worker, history>>

-----------------------------------------------------------------------------
Call(w) ==
  \/ Claim(w) \/ Record(w)
  \/ SubmitGet(w) \/ CreateMissing(w) \/ RacedCreate(w) \/ ApplyDesiredState(w)
  \/ ReverifyAfterConflict(w) \/ SubmitDelete(w) \/ ReplacedBeforeDelete(w)
  \/ ResolveAbsence(w) \/ ObserveGet(w)

Controllers == (\E c \in ConditionTypes : Reconcile(c)) \/ Finalize

Next ==
  \/ \E w \in Workers : Call(w)
  \/ Controllers
  \/ RecoverExpiredDispatch \/ NextOperation \/ LeaseExpires
  \/ Replace \/ Withdraw \/ RetireKind \/ RestoreKind

Spec == Init /\ [][Next]_vars

\* Workers poll and return, leases run out, controllers go on reconciling.
Fairness ==
  /\ \A w \in Workers : WF_vars(Call(w))
  /\ \A c \in ConditionTypes : WF_vars(Reconcile(c))
  /\ WF_vars(Finalize) /\ WF_vars(RecoverExpiredDispatch) /\ WF_vars(LeaseExpires)

FairSpec == Spec /\ Fairness

-----------------------------------------------------------------------------
(* Properties. *)

\* An object that somebody else put under the name is neither written nor
\* deleted, whenever it appears between the requests of a call (applyDesiredState,
\* submitDelete).  A copy of Liftr's own object is the exception.
ForeignUntouched ==
  Exists /\ ~object.owned => object.op = 0 /\ ~object.terminating

\* Liftr works on its own object only, and makes it once.  No request takes a
\* foreign object over, whenever it appears between the requests of a call
\* (submitCreateOrUpdate).  Once the acceptance of an operation is confirmed no
\* object is made for it again: an absent one is observed, not submitted anew
\* (InterpretObservation); only a call that had lost its lease can still do it.
OwnObjectOnly ==
  [][/\ ForeignUntouched'
     /\ Exists /\ ~object.owned /\ object'.uid = object.uid => ~object'.owned
     /\ (current \in accepted /\ Len(makers') > Len(makers) /\ makers'[Len(makers')] = "Liftr")
          => late']_vars

\* A delete succeeds only when the infrastructure of every object that Liftr
\* made is gone, and not because the kind is (resolveAbsence): unless somebody
\* interfered, or a call that had lost its lease wrote the object again.
DeletedMeansDestroyed ==
  \A o \in Ops :
    capability[o] = "delete" /\ verdict[o] = "Succeeded" /\ ~late /\ ~disturbed => infra = {}

\* A success is taken only from an object that carries this operation, and
\* against none of the evidence that evaluateObject holds back: no required
\* condition is absent, none is false for a terminal reason, and none is true of
\* an earlier generation only.  A condition that is false for a passing reason, of
\* whatever generation, is no such evidence: SuccessIsReady says the rest.
SuccessNotRefuted ==
  \A w \in Workers :
    At(w, "answer") /\ worker[w].kind = "Observe" /\ worker[w].answer = "Succeeded"
      /\ ~Deletes(w) =>
         /\ worker[w].seen.op = worker[w].op
         /\ \A c \in ConditionTypes :
              LET condition == worker[w].seen.conditions[c]
              IN  /\ condition.status \notin {"Missing", "Terminal"}
                  /\ condition.status = "True" => condition.fresh

\* "Readiness is Ready only when every required condition reports True with
\* condition-level freshness AND the stamped Liftr target generation equals the
\* requesting generation" (the comment on evaluateObject, observe.go:61, and
\* ADR-0015:83), and an operation succeeds on Ready alone.  The code does not keep
\* it: the branch of a false condition sets NotReady, asks for no generation, and
\* goes on to the Ready at the end.
SuccessIsReady ==
  \A w \in Workers :
    At(w, "answer") /\ worker[w].kind = "Observe" /\ worker[w].answer = "Succeeded"
      /\ ~Deletes(w) =>
         /\ worker[w].seen.op = worker[w].op
         /\ \A c \in ConditionTypes :
              worker[w].seen.conditions[c] = [status |-> "True", fresh |-> TRUE]

\* Outputs handed to the worker are those of the operation's own target
\* generation (extractOutputEvidence).
OutputsBelong ==
  \A w \in Workers :
    At(w, "answer") /\ worker[w].outputs = "Available" => worker[w].seen.outputs = worker[w].op

\* What settles an operation is about that operation and is not refuted by what
\* was seen: a success by a condition that is absent, terminally false or true of
\* an earlier generation, outputs by another target generation, a delete by
\* something that was made and is still there.
SettlementNotRefuted ==
  /\ TypeOK
  /\ DeletedMeansDestroyed
  /\ SuccessNotRefuted
  /\ OutputsBelong

\* An accepted operation is settled in the end, unless the cluster was
\* disturbed, its kind removed, the object overwritten by a late call, or the
\* delete never reached the cluster, which an observation does not notice.
AcceptedSettles ==
  (current \in accepted) ~> \/ ~message.open \/ late \/ disturbed \/ ~served
                            \/ capability[current] = "delete" /\ ~object.terminating
=============================================================================
