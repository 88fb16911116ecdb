-------------------------- MODULE CrossplaneProofs --------------------------
(***************************************************************************)
(* Proofs about Crossplane for any workers, operations, retries and faults. *)
(*                                                                         *)
(* A call works on what it has read, while the object may be replaced, the *)
(* kind retired and the lease lost between any two of its requests.  The   *)
(* invariant says what is still true of the object when the next request   *)
(* goes out: that a version or UID that matches is one that was verified   *)
(* (VerifiedIsOwned), and that nobody makes the object again while it is   *)
(* being deleted, but a call without a lease (DeleteFinishes).             *)
(***************************************************************************)
EXTENDS Crossplane, SequenceTheorems, TLAPS

Submitting == {"create", "raced", "write", "reread", "delete", "reget"}

\* What a call is about, and how it got to its step.
CallFits(c) ==
  /\ c.uid <= Len(makers)
  /\ c.step # "idle" => c.op \in Ops /\ c.op <= current
  /\ c.step \in Submitting => c.kind = "Dispatch"
  /\ c.step = "create" => capability[c.op] = "create"
  /\ c.step \in {"delete", "reget"} => capability[c.op] = "delete"

\* A version or a UID that still matches belongs to an object that was verified.
VerifiedIsOwned(w) ==
  /\ At(w, "write") /\ w \notin behind /\ Exists => object.owned
  /\ At(w, "delete") /\ Exists /\ object.uid = worker[w].uid => object.owned

\* A delete call has seen the last object, or its absence.
DeleteFinishes(c) ==
  /\ c.step = "delete" => ~Exists \/ object.uid = c.uid
  /\ c.step # "reget"
  /\ c.step = "absence" /\ capability[c.op] = "delete" /\ served => infra = {}
  /\ c.step = "answer" /\ capability[c.op] = "delete" /\ c.answer = "Succeeded" => infra = {}

\* A call that has seen success, and the outputs that it has seen.
SuccessSeen(c) ==
  c.step = "answer" /\ c.kind = "Observe" /\ c.answer = "Succeeded" /\ capability[c.op] # "delete"
    => /\ c.seen.op = c.op
       /\ \A t \in ConditionTypes : /\ c.seen.conditions[t].status \notin {"Missing", "Terminal"}
                                    /\ c.seen.conditions[t].status = "True" => c.seen.conditions[t].fresh

OutputsSeen(c) == c.step = "answer" /\ c.outputs = "Available" => c.seen.outputs = c.op

CallGood(w) ==
  /\ CallFits(worker[w]) /\ VerifiedIsOwned(w)
  /\ ~late /\ ~disturbed => DeleteFinishes(worker[w])
  /\ SuccessSeen(worker[w]) /\ OutputsSeen(worker[w])

\* Nothing follows a delete, nothing is recorded for operations to come, and a
\* dispatch is open only before a confirmed acceptance.
RowsFit ==
  /\ \A o \in Ops : o < current => capability[o] # "delete"
  /\ \A o \in accepted : o <= current
  /\ \A o \in Ops : verdict[o] # "None" => o <= current
  /\ message.open /\ message.kind = "Dispatch" => current \notin accepted

\* As long as nobody interferes the object is Liftr's, and while the kind is
\* served infrastructure is there for this object only.
InfraFits ==
  ~disturbed => /\ Exists => object.owned
                /\ served => \A u \in infra : Exists /\ u = object.uid

XInv ==
  /\ TypeOK /\ RowsFit /\ ForeignUntouched /\ InfraFits /\ DeletedMeansDestroyed
  /\ \A w \in Workers : CallGood(w)

-----------------------------------------------------------------------------
(* Steps in general. *)

\* The types that every step needs.
LEMMA StateTypes ==
  ASSUME XInv
  PROVE  /\ MaxOps \in Nat /\ MaxRetries \in Nat /\ MaxRetries > 0 /\ MaxFaults \in Nat
         /\ current \in Nat /\ current \in Ops /\ Len(makers) \in Nat /\ object \in Objects
         /\ object.uid \in Nat /\ object.uid <= Len(makers) /\ infra \subseteq 1..Len(makers)
         /\ capability \in [Ops -> {"create", "update", "delete"}]
<1>1. /\ MaxOps \in Nat /\ MaxRetries \in Nat /\ MaxRetries > 0 /\ MaxFaults \in Nat
  BY CrossplaneAssumption
<1>2. current \in Nat /\ current \in Ops
  BY <1>1 DEF XInv, TypeOK, Ops
<1>3. Len(makers) \in Nat /\ DOMAIN makers = 1..Len(makers)
  BY DEF XInv, TypeOK
<1>4. object \in Objects /\ object.uid \in Nat
  BY DEF XInv, TypeOK, Objects
<1>5. object.uid <= Len(makers)
  <2>1. CASE object.uid = 0
    BY <1>3, <2>1
  <2>2. CASE object.uid # 0
    BY <1>3, <2>2 DEF XInv, TypeOK, Exists
  <2>3. QED
    BY <2>1, <2>2
<1>6. infra \subseteq 1..Len(makers)
  BY <1>3 DEF XInv, TypeOK
<1>7. capability \in [Ops -> {"create", "update", "delete"}]
  BY DEF XInv, TypeOK, Histories
<1>8. QED
  BY <1>1, <1>2, <1>3, <1>4, <1>5, <1>6, <1>7

\* What a call is, and what is true of it.
LEMMA CallTypes ==
  ASSUME XInv, NEW w \in Workers
  PROVE  /\ worker[w] \in Calls /\ CallGood(w) /\ worker[w].uid \in Nat
         /\ worker[w].uid <= Len(makers)
  BY DEF XInv, TypeOK, CallGood, CallFits, Calls

\* Only the current operation can be a delete.
LEMMA DeleteIsCurrent ==
  ASSUME XInv, NEW o \in Ops, o <= current, capability[o] = "delete"
  PROVE  o = current
<1>1. o \in Nat /\ current \in Nat
  BY StateTypes DEF Ops
<1>2. ~(o < current)
  BY DEF XInv, RowsFit
<1>3. QED
  BY <1>1, <1>2

\* A step that takes nothing away from a call that does not move: the object stays
\* the one it was, goes, or is a new one, and nothing is made while it is deleted.
Tame ==
  /\ capability' = capability /\ current' \in Nat /\ current' >= current
  /\ Len(makers') \in Nat /\ Len(makers') >= Len(makers)
  /\ (late => late') /\ (disturbed => disturbed')
  /\ \/ object'.uid = object.uid /\ (object.owned => object'.owned)
     \/ object'.uid = 0
     \/ object'.uid \in Nat /\ object'.uid > Len(makers)
  /\ ~late' /\ ~disturbed' =>
       \/ /\ infra' \subseteq infra /\ (served' => served)
          /\ object'.uid \in {0, object.uid}
       \/ capability[current] # "delete"

\* A call that does not move.
LEMMA CallStays ==
  ASSUME XInv, Tame, NEW v \in Workers, worker'[v] = worker[v],
         behind' = Workers \/ (object' = object /\ (v \in behind' <=> v \in behind))
  PROVE  CallGood(v)'
<1>1. /\ worker[v] \in Calls /\ CallGood(v) /\ worker[v].uid \in Nat
      /\ worker[v].uid <= Len(makers)
  BY CallTypes
<1>2. PICK c : c = worker[v]
  OBVIOUS
<1>3. Len(makers) \in Nat /\ current \in Nat /\ object.uid \in Nat /\ object.uid <= Len(makers)
  BY StateTypes
<1>4. CallFits(worker[v])'
  <2>1. c.uid <= Len(makers')
    BY <1>1, <1>2, <1>3 DEF Tame
  <2>2. c.step # "idle" => c.op \in Ops /\ c.op <= current'
    <3>1. c.step # "idle" => c.op \in Ops /\ c.op <= current
      BY <1>1, <1>2 DEF CallGood, CallFits
    <3>2. \A o \in Ops : o \in Nat
      BY StateTypes DEF Ops
    <3>3. QED
      BY <1>3, <3>1, <3>2 DEF Tame
  <2>3. QED
    BY <1>1, <1>2, <2>1, <2>2 DEF CallGood, CallFits, Tame
<1>5. VerifiedIsOwned(v)'
  <2>1. /\ c.step = "write" /\ v \notin behind /\ object.uid # 0 => object.owned
        /\ c.step = "delete" /\ object.uid # 0 /\ object.uid = c.uid => object.owned
    BY <1>1, <1>2 DEF CallGood, VerifiedIsOwned, At, Exists
  <2>2. c.step = "write" /\ v \notin behind' /\ object'.uid # 0 => object'.owned
    BY <2>1
  <2>3. c.step = "delete" /\ object'.uid # 0 /\ object'.uid = c.uid => object'.owned
    BY <1>1, <1>2, <1>3, <2>1 DEF Tame
  <2>4. QED
    BY <1>2, <2>2, <2>3 DEF VerifiedIsOwned, At, Exists
<1>6. ~late' /\ ~disturbed' => DeleteFinishes(worker[v])'
  <2>1. SUFFICES ASSUME ~late', ~disturbed' PROVE DeleteFinishes(worker[v])'
    OBVIOUS
  <2>2. DeleteFinishes(c)
    BY <1>1, <1>2, <2>1 DEF CallGood, Tame
  <2>3. CASE /\ infra' \subseteq infra /\ (served' => served)
             /\ object'.uid \in {0, object.uid}
    <3>1. /\ c.step = "delete" => object'.uid = 0 \/ object'.uid = c.uid
      BY <2>2, <2>3 DEF DeleteFinishes, Exists
    <3>2. infra = {} => infra' = {}
      BY <2>3
    <3>3. QED
      BY <1>2, <2>2, <2>3, <3>1, <3>2 DEF DeleteFinishes, Exists, Tame
  <2>4. CASE capability[current] # "delete"
    <3>1. c.step # "idle" => capability[c.op] # "delete"
      BY <1>1, <1>2, <2>4, DeleteIsCurrent DEF CallGood, CallFits
    <3>2. c.step \notin {"delete", "reget"}
      BY <1>1, <1>2, <3>1 DEF CallGood, CallFits
    <3>3. QED
      BY <1>2, <3>1, <3>2 DEF DeleteFinishes, Tame
  <2>5. QED
    BY <2>1, <2>3, <2>4 DEF Tame
<1>7. SuccessSeen(worker[v])' /\ OutputsSeen(worker[v])'
  BY <1>1, <1>2 DEF CallGood, SuccessSeen, OutputsSeen, Tame
<1>8. QED
  BY <1>4, <1>5, <1>6, <1>7 DEF CallGood

\* Where the rows stay, only the object and the calls have to be looked at.
LEMMA ClusterLands ==
  ASSUME XInv, Tame, UNCHANGED rows, TypeOK', ForeignUntouched', InfraFits',
         \A v \in Workers : CallGood(v)'
  PROVE  XInv'
<1>1. RowsFit'
  BY DEF rows, XInv, RowsFit
<1>2. DeletedMeansDestroyed'
  <2>1. SUFFICES ASSUME NEW o \in Ops, capability[o] = "delete", verdict[o] = "Succeeded",
                        ~late', ~disturbed'
                 PROVE  infra' = {}
    BY DEF DeletedMeansDestroyed, rows
  <2>2. infra = {} /\ o <= current
    BY <2>1 DEF XInv, DeletedMeansDestroyed, RowsFit, Tame
  <2>3. o = current
    BY <2>1, <2>2, DeleteIsCurrent
  <2>4. infra' \subseteq infra
    BY <2>1, <2>3 DEF Tame
  <2>5. QED
    BY <2>2, <2>4
<1>3. QED
  BY <1>1, <1>2 DEF XInv

-----------------------------------------------------------------------------
(* Requests that read, and what a call returns. *)

\* Faults stay within their bound.
LEMMA FaultBound ==
  ASSUME XInv, Fault \/ UNCHANGED faults
  PROVE  faults' \in 0..MaxFaults
<1>1. faults \in 0..MaxFaults /\ MaxFaults \in Nat
  BY StateTypes DEF XInv, TypeOK
<1>2. QED
  BY <1>1 DEF Fault

\* Only the call moves on.
LEMMA CallLands ==
  ASSUME XInv, NEW w \in Workers, NEW c \in Calls, worker' = [worker EXCEPT ![w] = c],
         UNCHANGED <<rows, object, makers, infra, served, history>>,
         behind' = behind \/ behind' = behind \ {w}, Fault \/ UNCHANGED faults,
         CallFits(c), c.step \in {"write", "delete"} => object.owned,
         ~late /\ ~disturbed => DeleteFinishes(c), SuccessSeen(c), OutputsSeen(c)
  PROVE  XInv'
<1>1. /\ capability' = capability /\ current' = current /\ message' = message /\ accepted' = accepted
      /\ handle' = handle /\ verdict' = verdict /\ object' = object /\ makers' = makers
      /\ infra' = infra /\ served' = served /\ late' = late /\ disturbed' = disturbed
  BY DEF rows, history
<1>2. current \in Nat /\ Len(makers) \in Nat /\ faults' \in 0..MaxFaults
  BY StateTypes, FaultBound
<1>3. Tame
  BY <1>1, <1>2 DEF Tame
<1>4. worker \in [Workers -> Calls] /\ worker' \in [Workers -> Calls] /\ worker'[w] = c
  BY DEF XInv, TypeOK
<1>5. TypeOK'
  <2>1. behind' \subseteq Workers
    BY DEF XInv, TypeOK
  <2>2. QED
    BY <1>1, <1>2, <1>4, <2>1 DEF XInv, TypeOK, Exists
<1>6. ForeignUntouched' /\ InfraFits'
  BY <1>1 DEF XInv, ForeignUntouched, InfraFits, Exists
<1>7. CallGood(w)'
  <2>1. CallFits(worker[w])' /\ SuccessSeen(worker[w])' /\ OutputsSeen(worker[w])'
    BY <1>1, <1>4 DEF CallFits, SuccessSeen, OutputsSeen
  <2>2. VerifiedIsOwned(w)'
    BY <1>1, <1>4 DEF VerifiedIsOwned, At
  <2>3. ~late' /\ ~disturbed' => DeleteFinishes(worker[w])'
    BY <1>1, <1>4 DEF DeleteFinishes, Exists
  <2>4. QED
    BY <2>1, <2>2, <2>3 DEF CallGood
<1>8. ASSUME NEW v \in Workers PROVE CallGood(v)'
  <2>1. CASE v = w
    BY <1>7, <2>1
  <2>2. CASE v # w
    <3>1. worker'[v] = worker[v] /\ (v \in behind' <=> v \in behind)
      BY <1>4, <2>2
    <3>2. QED
      BY <1>1, <1>3, <3>1, CallStays
  <2>3. QED
    BY <2>1, <2>2
<1>9. UNCHANGED rows
  OBVIOUS
<1>10. QED
  BY <1>3, <1>5, <1>6, <1>8, <1>9, ClusterLands

\* The call goes on to another step.
LEMMA GotoLands ==
  ASSUME XInv, NEW w \in Workers, NEW step \in Steps \ {"idle", "answer", "write", "delete"},
         Goto(w, step), worker[w].step # "idle",
         UNCHANGED <<rows, object, makers, infra, served, history>>,
         behind' = behind, UNCHANGED faults,
         step \in Submitting => worker[w].kind = "Dispatch",
         step = "create" => capability[worker[w].op] = "create",
         step = "reget" => capability[worker[w].op] = "delete" /\ (late \/ disturbed),
         step = "absence" => ~Exists
  PROVE  XInv'
<1>1. PICK c : c = [worker[w] EXCEPT !.step = step]
  OBVIOUS
<1>2. worker[w] \in Calls /\ CallGood(w)
  BY CallTypes
<1>3. worker' = [worker EXCEPT ![w] = c]
  BY <1>1 DEF Goto
<1>4. /\ c \in Calls /\ c.step = step /\ c.kind = worker[w].kind /\ c.op = worker[w].op
      /\ c.uid = worker[w].uid
  BY <1>1, <1>2 DEF Calls
<1>5. CallFits(c)
  BY <1>2, <1>4 DEF CallGood, CallFits
<1>6. ~late /\ ~disturbed => DeleteFinishes(c)
  <2>1. ~Exists /\ ~disturbed /\ served => infra = {}
    BY DEF XInv, InfraFits
  <2>2. QED
    BY <1>4, <2>1 DEF DeleteFinishes
<1>7. SuccessSeen(c) /\ OutputsSeen(c) /\ c.step \notin {"write", "delete"}
  BY <1>4 DEF SuccessSeen, OutputsSeen
<1>8. QED
  BY <1>3, <1>4, <1>5, <1>6, <1>7, CallLands

\* What a call that returns is.
LEMMA ReturnFields ==
  ASSUME XInv, NEW w \in Workers, NEW answer \in Answers, Return(w, answer),
         worker[w].step # "idle"
  PROVE  \E c \in Calls :
           /\ worker' = [worker EXCEPT ![w] = c] /\ c.step = "answer" /\ c.answer = answer
           /\ c.kind = worker[w].kind /\ c.op = worker[w].op /\ c.uid = 0 /\ c.outputs = "None"
           /\ c.op \in Ops /\ c.op <= current
<1>1. PICK c : c = [Idle EXCEPT !.step = "answer", !.answer = answer,
                                !.kind = worker[w].kind, !.op = worker[w].op]
  OBVIOUS
<1>2. worker[w] \in Calls /\ CallGood(w)
  BY CallTypes
<1>3. /\ worker[w].kind \in {"Dispatch", "Observe"} /\ worker[w].op \in Ops /\ worker[w].op <= current
      /\ worker[w].op \in 0..MaxOps
  BY <1>2 DEF Calls, CallGood, CallFits
<1>4. NoObject \in Objects /\ 0 \in 0..(MaxRetries - 1) /\ 0 \in Nat
  <2>1. NoConditions \in Conditions
    BY DEF NoConditions, Conditions, ConditionStatuses
  <2>2. QED
    BY <2>1, StateTypes DEF NoObject, Objects
<1>5. c = [step |-> "answer", kind |-> worker[w].kind, op |-> worker[w].op, uid |-> 0, tries |-> 0,
           answer |-> answer, handle |-> 0, outputs |-> "None", seen |-> NoObject]
  BY <1>1 DEF Idle
<1>6. c \in Calls
  BY <1>3, <1>4, <1>5 DEF Calls, Steps
<1>7. worker' = [worker EXCEPT ![w] = c]
  BY <1>1 DEF Return
<1>8. QED
  BY <1>3, <1>5, <1>6, <1>7

\* A call returns; a success is that of a delete.
LEMMA ReturnLands ==
  ASSUME XInv, NEW w \in Workers, NEW answer \in Answers, Return(w, answer),
         worker[w].step # "idle",
         UNCHANGED <<rows, object, makers, infra, served, history>>,
         behind' = behind, Fault \/ UNCHANGED faults,
         answer = "Succeeded" => /\ capability[worker[w].op] = "delete"
                                 /\ ~late /\ ~disturbed => infra = {}
  PROVE  XInv'
<1>1. PICK c \in Calls :
           /\ worker' = [worker EXCEPT ![w] = c] /\ c.step = "answer" /\ c.answer = answer
           /\ c.kind = worker[w].kind /\ c.op = worker[w].op /\ c.uid = 0 /\ c.outputs = "None"
           /\ c.op \in Ops /\ c.op <= current
  BY ReturnFields
<1>2. CallFits(c)
  BY <1>1, StateTypes DEF CallFits, Submitting
<1>3. ~late /\ ~disturbed => DeleteFinishes(c)
  BY <1>1 DEF DeleteFinishes
<1>4. SuccessSeen(c) /\ OutputsSeen(c) /\ c.step \notin {"write", "delete"}
  BY <1>1 DEF SuccessSeen, OutputsSeen
<1>5. QED
  BY <1>1, <1>2, <1>3, <1>4, CallLands

\* The call has verified the object and goes on to write it or to delete it.
LEMMA VerifiedLands ==
  ASSUME XInv, NEW w \in Workers, NEW step \in {"write", "delete"}, Verified(w, step),
         worker[w].step # "idle", worker[w].kind = "Dispatch", Exists, Owned,
         step = "delete" => capability[worker[w].op] = "delete",
         UNCHANGED <<rows, object, makers, infra, served, history>>, UNCHANGED faults
  PROVE  XInv'
<1>1. PICK c : c = [worker[w] EXCEPT !.step = step, !.uid = object.uid]
  OBVIOUS
<1>2. worker[w] \in Calls /\ CallGood(w) /\ object.uid \in Nat /\ object.uid <= Len(makers)
  BY CallTypes, StateTypes
<1>3. worker' = [worker EXCEPT ![w] = c] /\ behind' = behind \ {w}
  BY <1>1 DEF Verified
<1>4. /\ c \in Calls /\ c.step = step /\ c.kind = worker[w].kind /\ c.op = worker[w].op
      /\ c.uid = object.uid
  BY <1>1, <1>2 DEF Calls, Steps
<1>5. CallFits(c)
  BY <1>2, <1>4 DEF CallGood, CallFits
<1>6. DeleteFinishes(c) /\ SuccessSeen(c) /\ OutputsSeen(c)
  BY <1>4 DEF DeleteFinishes, SuccessSeen, OutputsSeen
<1>7. QED
  BY <1>3, <1>4, <1>5, <1>6, CallLands DEF Owned

-----------------------------------------------------------------------------
(* The requests that only read. *)

\* Submit reads the object.
LEMMA SubmitGetKeeps == ASSUME XInv, NEW w \in Workers, SubmitGet(w) PROVE XInv'
<1>1. /\ worker[w].step = "get" /\ worker[w].step # "idle" /\ worker[w].kind = "Dispatch"
      /\ UNCHANGED <<rows, object, makers, infra, served, history>>
  BY DEF SubmitGet, At
<1>2. "Failed" \in Answers /\ "Rejected" \in Answers
  BY DEF Answers
<1>3. PICK step : step = IF capability[worker[w].op] = "create" THEN "create" ELSE "absence"
  OBVIOUS
<1>4. PICK next : next = IF Deletes(w) THEN "delete" ELSE "write"
  OBVIOUS
<1>5. CASE ~Exists /\ Goto(w, step) /\ behind' = behind /\ UNCHANGED faults
  <2>1. step \in Steps \ {"idle", "answer", "write", "delete"}
    BY <1>3 DEF Steps
  <2>2. /\ step \in Submitting => worker[w].kind = "Dispatch"
        /\ step = "create" => capability[worker[w].op] = "create"
        /\ step # "reget" /\ (step = "absence" => ~Exists)
    BY <1>1, <1>3, <1>5
  <2>3. QED
    BY <1>1, <1>5, <2>1, <2>2, GotoLands
<1>6. CASE Return(w, "Failed") /\ behind' = behind /\ UNCHANGED faults
  BY <1>1, <1>2, <1>6, ReturnLands
<1>7. CASE Exists /\ Owned /\ Verified(w, next) /\ UNCHANGED faults
  <2>1. next \in {"write", "delete"} /\ (next = "delete" => capability[worker[w].op] = "delete")
    BY <1>4 DEF Deletes
  <2>2. QED
    BY <1>1, <1>7, <2>1, VerifiedLands
<1>8. CASE Denied(w) /\ behind' = behind
  BY <1>1, <1>2, <1>8, ReturnLands DEF Denied
<1>9. QED
  BY <1>3, <1>4, <1>5, <1>6, <1>7, <1>8 DEF SubmitGet

\* Another writer won the name.
LEMMA RacedCreateKeeps == ASSUME XInv, NEW w \in Workers, RacedCreate(w) PROVE XInv'
<1>1. /\ worker[w].step = "raced" /\ worker[w].step # "idle"
      /\ UNCHANGED <<rows, object, makers, infra, served, history>>
  BY DEF RacedCreate, At
<1>2. worker[w].kind = "Dispatch"
  BY <1>1, CallTypes DEF CallGood, CallFits, Submitting
<1>3. "Failed" \in Answers /\ "Unknown" \in Answers
  BY DEF Answers
<1>4. CASE Return(w, "Unknown") /\ behind' = behind /\ (Fault \/ UNCHANGED faults)
  BY <1>1, <1>3, <1>4, ReturnLands
<1>5. CASE Return(w, "Failed") /\ behind' = behind /\ UNCHANGED faults
  BY <1>1, <1>3, <1>5, ReturnLands
<1>6. CASE Exists /\ Owned /\ Verified(w, "write") /\ UNCHANGED faults
  BY <1>1, <1>2, <1>6, VerifiedLands
<1>7. QED
  BY <1>4, <1>5, <1>6 DEF RacedCreate

\* Ownership is verified again after a conflict.
LEMMA ReverifyAfterConflictKeeps ==
  ASSUME XInv, NEW w \in Workers, ReverifyAfterConflict(w) PROVE XInv'
<1>1. /\ worker[w].step = "reread" /\ worker[w].step # "idle"
      /\ UNCHANGED <<rows, object, makers, infra, served, history>>
  BY DEF ReverifyAfterConflict, At
<1>2. worker[w] \in Calls /\ CallGood(w)
  BY CallTypes
<1>3. "Failed" \in Answers /\ "Unknown" \in Answers /\ "Rejected" \in Answers
  BY DEF Answers
<1>4. CASE Return(w, "Unknown") /\ behind' = behind /\ Fault
  BY <1>1, <1>3, <1>4, ReturnLands
<1>5. CASE Return(w, "Failed") /\ behind' = behind /\ UNCHANGED faults
  BY <1>1, <1>3, <1>5, ReturnLands
<1>6. CASE Return(w, "Rejected") /\ behind' = behind /\ UNCHANGED faults
  BY <1>1, <1>3, <1>6, ReturnLands
<1>7. CASE /\ Owned /\ ~LastTry(w) /\ behind' = behind \ {w} /\ UNCHANGED faults
           /\ worker' = [worker EXCEPT ![w].step = "write", ![w].tries = @ + 1]
  <2>1. PICK c : c = [worker[w] EXCEPT !.step = "write", !.tries = @ + 1]
    OBVIOUS
  <2>2. worker' = [worker EXCEPT ![w] = c]
    BY <1>7, <2>1
  <2>3. worker[w].tries + 1 \in 0..(MaxRetries - 1)
    <3>1. worker[w].tries \in 0..(MaxRetries - 1)
      BY <1>2 DEF Calls
    <3>2. QED
      BY <1>7, <3>1, StateTypes DEF LastTry
  <2>4. /\ c \in Calls /\ c.step = "write" /\ c.kind = worker[w].kind /\ c.op = worker[w].op
        /\ c.uid = worker[w].uid
    BY <1>2, <2>1, <2>3 DEF Calls, Steps
  <2>5. CallFits(c)
    BY <1>1, <1>2, <2>4 DEF CallGood, CallFits, Submitting
  <2>6. DeleteFinishes(c) /\ SuccessSeen(c) /\ OutputsSeen(c)
    BY <2>4 DEF DeleteFinishes, SuccessSeen, OutputsSeen
  <2>7. QED
    BY <1>1, <1>7, <2>2, <2>4, <2>5, <2>6, CallLands DEF Owned
<1>8. QED
  BY <1>4, <1>5, <1>6, <1>7 DEF ReverifyAfterConflict

\* The object was replaced before the delete.
LEMMA ReplacedBeforeDeleteKeeps ==
  ASSUME XInv, NEW w \in Workers, ReplacedBeforeDelete(w) PROVE XInv'
<1>1. /\ worker[w].step = "reget" /\ worker[w].step # "idle"
      /\ UNCHANGED <<rows, object, makers, infra, served, history>> /\ behind' = behind
  BY DEF ReplacedBeforeDelete, At, cluster
<1>2. "Failed" \in Answers /\ "Unknown" \in Answers /\ "Succeeded" \in Answers
  BY DEF Answers
<1>3. capability[worker[w].op] = "delete" /\ (late \/ disturbed)
  BY <1>1, CallTypes DEF CallGood, CallFits, DeleteFinishes
<1>4. CASE Return(w, "Unknown") /\ Fault
  BY <1>1, <1>2, <1>4, ReturnLands
<1>5. CASE Return(w, "Failed") /\ UNCHANGED faults
  BY <1>1, <1>2, <1>5, ReturnLands
<1>6. CASE Return(w, "Succeeded") /\ UNCHANGED faults
  BY <1>1, <1>2, <1>3, <1>6, ReturnLands
<1>7. QED
  BY <1>4, <1>5, <1>6 DEF ReplacedBeforeDelete

\* What a 404 means.
LEMMA ResolveAbsenceKeeps == ASSUME XInv, NEW w \in Workers, ResolveAbsence(w) PROVE XInv'
<1>1. /\ worker[w].step = "absence" /\ worker[w].step # "idle"
      /\ UNCHANGED <<rows, object, makers, infra, served, history>> /\ behind' = behind
  BY DEF ResolveAbsence, At, cluster
<1>2. PICK answer :
        /\ Return(w, answer) /\ (Fault \/ UNCHANGED faults)
        /\ answer \in {"Succeeded", "NotFound", "Rejected", "Unknown", "Failed"}
        /\ answer = "Succeeded" => Deletes(w) /\ served
  BY DEF ResolveAbsence, AbsenceProven
<1>3. answer \in Answers
  BY <1>2 DEF Answers
<1>4. answer = "Succeeded" => /\ capability[worker[w].op] = "delete"
                              /\ ~late /\ ~disturbed => infra = {}
  BY <1>1, <1>2, CallTypes DEF CallGood, DeleteFinishes, Deletes
<1>5. QED
  BY <1>1, <1>2, <1>3, <1>4, ReturnLands

\* When no condition ends the evaluation, all are there and the true ones are current.
LEMMA NothingDecides ==
  ASSUME Decisive = {}, NEW t \in ConditionTypes
  PROVE  ~Decides(object.conditions[t])
<1>1. DOMAIN Rules = 1..2 /\ Rules[1] = "Ready" /\ Rules[2] = "Synced"
  BY DEF Rules
<1>2. ~Decides(object.conditions["Ready"])
  <2>1. 1 \notin Decisive /\ 1 \in DOMAIN Rules /\ 1..(1 - 1) = {}
    BY <1>1
  <2>2. QED
    BY <1>1, <2>1 DEF Decisive
<1>3. ~Decides(object.conditions["Synced"])
  <2>1. 2 \notin Decisive /\ 2 \in DOMAIN Rules /\ 1..(2 - 1) = {1}
    BY <1>1
  <2>2. QED
    BY <1>1, <1>2, <2>1 DEF Decisive
<1>4. QED
  BY <1>2, <1>3 DEF ConditionTypes

\* What is observed as a success.
LEMMA ObservedSuccess ==
  ASSUME NEW o \in Ops, Observation(o) = "Succeeded"
  PROVE  /\ object.op = o
         /\ \A t \in ConditionTypes : /\ object.conditions[t].status \notin {"Missing", "Terminal"}
                                      /\ object.conditions[t].status = "True"
                                           => object.conditions[t].fresh
<1>1. object.op = o /\ Evaluate(o) = "Ready"
  BY DEF Observation
<1>2. Decisive = {}
  BY <1>1 DEF Evaluate
<1>3. QED
  BY <1>1, <1>2, NothingDecides DEF Decides

\* Observe reads the object.
LEMMA ObserveGetKeeps == ASSUME XInv, NEW w \in Workers, ObserveGet(w) PROVE XInv'
<1>1. /\ worker[w].step = "get" /\ worker[w].step # "idle" /\ worker[w].kind = "Observe"
      /\ UNCHANGED <<rows, object, makers, infra, served, history>> /\ behind' = behind
  BY DEF ObserveGet, At, cluster
<1>2. worker[w] \in Calls /\ CallGood(w) /\ worker[w].op \in Ops
  BY <1>1, CallTypes DEF CallGood, CallFits
<1>3. "Failed" \in Answers /\ "Unknown" \in Answers
  BY DEF Answers
<1>4. CASE ~Exists /\ Goto(w, "absence") /\ UNCHANGED faults
  <2>1. "absence" \in Steps \ {"idle", "answer", "write", "delete"} /\ "absence" \notin Submitting
    BY DEF Steps, Submitting
  <2>2. QED
    BY <1>1, <1>4, <2>1, GotoLands
<1>5. CASE Return(w, "Failed") /\ UNCHANGED faults
  BY <1>1, <1>3, <1>5, ReturnLands
<1>6. CASE Return(w, "Unknown") /\ Fault
  BY <1>1, <1>3, <1>6, ReturnLands
<1>7. PICK answer : answer = Observation(worker[w].op)
  OBVIOUS
<1>8. PICK seen : seen = IF answer = "Succeeded" THEN object ELSE NoObject
  OBVIOUS
<1>9. PICK outputs : outputs = IF answer = "Succeeded" THEN ExtractOutputs(worker[w].op) ELSE "None"
  OBVIOUS
<1>10. CASE /\ UNCHANGED faults
            /\ worker' = [worker EXCEPT ![w].step = "answer", ![w].answer = answer,
                            ![w].handle = object.uid, ![w].seen = seen, ![w].outputs = outputs]
  <2>1. PICK c : c = [worker[w] EXCEPT !.step = "answer", !.answer = answer,
                            !.handle = object.uid, !.seen = seen, !.outputs = outputs]
    OBVIOUS
  <2>2. worker' = [worker EXCEPT ![w] = c]
    BY <1>10, <2>1
  <2>3. answer \in Answers
    BY <1>7 DEF Observation, Answers
  <2>4. outputs \in {"None", "Available", "Unavailable", "Invalid"}
    BY <1>9 DEF ExtractOutputs
  <2>5. seen \in Objects /\ object.uid \in Nat
    <3>1. NoConditions \in Conditions
      BY DEF NoConditions, Conditions, ConditionStatuses
    <3>2. QED
      BY <1>8, <3>1, StateTypes DEF NoObject, Objects
  <2>6. /\ c \in Calls /\ c.step = "answer" /\ c.kind = worker[w].kind /\ c.op = worker[w].op
        /\ c.uid = worker[w].uid /\ c.answer = answer /\ c.seen = seen /\ c.outputs = outputs
    BY <1>2, <2>1, <2>3, <2>4, <2>5 DEF Calls, Steps
  <2>7. CallFits(c) /\ c.step \notin {"write", "delete"}
    BY <1>1, <1>2, <2>6 DEF CallGood, CallFits, Submitting
  <2>8. DeleteFinishes(c)
    <3>1. capability[c.op] = "delete" => c.answer # "Succeeded"
      BY <1>7, <2>6 DEF Observation
    <3>2. QED
      BY <2>6, <3>1 DEF DeleteFinishes
  <2>9. SuccessSeen(c)
    BY <1>2, <1>7, <1>8, <2>6, ObservedSuccess DEF SuccessSeen
  <2>10. OutputsSeen(c)
    <3>1. c.outputs = "Available" => answer = "Succeeded" /\ object.outputs = worker[w].op
      BY <1>9, <2>6 DEF ExtractOutputs
    <3>2. QED
      BY <1>8, <2>6, <3>1 DEF OutputsSeen
  <2>11. QED
    BY <1>1, <1>10, <2>2, <2>6, <2>7, <2>8, <2>9, <2>10, CallLands
<1>11. QED
  BY <1>4, <1>5, <1>6, <1>7, <1>8, <1>9, <1>10 DEF ObserveGet

-----------------------------------------------------------------------------
(* The requests that write. *)

\* What the API server stores is an object of the cluster.
StoreFits(stored, made, stands, serves) ==
  /\ stored \in Objects /\ made \in Seq({"Liftr", "Other"}) /\ stands \subseteq DOMAIN made
  /\ stored.uid # 0 => stored.uid \in DOMAIN made /\ serves

\* The object changes and a call that has written it returns.
LEMMA WriteLands ==
  ASSUME XInv, Tame, NEW w \in Workers, NEW answer \in {"Accepted", "Unknown"}, Return(w, answer),
         worker[w].step # "idle", UNCHANGED rows, UNCHANGED served, behind' = Workers,
         Fault \/ UNCHANGED faults, Note(w),
         StoreFits(object', makers', infra', served'), ForeignUntouched', InfraFits'
  PROVE  XInv'
<1>1. /\ capability' = capability /\ current' = current /\ message' = message /\ accepted' = accepted
      /\ handle' = handle /\ verdict' = verdict
  BY DEF rows
<1>2. current \in Nat /\ Len(makers) \in Nat /\ faults' \in 0..MaxFaults
  BY StateTypes, FaultBound
<1>3. answer \in Answers
  BY DEF Answers
<1>4. PICK c \in Calls :
           /\ worker' = [worker EXCEPT ![w] = c] /\ c.step = "answer" /\ c.answer = answer
           /\ c.kind = worker[w].kind /\ c.op = worker[w].op /\ c.uid = 0 /\ c.outputs = "None"
           /\ c.op \in Ops /\ c.op <= current
  BY <1>3, ReturnFields
<1>5. worker \in [Workers -> Calls] /\ worker' \in [Workers -> Calls] /\ worker'[w] = c
  BY <1>4 DEF XInv, TypeOK
<1>6. TypeOK'
  <2>1. late' \in BOOLEAN /\ disturbed' \in BOOLEAN /\ served' \in BOOLEAN
    BY DEF Note, XInv, TypeOK
  <2>2. /\ object' \in Objects /\ makers' \in Seq({"Liftr", "Other"}) /\ infra' \subseteq DOMAIN makers'
        /\ object'.uid # 0 => object'.uid \in DOMAIN makers' /\ served'
    BY DEF StoreFits
  <2>3. QED
    BY <1>1, <1>2, <1>5, <2>1, <2>2 DEF XInv, TypeOK, Exists
<1>7. CallGood(w)'
  <2>1. Len(makers') \in Nat /\ 0 <= Len(makers')
    BY <1>2 DEF Tame
  <2>2. CallFits(worker[w])'
    BY <1>1, <1>4, <1>5, <2>1 DEF CallFits, Submitting
  <2>3. SuccessSeen(worker[w])' /\ OutputsSeen(worker[w])' /\ VerifiedIsOwned(w)'
    BY <1>4, <1>5 DEF SuccessSeen, OutputsSeen, VerifiedIsOwned, At
  <2>4. DeleteFinishes(worker[w])'
    BY <1>4, <1>5 DEF DeleteFinishes
  <2>5. QED
    BY <2>2, <2>3, <2>4 DEF CallGood
<1>8. ASSUME NEW v \in Workers PROVE CallGood(v)'
  <2>1. CASE v = w
    BY <1>7, <2>1
  <2>2. CASE v # w
    <3>1. worker'[v] = worker[v]
      BY <1>4, <1>5, <2>2
    <3>2. QED
      BY <3>1, CallStays
  <2>3. QED
    BY <2>1, <2>2
<1>9. QED
  BY <1>6, <1>8, ClusterLands

\* An attempt whose answer is lost before it lands.
LEMMA NothingLands ==
  ASSUME XInv, NEW w \in Workers, worker[w].step # "idle", UNCHANGED rows,
         UNCHANGED <<cluster, history>>, Fault, Return(w, "Unknown")
  PROVE  XInv'
<1>1. /\ "Unknown" \in Answers /\ behind' = behind
      /\ UNCHANGED <<rows, object, makers, infra, served, history>>
  BY DEF Answers, cluster
<1>2. QED
  BY <1>1, ReturnLands

\* The call returns, or goes on, without having written.
LEMMA RefusedLands ==
  ASSUME XInv, NEW w \in Workers, worker[w].step # "idle", UNCHANGED <<rows, cluster, history>>,
         (Return(w, "Rejected") /\ UNCHANGED faults) \/ Denied(w)
  PROVE  XInv'
<1>1. /\ "Rejected" \in Answers /\ behind' = behind
      /\ UNCHANGED <<rows, object, makers, infra, served, history>>
  BY DEF Answers, cluster
<1>2. Return(w, "Rejected") /\ (Fault \/ UNCHANGED faults)
  BY DEF Denied
<1>3. QED
  BY <1>1, <1>2, ReturnLands

\* What is stamped on an object.
LEMMA StampedFields ==
  ASSUME NEW live \in Objects, NEW o \in Ops, MaxOps \in Nat
  PROVE  /\ Stamped(o, live) \in Objects /\ Stamped(o, live).uid = live.uid
         /\ Stamped(o, live).owned /\ Stamped(o, live).op = o
<1>1. PICK conditions : conditions = [c \in ConditionTypes |-> [live.conditions[c] EXCEPT !.fresh = FALSE]]
  OBVIOUS
<1>2. conditions \in Conditions
  BY <1>1 DEF Objects, Conditions
<1>3. Stamped(o, live) = [live EXCEPT !.owned = TRUE, !.op = o, !.conditions = conditions]
  BY <1>1 DEF Stamped, Objects
<1>4. o \in 0..MaxOps
  BY DEF Ops
<1>5. QED
  BY <1>2, <1>3, <1>4 DEF Objects

\* The UID of a new object.
LEMMA NewUID ==
  ASSUME XInv, NEW maker \in {"Liftr", "Other"}, makers' = Append(makers, maker)
  PROVE  /\ makers' \in Seq({"Liftr", "Other"}) /\ Len(makers') = Len(makers) + 1
         /\ Len(makers) + 1 \in DOMAIN makers' /\ DOMAIN makers \subseteq DOMAIN makers'
         /\ Len(makers) \in Nat
<1>1. makers \in Seq({"Liftr", "Other"})
  BY DEF XInv, TypeOK
<1>2. QED
  BY <1>1

\* Nobody makes the object again for a delete, but a call without a lease.
LEMMA LeasedCall ==
  ASSUME XInv, NEW w \in Workers, Note(w), ~late', worker[w].step # "idle"
  PROVE  Owns(w) /\ worker[w].op = current /\ message.kind = worker[w].kind
  BY DEF Note, Owns

\* POST.
LEMMA PostLands ==
  ASSUME XInv, NEW w \in Workers, worker[w].step = "create", UNCHANGED rows, ~Exists, served,
         PostObject(worker[w].op), Note(w), NEW answer \in {"Accepted", "Unknown"}, Return(w, answer),
         Fault \/ UNCHANGED faults
  PROVE  XInv'
<1>1. worker[w].op \in Ops /\ capability[worker[w].op] = "create" /\ worker[w].step # "idle"
  BY CallTypes DEF CallGood, CallFits
<1>2. PICK uid : uid = Len(makers) + 1
  OBVIOUS
<1>3. /\ object' = Stamped(worker[w].op, [NoObject EXCEPT !.uid = uid])
      /\ makers' = Append(makers, "Liftr") /\ infra' = infra \cup {uid}
      /\ behind' = Workers /\ UNCHANGED served
  BY <1>2 DEF PostObject
<1>4. /\ makers' \in Seq({"Liftr", "Other"}) /\ Len(makers') = Len(makers) + 1
      /\ uid \in DOMAIN makers' /\ DOMAIN makers \subseteq DOMAIN makers' /\ Len(makers) \in Nat
      /\ uid \in Nat
  <2>1. "Liftr" \in {"Liftr", "Other"}
    OBVIOUS
  <2>2. QED
    BY <1>2, <1>3, <2>1, NewUID
<1>5. PICK fresh : fresh = [NoObject EXCEPT !.uid = uid]
  OBVIOUS
<1>6. fresh \in Objects /\ fresh.uid = uid
  <2>1. NoConditions \in Conditions
    BY DEF NoConditions, Conditions, ConditionStatuses
  <2>2. fresh = [uid |-> uid, owned |-> FALSE, op |-> 0, terminating |-> FALSE,
                 conditions |-> NoConditions, outputs |-> 0]
    BY <1>5 DEF NoObject
  <2>3. 0 \in 0..MaxOps
    BY StateTypes
  <2>4. QED
    BY <1>4, <2>1, <2>2, <2>3 DEF Objects
<1>7. object' \in Objects /\ object'.uid = uid /\ object'.owned
  BY <1>1, <1>3, <1>5, <1>6, StampedFields, StateTypes
<1>8. StoreFits(object', makers', infra', served')
  <2>1. infra \subseteq DOMAIN makers
    BY DEF XInv, TypeOK
  <2>2. QED
    BY <1>3, <1>4, <1>7, <2>1 DEF StoreFits
<1>9. Tame
  <2>1. /\ capability' = capability /\ current' = current /\ current \in Nat
        /\ (late => late') /\ disturbed' = disturbed
    BY StateTypes DEF rows, Note
  <2>2. ~late' => capability[current] # "delete"
    BY <1>1, LeasedCall
  <2>3. uid \in Nat /\ uid > Len(makers) /\ Len(makers') \in Nat /\ Len(makers') >= Len(makers)
    BY <1>2, <1>4
  <2>4. QED
    BY <1>7, <2>1, <2>2, <2>3 DEF Tame
<1>10. ForeignUntouched'
  BY <1>7 DEF ForeignUntouched
<1>11. InfraFits'
  <2>1. ~disturbed => infra = {}
    BY DEF XInv, InfraFits
  <2>2. QED
    BY <1>2, <1>3, <1>4, <1>7, <2>1 DEF InfraFits, Exists, Note
<1>12. QED
  BY <1>1, <1>3, <1>8, <1>9, <1>10, <1>11, WriteLands

\* The request creates the object, or finds that it cannot.
LEMMA CreateMissingKeeps == ASSUME XInv, NEW w \in Workers, CreateMissing(w) PROVE XInv'
<1>1. worker[w].step = "create" /\ worker[w].step # "idle" /\ UNCHANGED rows
  BY DEF CreateMissing, At
<1>2. worker[w].kind = "Dispatch"
  BY <1>1, CallTypes DEF CallGood, CallFits, Submitting
<1>3. CASE ~Exists /\ served /\ Attempt(w, PostObject(worker[w].op))
  <2>1. CASE UNCHANGED <<cluster, history>> /\ Fault /\ Return(w, "Unknown")
    BY <1>1, <2>1, NothingLands
  <2>2. CASE \E answer \in {"Accepted", "Unknown"} :
               /\ PostObject(worker[w].op) /\ Note(w) /\ Return(w, answer)
               /\ Fault \/ UNCHANGED faults
    BY <1>1, <1>3, <2>2, PostLands
  <2>3. QED
    BY <1>3, <2>1, <2>2 DEF Attempt
<1>4. CASE Return(w, "Rejected") /\ UNCHANGED <<cluster, history, faults>>
  BY <1>1, <1>4, RefusedLands
<1>5. CASE Exists /\ Goto(w, "raced") /\ UNCHANGED <<cluster, history, faults>>
  <2>1. "raced" \in Steps \ {"idle", "answer", "write", "delete"} /\ behind' = behind
    BY <1>5 DEF Steps, cluster
  <2>2. UNCHANGED <<rows, object, makers, infra, served, history>> /\ UNCHANGED faults
    BY <1>1, <1>5 DEF cluster
  <2>3. QED
    BY <1>1, <1>2, <1>5, <2>1, <2>2, GotoLands
<1>6. CASE Denied(w) /\ UNCHANGED <<cluster, history>>
  BY <1>1, <1>6, RefusedLands
<1>7. QED
  BY <1>3, <1>4, <1>5, <1>6 DEF CreateMissing

\* A write of the object as it is keeps its UID.
LEMMA SameObjectLands ==
  ASSUME XInv, NEW w \in Workers, worker[w].step # "idle", UNCHANGED rows, Exists, object.owned,
         object' \in Objects, object'.uid = object.uid, object'.owned,
         behind' = Workers, UNCHANGED <<makers, infra, served>>, Note(w),
         NEW answer \in {"Accepted", "Unknown"}, Return(w, answer), Fault \/ UNCHANGED faults
  PROVE  XInv'
<1>1. /\ capability' = capability /\ current' = current /\ current \in Nat
      /\ (late => late') /\ disturbed' = disturbed /\ Len(makers) \in Nat
  BY StateTypes DEF rows, Note
<1>2. Tame
  BY <1>1 DEF Tame
<1>3. StoreFits(object', makers', infra', served')
  BY DEF XInv, TypeOK, StoreFits, Exists
<1>4. ForeignUntouched' /\ InfraFits'
  BY <1>1 DEF ForeignUntouched, XInv, InfraFits, Exists
<1>5. QED
  BY <1>2, <1>3, <1>4, WriteLands

\* The desired state is written over the version that was verified.
LEMMA ApplyDesiredStateKeeps == ASSUME XInv, NEW w \in Workers, ApplyDesiredState(w) PROVE XInv'
<1>1. worker[w].step = "write" /\ worker[w].step # "idle" /\ UNCHANGED rows
  BY DEF ApplyDesiredState, At
<1>2. /\ worker[w].kind = "Dispatch" /\ worker[w].op \in Ops
      /\ w \notin behind /\ Exists => object.owned
  BY <1>1, CallTypes DEF CallGood, CallFits, Submitting, VerifiedIsOwned, At
<1>3. CASE VersionMatches(w) /\ Attempt(w, PutObject(worker[w].op))
  <2>1. CASE UNCHANGED <<cluster, history>> /\ Fault /\ Return(w, "Unknown")
    BY <1>1, <2>1, NothingLands
  <2>2. CASE \E answer \in {"Accepted", "Unknown"} :
               /\ PutObject(worker[w].op) /\ Note(w) /\ Return(w, answer)
               /\ Fault \/ UNCHANGED faults
    <3>1. Exists /\ object.owned
      BY <1>2, <1>3 DEF VersionMatches
    <3>2. object' = Stamped(worker[w].op, object) /\ behind' = Workers
          /\ UNCHANGED <<makers, infra, served>>
      BY <2>2 DEF PutObject
    <3>3. object' \in Objects /\ object'.uid = object.uid /\ object'.owned
      BY <1>2, <3>2, StampedFields, StateTypes
    <3>4. QED
      BY <1>1, <2>2, <3>1, <3>2, <3>3, SameObjectLands
  <2>3. QED
    BY <1>3, <2>1, <2>2 DEF Attempt
<1>4. CASE Goto(w, "reread") /\ UNCHANGED <<cluster, history, faults>>
  <2>1. "reread" \in Steps \ {"idle", "answer", "write", "delete"} /\ behind' = behind
    BY <1>4 DEF Steps, cluster
  <2>2. UNCHANGED <<rows, object, makers, infra, served, history>> /\ UNCHANGED faults
    BY <1>1, <1>4 DEF cluster
  <2>3. QED
    BY <1>1, <1>2, <1>4, <2>1, <2>2, GotoLands
<1>5. CASE Return(w, "Rejected") /\ UNCHANGED <<cluster, history, faults>>
  BY <1>1, <1>5, RefusedLands
<1>6. CASE Denied(w) /\ UNCHANGED <<cluster, history>>
  BY <1>1, <1>6, RefusedLands
<1>7. QED
  BY <1>3, <1>4, <1>5, <1>6 DEF ApplyDesiredState

\* The object whose UID was verified is deleted.
LEMMA SubmitDeleteKeeps == ASSUME XInv, NEW w \in Workers, SubmitDelete(w) PROVE XInv'
<1>1. worker[w].step = "delete" /\ worker[w].step # "idle" /\ UNCHANGED rows
  BY DEF SubmitDelete, At
<1>2. /\ worker[w].kind = "Dispatch" /\ worker[w].op \in Ops /\ capability[worker[w].op] = "delete"
      /\ Exists /\ object.uid = worker[w].uid => object.owned
      /\ ~late /\ ~disturbed => ~Exists \/ object.uid = worker[w].uid
  BY <1>1, CallTypes DEF CallGood, CallFits, Submitting, VerifiedIsOwned, At, DeleteFinishes
<1>3. CASE UIDMatches(worker[w].uid) /\ Attempt(w, DeleteObject)
  <2>1. CASE UNCHANGED <<cluster, history>> /\ Fault /\ Return(w, "Unknown")
    BY <1>1, <2>1, NothingLands
  <2>2. CASE \E answer \in {"Accepted", "Unknown"} :
               /\ DeleteObject /\ Note(w) /\ Return(w, answer)
               /\ Fault \/ UNCHANGED faults
    <3>1. Exists /\ object.owned
      BY <1>2, <1>3 DEF UIDMatches
    <3>2. object' = [object EXCEPT !.terminating = TRUE] /\ behind' = Workers
          /\ UNCHANGED <<makers, infra, served>>
      BY <2>2 DEF DeleteObject
    <3>3. object' \in Objects /\ object'.uid = object.uid /\ object'.owned
      BY <3>1, <3>2, StateTypes DEF Objects
    <3>4. QED
      BY <1>1, <2>2, <3>1, <3>2, <3>3, SameObjectLands
  <2>3. QED
    BY <1>3, <2>1, <2>2 DEF Attempt
<1>4. CASE \/ Exists /\ ~UIDMatches(worker[w].uid) /\ Goto(w, "reget") /\ UNCHANGED <<cluster, history, faults>>
           \/ ~Exists /\ Goto(w, "absence") /\ UNCHANGED <<cluster, history, faults>>
  <2>1. PICK step \in {"reget", "absence"} :
          /\ Goto(w, step) /\ (step = "absence" => ~Exists)
          /\ step = "reget" => Exists /\ ~UIDMatches(worker[w].uid)
    BY <1>4
  <2>2. step \in Steps \ {"idle", "answer", "write", "delete"} /\ behind' = behind /\ step # "create"
    BY <1>4 DEF Steps, cluster
  <2>3. UNCHANGED <<rows, object, makers, infra, served, history>> /\ UNCHANGED faults
    BY <1>1, <1>4 DEF cluster
  <2>4. step = "reget" => capability[worker[w].op] = "delete" /\ (late \/ disturbed)
    BY <1>2, <2>1 DEF UIDMatches
  <2>5. QED
    BY <1>1, <1>2, <2>1, <2>2, <2>3, <2>4, GotoLands
<1>5. CASE Denied(w) /\ UNCHANGED <<cluster, history>>
  BY <1>1, <1>5, RefusedLands
<1>6. QED
  BY <1>3, <1>4, <1>5 DEF SubmitDelete

-----------------------------------------------------------------------------
(* The cluster. *)

\* The object changes while no call moves.
LEMMA ClusterStep ==
  ASSUME XInv, Tame, UNCHANGED <<rows, worker>>, served' \in BOOLEAN, behind' \subseteq Workers,
         behind' = Workers \/ (object' = object /\ behind' = behind),
         late' = late, disturbed' \in BOOLEAN, Fault \/ UNCHANGED faults,
         StoreFits(object', makers', infra', served'), ForeignUntouched', InfraFits'
  PROVE  XInv'
<1>1. /\ capability' = capability /\ current' = current /\ message' = message /\ accepted' = accepted
      /\ handle' = handle /\ verdict' = verdict /\ worker' = worker /\ UNCHANGED rows
  BY DEF rows
<1>2. faults' \in 0..MaxFaults
  BY FaultBound
<1>3. TypeOK'
  <2>1. /\ object' \in Objects /\ makers' \in Seq({"Liftr", "Other"}) /\ infra' \subseteq DOMAIN makers'
        /\ object'.uid # 0 => object'.uid \in DOMAIN makers' /\ served'
    BY DEF StoreFits
  <2>2. QED
    BY <1>1, <1>2, <2>1 DEF XInv, TypeOK, Exists
<1>4. ASSUME NEW v \in Workers PROVE CallGood(v)'
  BY <1>1, CallStays
<1>5. QED
  BY <1>1, <1>3, <1>4, ClusterLands

\* No object at all.
LEMMA NoObjectFields == ASSUME XInv PROVE NoObject \in Objects /\ NoObject.uid = 0
<1>1. NoConditions \in Conditions
  BY DEF NoConditions, Conditions, ConditionStatuses
<1>2. QED
  BY <1>1, StateTypes DEF NoObject, Objects

\* The controllers report on the object.
LEMMA ReconcileKeeps == ASSUME XInv, NEW c \in ConditionTypes, Reconcile(c) PROVE XInv'
<1>1. /\ Exists /\ object.owned /\ behind' = Workers
      /\ UNCHANGED <<rows, makers, infra, served, worker, history, faults>>
  BY DEF Reconcile
<1>2. PICK status \in {"False", "True", "Terminal"}, outputs \in {object.outputs, object.op} :
        object' = [object EXCEPT !.conditions[c] = [status |-> status, fresh |-> TRUE],
                                 !.outputs = outputs]
  BY DEF Reconcile
<1>3. PICK conditions : conditions = [object.conditions EXCEPT ![c] = [status |-> status, fresh |-> TRUE]]
  OBVIOUS
<1>4. object \in Objects /\ outputs \in 0..MaxOps
  BY StateTypes DEF Objects
<1>5. conditions \in Conditions
  BY <1>3, <1>4 DEF Objects, Conditions, ConditionStatuses
<1>6. object' = [object EXCEPT !.conditions = conditions, !.outputs = outputs]
  BY <1>2, <1>3
<1>7. object' \in Objects /\ object'.uid = object.uid /\ object'.owned
  BY <1>1, <1>4, <1>5, <1>6 DEF Objects
<1>8. /\ capability' = capability /\ current' = current /\ current \in Nat /\ Len(makers) \in Nat
      /\ late' = late /\ disturbed' = disturbed
  BY <1>1, StateTypes DEF rows, history
<1>9. Tame
  BY <1>1, <1>7, <1>8 DEF Tame
<1>10. StoreFits(object', makers', infra', served')
  BY <1>1, <1>7 DEF XInv, TypeOK, StoreFits, Exists
<1>11. ForeignUntouched' /\ InfraFits'
  BY <1>1, <1>7, <1>8 DEF ForeignUntouched, XInv, InfraFits, Exists
<1>12. served' \in BOOLEAN /\ disturbed' \in BOOLEAN
  BY <1>1, <1>8 DEF XInv, TypeOK
<1>13. QED
  BY <1>1, <1>8, <1>9, <1>10, <1>11, <1>12, ClusterStep

\* The object goes.
LEMMA ObjectGone ==
  ASSUME XInv, object' = NoObject, infra' \subseteq infra, UNCHANGED <<rows, makers, worker>>,
         served' \in BOOLEAN, served' => served, behind' = Workers, late' = late,
         disturbed' \in BOOLEAN, disturbed => disturbed', Fault \/ UNCHANGED faults,
         ~disturbed' /\ served' => infra' = {}
  PROVE  XInv'
<1>1. /\ capability' = capability /\ current' = current /\ current \in Nat /\ Len(makers) \in Nat
      /\ makers' = makers
  BY StateTypes DEF rows
<1>2. object' \in Objects /\ object'.uid = 0
  BY NoObjectFields
<1>3. Tame
  BY <1>1, <1>2 DEF Tame
<1>4. StoreFits(object', makers', infra', served')
  BY <1>1, <1>2 DEF XInv, TypeOK, StoreFits
<1>5. ForeignUntouched' /\ InfraFits'
  BY <1>2 DEF ForeignUntouched, InfraFits, Exists
<1>6. UNCHANGED <<rows, worker>>
  OBVIOUS
<1>7. QED
  BY <1>3, <1>4, <1>5, <1>6, ClusterStep

\* The infrastructure of the object is destroyed, and the object goes.
LEMMA FinalizeKeeps == ASSUME XInv, Finalize PROVE XInv'
<1>1. ~disturbed' /\ served' => infra' = {}
  BY DEF Finalize, XInv, InfraFits, history
<1>2. /\ object' = NoObject /\ infra' \subseteq infra /\ UNCHANGED <<rows, makers, worker>>
      /\ served' = served /\ behind' = Workers /\ late' = late /\ disturbed' = disturbed
      /\ UNCHANGED faults
  BY DEF Finalize, history
<1>3. served' \in BOOLEAN /\ disturbed' \in BOOLEAN
  BY <1>2 DEF XInv, TypeOK
<1>4. QED
  BY <1>1, <1>2, <1>3, ObjectGone

\* A foreign object is taken away.
LEMMA WithdrawKeeps == ASSUME XInv, Withdraw PROVE XInv'
<1>1. disturbed
  BY DEF Withdraw, XInv, InfraFits, TypeOK
<1>2. /\ object' = NoObject /\ infra' = infra /\ UNCHANGED <<rows, makers, worker>>
      /\ served' = served /\ behind' = Workers /\ late' = late /\ disturbed' = disturbed
      /\ UNCHANGED faults
  BY DEF Withdraw, history
<1>3. served' \in BOOLEAN /\ disturbed' \in BOOLEAN
  BY <1>2 DEF XInv, TypeOK
<1>4. QED
  BY <1>1, <1>2, <1>3, ObjectGone

\* The kind goes, and the object with it.
LEMMA RetireKindKeeps == ASSUME XInv, RetireKind PROVE XInv'
<1>1. /\ object' = NoObject /\ infra' = infra /\ UNCHANGED <<rows, makers, worker>>
      /\ served' = FALSE /\ behind' = Workers /\ late' = late /\ disturbed' = disturbed
      /\ Fault
  BY DEF RetireKind, history
<1>2. served' \in BOOLEAN /\ disturbed' \in BOOLEAN
  BY <1>1 DEF XInv, TypeOK
<1>3. QED
  BY <1>1, <1>2, ObjectGone

\* The kind comes back.
LEMMA RestoreKindKeeps == ASSUME XInv, RestoreKind PROVE XInv'
<1>1. /\ UNCHANGED <<rows, worker>> /\ object' = object /\ makers' = makers /\ infra' = infra
      /\ behind' = behind /\ served' = TRUE /\ late' = late /\ disturbed' = TRUE /\ UNCHANGED faults
  BY DEF RestoreKind
<1>2. /\ capability' = capability /\ current' = current /\ current \in Nat /\ Len(makers) \in Nat
  BY <1>1, StateTypes DEF rows
<1>3. Tame
  BY <1>1, <1>2 DEF Tame
<1>4. StoreFits(object', makers', infra', served') /\ behind' \subseteq Workers
  BY <1>1 DEF XInv, TypeOK, StoreFits, Exists
<1>5. ForeignUntouched' /\ InfraFits'
  BY <1>1 DEF ForeignUntouched, XInv, InfraFits, Exists
<1>6. QED
  BY <1>1, <1>3, <1>4, <1>5, ClusterStep

\* Somebody puts another object in the place of this one, or none.
LEMMA ReplaceKeeps == ASSUME XInv, Replace PROVE XInv'
<1>1. /\ UNCHANGED <<rows, worker>> /\ infra' \subseteq infra /\ behind' = Workers
      /\ served' = served /\ late' = late /\ disturbed' = TRUE /\ Fault
  BY DEF Replace
<1>2. served' \in BOOLEAN
  BY <1>1 DEF XInv, TypeOK
<1>3. CASE object' = NoObject /\ UNCHANGED makers
  <2>1. UNCHANGED <<rows, makers, worker>>
    BY <1>1, <1>3
  <2>2. QED
    BY <1>1, <1>2, <1>3, <2>1, ObjectGone
<1>4. PICK uid : uid = Len(makers) + 1
  OBVIOUS
<1>5. ASSUME NEW copy \in BOOLEAN, copy => Exists /\ object.owned,
             object' = [(IF copy THEN object ELSE NoObject) EXCEPT !.uid = uid],
             makers' = Append(makers, "Other")
      PROVE  XInv'
  <2>1. /\ makers' \in Seq({"Liftr", "Other"}) /\ Len(makers') = Len(makers) + 1
        /\ uid \in DOMAIN makers' /\ DOMAIN makers \subseteq DOMAIN makers' /\ Len(makers) \in Nat
        /\ uid \in Nat /\ uid > Len(makers)
    <3>1. "Other" \in {"Liftr", "Other"}
      OBVIOUS
    <3>2. QED
      BY <1>4, <1>5, <3>1, NewUID
  <2>2. PICK live \in Objects : /\ object' = [live EXCEPT !.uid = uid]
                                /\ ~live.owned => live.op = 0 /\ ~live.terminating
    <3>1. CASE copy
      BY <1>5, <3>1, StateTypes
    <3>2. CASE ~copy
      BY <1>5, <3>2, NoObjectFields DEF NoObject
    <3>3. QED
      BY <3>1, <3>2
  <2>3. /\ object' \in Objects /\ object'.uid = uid
        /\ ~object'.owned => object'.op = 0 /\ ~object'.terminating
    BY <2>1, <2>2 DEF Objects
  <2>4. /\ capability' = capability /\ current' = current /\ current \in Nat
    BY <1>1, StateTypes DEF rows
  <2>5. Tame
    BY <1>1, <2>1, <2>3, <2>4 DEF Tame
  <2>6. StoreFits(object', makers', infra', served')
    <3>1. served /\ infra \subseteq DOMAIN makers
      BY DEF Replace, XInv, TypeOK
    <3>2. QED
      BY <1>1, <2>1, <2>3, <3>1 DEF StoreFits
  <2>7. ForeignUntouched' /\ InfraFits'
    BY <1>1, <2>3 DEF ForeignUntouched, InfraFits
  <2>8. QED
    BY <1>1, <1>2, <2>5, <2>6, <2>7, ClusterStep
<1>6. QED
  BY <1>3, <1>4, <1>5 DEF Replace

-----------------------------------------------------------------------------
(* The rows. *)

\* The rows change, and a call begins or ends at most.
LEMMA RowsLand ==
  ASSUME XInv, UNCHANGED <<capability, cluster, history>>, current' \in Ops, current' >= current,
         message' \in Messages, accepted' \subseteq Ops, handle' \in [Ops -> Nat],
         verdict' \in [Ops -> {"None", "Rejected", "Failed", "Succeeded"}],
         Fault \/ UNCHANGED faults, worker' \in [Workers -> Calls],
         \A v \in Workers :
           \/ worker'[v] = worker[v]
           \/ /\ worker'[v].step \in {"idle", "get"} /\ worker'[v].uid = 0
              /\ worker'[v].step = "get" => worker'[v].op \in Ops /\ worker'[v].op <= current',
         RowsFit', DeletedMeansDestroyed'
  PROVE  XInv'
<1>1. /\ object' = object /\ makers' = makers /\ infra' = infra /\ served' = served
      /\ behind' = behind /\ late' = late /\ disturbed' = disturbed /\ capability' = capability
  BY DEF cluster, history
<1>2. Len(makers) \in Nat /\ current' \in Nat /\ faults' \in 0..MaxFaults
  BY StateTypes, FaultBound DEF Ops
<1>3. Tame
  BY <1>1, <1>2 DEF Tame
<1>4. TypeOK'
  BY <1>1, <1>2 DEF XInv, TypeOK, Exists
<1>5. ASSUME NEW v \in Workers PROVE CallGood(v)'
  <2>1. CASE worker'[v] = worker[v]
    BY <1>1, <1>3, <2>1, CallStays
  <2>2. CASE /\ worker'[v].step \in {"idle", "get"} /\ worker'[v].uid = 0
             /\ worker'[v].step = "get" => worker'[v].op \in Ops /\ worker'[v].op <= current'
    <3>1. CallFits(worker[v])'
      BY <1>1, <1>2, <2>2 DEF CallFits, Submitting
    <3>2. SuccessSeen(worker[v])' /\ OutputsSeen(worker[v])' /\ VerifiedIsOwned(v)'
      BY <2>2 DEF SuccessSeen, OutputsSeen, VerifiedIsOwned, At
    <3>3. DeleteFinishes(worker[v])'
      BY <2>2 DEF DeleteFinishes
    <3>4. QED
      BY <3>1, <3>2, <3>3 DEF CallGood
  <2>3. QED
    BY <2>1, <2>2
<1>6. ForeignUntouched' /\ InfraFits'
  BY <1>1 DEF XInv, ForeignUntouched, InfraFits, Exists
<1>7. QED
  BY <1>4, <1>5, <1>6 DEF XInv

\* A delete that succeeded before has destroyed everything before.
LEMMA DestroyedStays ==
  ASSUME XInv, UNCHANGED <<capability, verdict, infra, late, disturbed>>
  PROVE  DeletedMeansDestroyed'
  BY DEF XInv, DeletedMeansDestroyed

\* A call that has ended.
LEMMA IdleCall == ASSUME XInv PROVE Idle \in Calls /\ Idle.step = "idle" /\ Idle.uid = 0
<1>1. NoObject \in Objects /\ 0 \in 0..(MaxRetries - 1) /\ 0 \in 0..MaxOps
  BY NoObjectFields, StateTypes
<1>2. QED
  BY <1>1 DEF Idle, Calls, Steps, Answers

\* A worker claims the message.
LEMMA ClaimKeeps == ASSUME XInv, NEW w \in Workers, Claim(w) PROVE XInv'
<1>1. /\ UNCHANGED <<capability, cluster, history>>
      /\ current' = current /\ accepted' = accepted /\ handle' = handle /\ verdict' = verdict
      /\ UNCHANGED faults /\ message' = [message EXCEPT !.holder = w, !.live = TRUE]
  BY DEF Claim
<1>2. PICK c : c = [Idle EXCEPT !.step = "get", !.kind = message.kind, !.op = current,
                                !.handle = handle[current]]
  OBVIOUS
<1>3. worker' = [worker EXCEPT ![w] = c]
  BY <1>2 DEF Claim
<1>4. /\ current \in Ops /\ current \in 0..MaxOps /\ current \in Nat /\ handle[current] \in Nat
      /\ message \in Messages /\ message.kind \in {"Dispatch", "Observe"}
  BY StateTypes DEF XInv, TypeOK, Messages, Ops
<1>5. c \in Calls /\ c.step = "get" /\ c.uid = 0 /\ c.op = current
  BY <1>2, <1>4, IdleCall DEF Calls, Steps
<1>6. /\ message' \in Messages /\ message'.open = message.open /\ message'.kind = message.kind
      /\ worker' \in [Workers -> Calls] /\ worker'[w] = c
      /\ \A v \in Workers : v # w => worker'[v] = worker[v]
  BY <1>1, <1>3, <1>4, <1>5 DEF XInv, TypeOK, Messages
<1>7. RowsFit'
  BY <1>1, <1>6 DEF XInv, RowsFit
<1>8. DeletedMeansDestroyed'
  BY <1>1, DestroyedStays DEF cluster, history
<1>9. /\ current' \in Ops /\ current' >= current /\ accepted' \subseteq Ops /\ handle' \in [Ops -> Nat]
      /\ verdict' \in [Ops -> {"None", "Rejected", "Failed", "Succeeded"}]
  BY <1>1, <1>4 DEF XInv, TypeOK
<1>10. ASSUME NEW v \in Workers
       PROVE  \/ worker'[v] = worker[v]
              \/ /\ worker'[v].step \in {"idle", "get"} /\ worker'[v].uid = 0
                 /\ worker'[v].step = "get" => worker'[v].op \in Ops /\ worker'[v].op <= current'
  BY <1>1, <1>4, <1>5, <1>6
<1>11. QED
  BY <1>1, <1>6, <1>7, <1>8, <1>9, <1>10, RowsLand

\* Only the message changes, and no dispatch is opened.
LEMMA MessageLands ==
  ASSUME XInv, UNCHANGED <<capability, cluster, history>>, UNCHANGED <<current, accepted, handle, verdict>>,
         UNCHANGED worker, Fault \/ UNCHANGED faults, message' \in Messages,
         message'.open /\ message'.kind = "Dispatch" => message.open /\ message.kind = "Dispatch"
  PROVE  XInv'
<1>1. RowsFit'
  BY DEF XInv, RowsFit
<1>2. DeletedMeansDestroyed'
  BY DestroyedStays DEF cluster, history
<1>3. /\ current' \in Ops /\ current' >= current /\ accepted' \subseteq Ops /\ handle' \in [Ops -> Nat]
      /\ verdict' \in [Ops -> {"None", "Rejected", "Failed", "Succeeded"}]
      /\ worker' \in [Workers -> Calls]
  BY StateTypes DEF XInv, TypeOK
<1>4. QED
  BY <1>1, <1>2, <1>3, RowsLand

\* An expired dispatch is observed.
LEMMA RecoverKeeps == ASSUME XInv, RecoverExpiredDispatch PROVE XInv'
<1>1. message' \in Messages /\ message'.kind = "Observe"
  BY DEF RecoverExpiredDispatch, NewMessage, Messages
<1>2. QED
  BY <1>1, MessageLands DEF RecoverExpiredDispatch

\* A lease runs out.
LEMMA LeaseExpiresKeeps == ASSUME XInv, LeaseExpires PROVE XInv'
<1>1. message' = [message EXCEPT !.live = FALSE] /\ message \in Messages
  BY DEF LeaseExpires, XInv, TypeOK
<1>2. message' \in Messages /\ message'.kind = message.kind /\ message'.open = message.open
  BY <1>1 DEF Messages
<1>3. QED
  BY <1>2, MessageLands DEF LeaseExpires

\* The next operation is admitted.
LEMMA NextOperationKeeps == ASSUME XInv, NextOperation PROVE XInv'
<1>1. /\ UNCHANGED <<capability, cluster, history>> /\ UNCHANGED <<accepted, handle, verdict>>
      /\ UNCHANGED worker /\ UNCHANGED faults /\ current' = current + 1 /\ current < MaxOps
      /\ capability[current] # "delete" /\ message' = NewMessage("Dispatch")
  BY DEF NextOperation
<1>2. current \in Nat /\ current' \in Nat /\ current' \in Ops /\ current' >= current
  BY <1>1, StateTypes DEF Ops
<1>3. message' \in Messages
  BY <1>1 DEF NewMessage, Messages
<1>4. \A o \in Ops : o \in Nat
  BY StateTypes DEF Ops
<1>5. accepted \subseteq Ops /\ \A o \in accepted : o <= current
  BY DEF XInv, TypeOK, RowsFit
<1>6. RowsFit'
  <2>1. \A o \in Ops : o < current' => capability[o] # "delete"
    <3>1. \A o \in Ops : o < current' => o < current \/ o = current
      BY <1>1, <1>2, <1>4
    <3>2. QED
      BY <1>1, <3>1 DEF XInv, RowsFit
  <2>2. \A o \in accepted : o <= current' /\ o # current'
    BY <1>1, <1>2, <1>4, <1>5
  <2>3. \A o \in Ops : verdict[o] # "None" => o <= current'
    BY <1>1, <1>2, <1>4 DEF XInv, RowsFit
  <2>4. QED
    BY <1>1, <2>1, <2>2, <2>3 DEF RowsFit
<1>7. DeletedMeansDestroyed'
  BY <1>1, DestroyedStays DEF cluster, history
<1>8. /\ accepted' \subseteq Ops /\ handle' \in [Ops -> Nat]
      /\ verdict' \in [Ops -> {"None", "Rejected", "Failed", "Succeeded"}]
      /\ worker' \in [Workers -> Calls]
  BY <1>1 DEF XInv, TypeOK
<1>9. QED
  BY <1>1, <1>2, <1>3, <1>6, <1>7, <1>8, RowsLand

\* The answer is recorded.
LEMMA RecordKeeps == ASSUME XInv, NEW w \in Workers, Record(w) PROVE XInv'
<1>1. PICK c : c = worker[w]
  OBVIOUS
<1>2. /\ UNCHANGED <<capability, cluster, history>> /\ UNCHANGED current /\ UNCHANGED faults
      /\ worker' = [worker EXCEPT ![w] = Idle] /\ c.step = "answer"
  BY <1>1 DEF Record, At
<1>3. c \in Calls /\ CallGood(w) /\ c.op \in Ops /\ c.op <= current
  BY <1>1, <1>2, CallTypes DEF CallGood, CallFits
<1>4. /\ worker' \in [Workers -> Calls] /\ worker'[w] = Idle
      /\ \A v \in Workers : v # w => worker'[v] = worker[v]
  BY <1>2, IdleCall DEF XInv, TypeOK
<1>5. ASSUME NEW v \in Workers
      PROVE  \/ worker'[v] = worker[v]
             \/ /\ worker'[v].step \in {"idle", "get"} /\ worker'[v].uid = 0
                /\ worker'[v].step = "get" => worker'[v].op \in Ops /\ worker'[v].op <= current'
  BY <1>4, IdleCall
<1>6. current' \in Ops /\ current' >= current /\ current \in Nat
  BY <1>2, StateTypes
<1>7. CASE UNCHANGED <<message, accepted, handle, verdict>>
  <2>1. RowsFit'
    BY <1>2, <1>7 DEF XInv, RowsFit
  <2>2. DeletedMeansDestroyed'
    BY <1>2, <1>7, DestroyedStays DEF cluster, history
  <2>3. /\ message' \in Messages /\ accepted' \subseteq Ops /\ handle' \in [Ops -> Nat]
        /\ verdict' \in [Ops -> {"None", "Rejected", "Failed", "Succeeded"}]
    BY <1>7 DEF XInv, TypeOK
  <2>4. QED
    BY <1>2, <1>4, <1>5, <1>6, <2>1, <2>2, <2>3, RowsLand
<1>8. CASE /\ Owns(w)
           /\ accepted' = IF c.answer \in {"Accepted", "Running", "Failed", "Succeeded"}
                          THEN accepted \cup {c.op} ELSE accepted
           /\ handle' = [handle EXCEPT ![c.op] = IF c.answer = "Running" THEN c.handle ELSE @]
           /\ \/ /\ c.answer \in {"Rejected", "Failed", "Succeeded"}
                 /\ message' = [message EXCEPT !.open = FALSE, !.live = FALSE]
                 /\ verdict' = [verdict EXCEPT ![c.op] = c.answer]
              \/ /\ message' = NewMessage(IF c.answer = "NotFound" /\ MayResubmit(c.op)
                                          THEN "Dispatch" ELSE "Observe")
                 /\ verdict' = verdict
  <2>1. c.op = current
    BY <1>1, <1>8 DEF Owns
  <2>2. accepted' \subseteq Ops /\ \A o \in accepted' : o <= current
    <3>1. accepted \subseteq Ops /\ \A o \in accepted : o <= current
      BY DEF XInv, TypeOK, RowsFit
    <3>2. QED
      BY <1>3, <1>8, <3>1
  <2>3. handle' \in [Ops -> Nat]
    <3>1. c.handle \in Nat /\ handle \in [Ops -> Nat]
      BY <1>3 DEF Calls, XInv, TypeOK
    <3>2. QED
      BY <1>8, <3>1
  <2>4. /\ verdict' \in [Ops -> {"None", "Rejected", "Failed", "Succeeded"}]
        /\ \A o \in Ops : o # c.op => verdict'[o] = verdict[o]
        /\ verdict'[c.op] = verdict[c.op] \/ verdict'[c.op] = c.answer
    <3>1. verdict \in [Ops -> {"None", "Rejected", "Failed", "Succeeded"}]
      BY DEF XInv, TypeOK
    <3>2. QED
      BY <1>3, <1>8, <3>1
  <2>5. message' \in Messages
    <3>1. message \in Messages
      BY DEF XInv, TypeOK
    <3>2. [message EXCEPT !.open = FALSE, !.live = FALSE] \in Messages
      BY <3>1 DEF Messages
    <3>3. NewMessage("Dispatch") \in Messages /\ NewMessage("Observe") \in Messages
      BY DEF Messages, NewMessage
    <3>4. QED
      BY <1>8, <3>2, <3>3
  <2>6. message'.open /\ message'.kind = "Dispatch" => current \notin accepted'
    <3>1. CASE message' = [message EXCEPT !.open = FALSE, !.live = FALSE]
      BY <3>1, <2>5 DEF XInv, TypeOK, Messages
    <3>2. CASE message' = NewMessage(IF c.answer = "NotFound" /\ MayResubmit(c.op)
                                     THEN "Dispatch" ELSE "Observe")
      BY <1>8, <2>1, <3>2 DEF NewMessage, MayResubmit
    <3>3. QED
      BY <1>8, <3>1, <3>2
  <2>7. RowsFit'
    <3>1. \A o \in Ops : verdict'[o] # "None" => o <= current
      BY <1>3, <2>4 DEF XInv, RowsFit
    <3>2. QED
      BY <1>2, <2>2, <2>6, <3>1 DEF XInv, RowsFit
  <2>8. DeletedMeansDestroyed'
    <3>1. SUFFICES ASSUME NEW o \in Ops, capability[o] = "delete", verdict'[o] = "Succeeded",
                          ~late, ~disturbed
                   PROVE  infra = {}
      BY <1>2 DEF DeletedMeansDestroyed, cluster, history
    <3>2. CASE verdict[o] = "Succeeded"
      BY <3>1, <3>2 DEF XInv, DeletedMeansDestroyed
    <3>3. CASE o = c.op /\ c.answer = "Succeeded"
      BY <1>1, <1>2, <1>3, <3>1, <3>3 DEF CallGood, DeleteFinishes
    <3>4. QED
      BY <2>4, <3>1, <3>2, <3>3
  <2>9. QED
    BY <1>2, <1>4, <1>5, <1>6, <2>2, <2>3, <2>4, <2>5, <2>7, <2>8, RowsLand
<1>9. QED
  BY <1>1, <1>7, <1>8 DEF Record

-----------------------------------------------------------------------------
(* Every step. *)

\* What a step of OwnObjectOnly may do with the object and with its makers.
Own ==
  /\ Exists /\ ~object.owned /\ object'.uid = object.uid => ~object'.owned
  /\ (current \in accepted /\ Len(makers') > Len(makers) /\ makers'[Len(makers')] = "Liftr")
       => late'

\* Steps that leave the objects alone.
LEMMA NothingMade == ASSUME XInv, UNCHANGED <<object, makers>> PROVE Own
  BY StateTypes DEF Own

\* Steps on an object of Liftr's, or that take the object away.
LEMMA NothingTaken ==
  ASSUME XInv, UNCHANGED makers, object.owned \/ object'.uid # object.uid
  PROVE  Own
  BY StateTypes DEF Own

\* POST does not find an object, and is not sent once the operation is accepted.
LEMMA CreateMissingOwn == ASSUME XInv, NEW w \in Workers, CreateMissing(w) PROVE Own
<1>1. worker[w].step = "create" /\ worker[w].step # "idle"
  BY DEF CreateMissing, At
<1>2. worker[w].kind = "Dispatch"
  BY <1>1, CallTypes DEF CallGood, CallFits, Submitting
<1>3. CASE UNCHANGED <<cluster, history>>
  BY <1>3, NothingMade DEF cluster
<1>4. CASE ~Exists /\ Note(w)
  <2>1. ~late' => message.open /\ message.kind = "Dispatch"
    BY <1>1, <1>2, <1>4, LeasedCall DEF Owns
  <2>2. ~late' => current \notin accepted
    BY <2>1 DEF XInv, RowsFit
  <2>3. QED
    BY <1>4, <2>2 DEF Own
<1>5. QED
  BY <1>3, <1>4 DEF CreateMissing, Attempt

\* PUT finds the version that was verified.
LEMMA ApplyDesiredStateOwn == ASSUME XInv, NEW w \in Workers, ApplyDesiredState(w) PROVE Own
<1>1. w \notin behind /\ Exists => object.owned
  BY CallTypes DEF ApplyDesiredState, CallGood, VerifiedIsOwned
<1>2. CASE UNCHANGED <<cluster, history>>
  BY <1>2, NothingMade DEF cluster
<1>3. CASE VersionMatches(w) /\ PutObject(worker[w].op)
  BY <1>1, <1>3, NothingTaken DEF VersionMatches, PutObject
<1>4. QED
  BY <1>2, <1>3 DEF ApplyDesiredState, Attempt

\* DELETE finds the UID that was verified.
LEMMA SubmitDeleteOwn == ASSUME XInv, NEW w \in Workers, SubmitDelete(w) PROVE Own
<1>1. Exists /\ object.uid = worker[w].uid => object.owned
  BY CallTypes DEF SubmitDelete, CallGood, VerifiedIsOwned
<1>2. CASE UNCHANGED <<cluster, history>>
  BY <1>2, NothingMade DEF cluster
<1>3. CASE UIDMatches(worker[w].uid) /\ DeleteObject
  BY <1>1, <1>3, NothingTaken DEF UIDMatches, DeleteObject
<1>4. QED
  BY <1>2, <1>3 DEF SubmitDelete, Attempt

\* What somebody else makes is not Liftr's.
LEMMA ReplaceOwn == ASSUME XInv, Replace PROVE Own
<1>1. CASE Exists /\ object' = NoObject /\ UNCHANGED makers
  BY <1>1, NothingTaken, NoObjectFields DEF Exists
<1>2. PICK uid : uid = Len(makers) + 1
  OBVIOUS
<1>3. ASSUME NEW live \in Objects, object' = [live EXCEPT !.uid = uid],
             makers' = Append(makers, "Other")
      PROVE  Own
  <2>1. object'.uid = uid
    BY <1>3 DEF Objects
  <2>2. uid # object.uid
    BY <1>2, StateTypes
  <2>3. makers \in Seq({"Liftr", "Other"})
    BY DEF XInv, TypeOK
  <2>4. makers'[Len(makers')] = "Other"
    BY <1>3, <2>3
  <2>5. QED
    BY <2>1, <2>2, <2>4 DEF Own
<1>4. ASSUME NEW copy \in BOOLEAN,
             object' = [(IF copy THEN object ELSE NoObject) EXCEPT !.uid = uid],
             makers' = Append(makers, "Other")
      PROVE  Own
  <2>1. PICK live : live = IF copy THEN object ELSE NoObject
    OBVIOUS
  <2>2. live \in Objects
    BY <2>1, NoObjectFields, StateTypes
  <2>3. QED
    BY <1>3, <1>4, <2>1, <2>2
<1>5. QED
  BY <1>1, <1>2, <1>4 DEF Replace

\* The requests of a call.
LEMMA CallKeeps == ASSUME XInv, NEW w \in Workers, Call(w) PROVE XInv' /\ Own
<1>1. CASE Claim(w)
  BY <1>1, ClaimKeeps, NothingMade DEF Claim, cluster
<1>2. CASE Record(w)
  BY <1>2, RecordKeeps, NothingMade DEF Record, cluster
<1>3. CASE SubmitGet(w)
  BY <1>3, SubmitGetKeeps, NothingMade DEF SubmitGet
<1>4. CASE CreateMissing(w)
  BY <1>4, CreateMissingKeeps, CreateMissingOwn
<1>5. CASE RacedCreate(w)
  BY <1>5, RacedCreateKeeps, NothingMade DEF RacedCreate
<1>6. CASE ApplyDesiredState(w)
  BY <1>6, ApplyDesiredStateKeeps, ApplyDesiredStateOwn
<1>7. CASE ReverifyAfterConflict(w)
  BY <1>7, ReverifyAfterConflictKeeps, NothingMade DEF ReverifyAfterConflict
<1>8. CASE SubmitDelete(w)
  BY <1>8, SubmitDeleteKeeps, SubmitDeleteOwn
<1>9. CASE ReplacedBeforeDelete(w)
  BY <1>9, ReplacedBeforeDeleteKeeps, NothingMade DEF ReplacedBeforeDelete, cluster
<1>10. CASE ResolveAbsence(w)
  BY <1>10, ResolveAbsenceKeeps, NothingMade DEF ResolveAbsence, cluster
<1>11. CASE ObserveGet(w)
  BY <1>11, ObserveGetKeeps, NothingMade DEF ObserveGet, cluster
<1>12. QED
  BY <1>1, <1>2, <1>3, <1>4, <1>5, <1>6, <1>7, <1>8, <1>9, <1>10, <1>11 DEF Call

\* Init establishes the invariant.
LEMMA InitGood == ASSUME Init PROVE XInv
<1>1. /\ MaxOps \in Nat /\ MaxOps > 0 /\ MaxRetries \in Nat /\ MaxRetries > 0 /\ MaxFaults \in Nat
  BY CrossplaneAssumption
<1>2. 1 \in Ops /\ 0 \in 0..MaxOps /\ 0 \in 0..(MaxRetries - 1) /\ 0 \in 0..MaxFaults
  BY <1>1 DEF Ops
<1>3. NoObject \in Objects /\ NoObject.uid = 0
  <2>1. NoConditions \in Conditions
    BY DEF NoConditions, Conditions, ConditionStatuses
  <2>2. QED
    BY <1>2, <2>1 DEF NoObject, Objects
<1>4. Idle \in Calls /\ Idle.step = "idle" /\ Idle.uid = 0
  BY <1>2, <1>3 DEF Idle, Calls, Steps, Answers
<1>5. message \in Messages /\ handle \in [Ops -> Nat] /\ infra = {} /\ accepted = {}
      /\ verdict \in [Ops -> {"None", "Rejected", "Failed", "Succeeded"}]
      /\ makers \in Seq({"Liftr", "Other"}) /\ Len(makers) = 0
  BY DEF Init, NewMessage, Messages
<1>6. TypeOK
  BY <1>2, <1>3, <1>4, <1>5 DEF Init, TypeOK, Exists
<1>7. RowsFit
  <2>1. \A o \in Ops : o \in Nat /\ ~(o < 1)
    BY <1>1 DEF Ops
  <2>2. QED
    BY <2>1 DEF Init, RowsFit
<1>8. ForeignUntouched /\ InfraFits /\ DeletedMeansDestroyed
  BY <1>3 DEF Init, ForeignUntouched, InfraFits, DeletedMeansDestroyed, Exists
<1>9. ASSUME NEW w \in Workers PROVE CallGood(w)
  <2>1. worker[w] = Idle
    BY DEF Init
  <2>2. CallFits(worker[w])
    BY <1>4, <1>5, <2>1 DEF CallFits, Submitting
  <2>3. SuccessSeen(worker[w]) /\ OutputsSeen(worker[w]) /\ VerifiedIsOwned(w) /\ DeleteFinishes(worker[w])
    BY <1>4, <2>1 DEF SuccessSeen, OutputsSeen, VerifiedIsOwned, At, DeleteFinishes
  <2>4. QED
    BY <2>2, <2>3 DEF CallGood
<1>10. QED
  BY <1>6, <1>7, <1>8, <1>9 DEF XInv

\* No step breaks the invariant, or works on an object that is not Liftr's.
LEMMA NextKeeps == ASSUME XInv, Next PROVE XInv' /\ Own
<1>1. CASE \E w \in Workers : Call(w)
  BY <1>1, CallKeeps
<1>2. CASE \E c \in ConditionTypes : Reconcile(c)
  BY <1>2, ReconcileKeeps, NothingTaken DEF Reconcile
<1>3. CASE Finalize
  BY <1>3, FinalizeKeeps, NothingTaken, NoObjectFields DEF Finalize, Exists
<1>4. CASE RecoverExpiredDispatch
  BY <1>4, RecoverKeeps, NothingMade DEF RecoverExpiredDispatch, cluster
<1>5. CASE NextOperation
  BY <1>5, NextOperationKeeps, NothingMade DEF NextOperation, cluster
<1>6. CASE LeaseExpires
  BY <1>6, LeaseExpiresKeeps, NothingMade DEF LeaseExpires, cluster
<1>7. CASE Replace
  BY <1>7, ReplaceKeeps, ReplaceOwn
<1>8. CASE Withdraw
  BY <1>8, WithdrawKeeps, NothingTaken, NoObjectFields DEF Withdraw, Exists
<1>9. CASE RetireKind
  <2>1. Exists => object'.uid # object.uid
    BY <1>9, NoObjectFields DEF RetireKind, Exists
  <2>2. makers' = makers /\ Len(makers) \in Nat
    BY <1>9, StateTypes DEF RetireKind
  <2>3. Own
    BY <2>1, <2>2 DEF Own
  <2>4. QED
    BY <1>9, <2>3, RetireKindKeeps
<1>10. CASE RestoreKind
  BY <1>10, RestoreKindKeeps, NothingMade DEF RestoreKind
<1>11. QED
  BY <1>1, <1>2, <1>3, <1>4, <1>5, <1>6, <1>7, <1>8, <1>9, <1>10 DEF Next, Controllers

\* A step that changes nothing.
LEMMA StutterKeeps == ASSUME XInv, UNCHANGED vars PROVE XInv'
<1>1. UNCHANGED <<capability, cluster, history>> /\ UNCHANGED <<current, accepted, handle, verdict>>
      /\ UNCHANGED worker /\ UNCHANGED faults /\ UNCHANGED message
  BY DEF vars, cluster, history
<1>2. message' \in Messages
  BY <1>1 DEF XInv, TypeOK
<1>3. QED
  BY <1>1, <1>2, MessageLands

\* The invariant holds in every behaviour.
LEMMA Invariance == Spec => []XInv
<1>1. Init => XInv
  BY InitGood
<1>2. XInv /\ [Next]_vars => XInv'
  BY NextKeeps, StutterKeeps
<1>3. QED
  BY <1>1, <1>2, PTL DEF Spec

-----------------------------------------------------------------------------
(* Theorems. *)

\* What settles an operation is about it and is not refuted by what was seen: a
\* success is read from an object that carries the operation, with no required
\* condition absent, false for a terminal reason, or true of an earlier generation;
\* outputs are those of its own generation; a delete that succeeded has destroyed
\* every object's infrastructure unless somebody interfered or a call without a
\* lease wrote (evaluateObject, extractOutputEvidence, resolveAbsence).  That every
\* condition is true is not claimed, and is false (SuccessIsReady).
THEOREM SettlementHolds == Spec => []SettlementNotRefuted
<1>1. XInv => SettlementNotRefuted
  <2>1. SUFFICES ASSUME XInv PROVE SettlementNotRefuted
    OBVIOUS
  <2>2. SuccessNotRefuted
    BY <2>1, CallTypes DEF SuccessNotRefuted, CallGood, SuccessSeen, At, Deletes
  <2>3. OutputsBelong
    BY <2>1, CallTypes DEF OutputsBelong, CallGood, OutputsSeen, At
  <2>4. QED
    BY <2>1, <2>2, <2>3 DEF SettlementNotRefuted, XInv
<1>2. QED
  BY <1>1, Invariance, PTL

\* No request of a call writes, deletes or takes over an object that somebody else
\* put under the name, at whichever moment it appears, and none makes the object
\* again for an operation whose acceptance is confirmed, but a call that has lost
\* its lease (submitCreateOrUpdate, submitDelete, InterpretObservation).
THEOREM OwnObjectHolds == Spec => OwnObjectOnly
<1>1. XInv /\ [Next]_vars
        => [/\ ForeignUntouched'
            /\ Exists /\ ~object.owned /\ object'.uid = object.uid => ~object'.owned
            /\ (current \in accepted /\ Len(makers') > Len(makers) /\ makers'[Len(makers')] = "Liftr")
                 => late']_vars
  BY NextKeeps DEF XInv, Own
<1>2. QED
  BY <1>1, Invariance, PTL DEF Spec, OwnObjectOnly

=============================================================================
