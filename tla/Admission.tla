----------------------------- MODULE Admission -----------------------------
(***************************************************************************)
(* Concurrent admission of creates, updates, deletes and retries           *)
(* (internal/application, application.go and references.go) against        *)
(* PostgreSQL at READ COMMITTED, next to the worker transactions that take *)
(* the same row locks.                                                     *)
(*                                                                         *)
(* A transaction takes its locks one by one in the order of the code       *)
(* (idempotency key, owner, source row, target rows in ascending order),   *)
(* checks its source when it has the source row, decides when it has all   *)
(* locks, and writes in a step of its own: other transactions run between  *)
(* any two of these steps.  Inserting a reference row takes a key share of *)
(* the target row (the foreign keys of migration 11), so the writing step  *)
(* waits while another transaction holds that row.                         *)
(*                                                                         *)
(* Authorization and the validation of specs refuse without any effect and *)
(* are left out.  Every resource type has reference slots, so every create *)
(* takes the owner lock; slots and target types are abstracted to the set  *)
(* of target resources.                                                    *)
(***************************************************************************)
EXTENDS Lifecycle, Policy

CONSTANTS
  Resources,    \* resource identifiers: naturals, for the order of locking
  OwnerOf,      \* the owner each identifier is created for
  TypeOf,       \* and its type
  Clients,      \* API requests in flight
  Workers,      \* worker transactions in flight
  Keys,         \* idempotency keys, within the scope of one principal
  NoKey,
  MaxDepth,     \* MaxDependencyDepth
  RefSets,      \* the reference sets that clients submit
  Starts,       \* reference graphs of converged resources to start from
  MaxRequests   \* bound on the number of API requests

ASSUME AdmissionAssumption ==
  /\ Resources \subseteq Nat /\ IsFiniteSet(Resources)
  /\ OwnerOf \in [Resources -> Owners] /\ TypeOf \in [Resources -> Types]
  /\ Clients \cap Workers = {}
  /\ NoKey \notin Keys
  /\ MaxDepth \in Nat \ {0}
  /\ RefSets \subseteq SUBSET Resources
  /\ \A g \in Starts : \E E \in SUBSET Resources : g \in [E -> SUBSET E]
  /\ MaxRequests \in Nat

\* What earlier admissions have left: references within one owner, and no cycle.
ASSUME StartsAssumption ==
  \A g \in Starts :
    /\ \A r \in DOMAIN g : \A t \in g[r] : OwnerOf[t] = OwnerOf[r]
    /\ \A S \in (SUBSET DOMAIN g) \ {{}} : \E r \in S : g[r] \cap S = {}

VARIABLES
  exists,   \* identifiers that have a resource row; rows are never removed
  gen,      \* desired generation
  status,   \* status row
  op,       \* latest operation
  seq,      \* how many operations the resource has had
  retried,  \* history: the latest operation was admitted as a retry
  desired,  \* desired references of each resource
  applied,  \* applied references of each resource
  record,   \* idempotency record of each key
  tx,       \* the transaction each party is running
  begun     \* number of API requests so far

rows == <<exists, gen, status, op, seq, retried, desired, applied, record>>
vars == <<exists, gen, status, op, seq, retried, desired, applied, record, tx, begun>>

Parties == Clients \cup Workers

KeyLock(k) == <<"key", k>>
OwnerLock(o) == <<"owner", o>>
RowLock(r) == <<"row", r>>
Locks == {KeyLock(k) : k \in Keys} \cup {OwnerLock(o) : o \in Owners}
           \cup {RowLock(r) : r \in Resources}

\* What a transaction is asked to do.  `source' numbers the operation that a
\* retry or a worker names, `present' says that an update submits references.
Work == [kind: {"create", "update", "delete", "retry", "gate", "complete", "fail"},
         res: Resources, expected: Nat, present: BOOLEAN, refs: SUBSET Resources, source: Nat]

Results == {"none", "admitted", "replayed", "conflict", "refused", "aborted", "done"}

NoOperation == <<0, 0>>
NoWork == [kind |-> "none", res |-> 0, expected |-> 0, present |-> FALSE, refs |-> {}, source |-> 0]
NoRecord == [work |-> NoWork, op |-> NoOperation]

Idle(result, o) ==
  [pc |-> "idle", work |-> NoWork, key |-> NoKey, targets |-> {}, held |-> {},
   result |-> result, answer |-> o]

TypeOK ==
  /\ exists \subseteq Resources
  /\ gen \in [Resources -> Nat]
  /\ status \in [Resources -> Statuses]
  /\ op \in [Resources -> Operations]
  /\ seq \in [Resources -> Nat]
  /\ retried \in [Resources -> BOOLEAN]
  /\ desired \in [Resources -> SUBSET exists]
  /\ applied \in [Resources -> SUBSET exists]
  /\ \A k \in Keys : record[k] = NoRecord \/ record[k].work \in Work
  /\ \A p \in Parties :
       /\ tx[p].pc \in {"idle", "locking", "writing"}
       /\ tx[p].pc # "idle" => tx[p].work \in Work
       /\ tx[p].key \in Keys \cup {NoKey}
       /\ tx[p].targets \subseteq Resources
       /\ tx[p].held \subseteq Locks
       /\ tx[p].result \in Results
  /\ begun \in 0..MaxRequests

-----------------------------------------------------------------------------
(* The state after a first convergence. *)

FirstOperation == RequestedOperation("create", 1)
ConvergedOperation == [FirstOperation EXCEPT !.state = "Succeeded", !.phase = "Applying"]
ConvergedStatus ==
  CompletedStatus(1, RequestedStatus(UnknownStatus, "create", 1), FirstOperation)

Init ==
  /\ \E g \in Starts :
       /\ exists = DOMAIN g
       /\ desired = [r \in Resources |-> IF r \in DOMAIN g THEN g[r] ELSE {}]
       /\ seq = [r \in Resources |-> IF r \in DOMAIN g THEN 1 ELSE 0]
  /\ applied = desired
  /\ gen = [r \in Resources |-> 1]
  /\ status = [r \in Resources |-> IF r \in exists THEN ConvergedStatus ELSE UnknownStatus]
  /\ op = [r \in Resources |-> ConvergedOperation]
  /\ retried = [r \in Resources |-> FALSE]
  /\ record = [k \in Keys |-> NoRecord]
  /\ tx = [p \in Parties |-> Idle("none", NoOperation)]
  /\ begun = 0

-----------------------------------------------------------------------------
(* Locks. *)

Holds(p, l) == l \in tx[p].held
HeldByOther(p, l) == \E q \in Parties \ {p} : Holds(q, l)

\* Mutant: a create does not serialize on its owner.
NeedsOwnerLockExceptCreate(w) ==
  \/ w.kind = "delete"
  \/ w.kind = "update" /\ w.present

\* Mutant: an update does not serialize on its owner.
NeedsOwnerLockExceptUpdate(w) == w.kind \in {"create", "delete"}

\* Every create and delete and every update that submits references mutates
\* the graph, or depends on it, and serializes on its owner.
NeedsOwnerLock(w) ==
  \/ w.kind \in {"create", "delete"}
  \/ w.kind = "update" /\ w.present

LeastMissing(p) ==
  CHOOSE r \in tx[p].targets :
    /\ ~Holds(p, RowLock(r))
    /\ \A s \in tx[p].targets : ~Holds(p, RowLock(s)) => r <= s

\* Mutant: the owner is locked after the source row.
NextLockRowFirst(p) ==
  LET t == tx[p]
      r == t.work.res
  IN  IF t.key # NoKey /\ ~Holds(p, KeyLock(t.key)) THEN KeyLock(t.key)
      ELSE IF ~Holds(p, RowLock(r)) THEN RowLock(r)
      ELSE IF NeedsOwnerLock(t.work) /\ ~Holds(p, OwnerLock(OwnerOf[r])) THEN OwnerLock(OwnerOf[r])
      ELSE RowLock(LeastMissing(p))

\* The ladder: idempotency key, owner, source row, targets in ascending order.
NextLock(p) ==
  LET t == tx[p]
      r == t.work.res
  IN  IF t.key # NoKey /\ ~Holds(p, KeyLock(t.key)) THEN KeyLock(t.key)
      ELSE IF NeedsOwnerLock(t.work) /\ ~Holds(p, OwnerLock(OwnerOf[r])) THEN OwnerLock(OwnerOf[r])
      ELSE IF ~Holds(p, RowLock(r)) THEN RowLock(r)
      ELSE RowLock(LeastMissing(p))

LocksMissing(p) ==
  LET t == tx[p]
      r == t.work.res
  IN  \/ t.key # NoKey /\ ~Holds(p, KeyLock(t.key))
      \/ NeedsOwnerLock(t.work) /\ ~Holds(p, OwnerLock(OwnerOf[r]))
      \/ \E s \in t.targets \cup {r} : ~Holds(p, RowLock(s))

-----------------------------------------------------------------------------
(* What the code reads and checks. *)

\* The stored command equals the submitted one iff fingerprint and kind do.
Recorded(p) == tx[p].key # NoKey /\ record[tx[p].key] # NoRecord

\* Mutant: the generation is checked before the replay.
MayReplayCurrent(p) ==
  /\ Recorded(p)
  /\ Holds(p, KeyLock(tx[p].key))
  /\ tx[p].work.kind \in {"update", "delete"} => gen[tx[p].work.res] = tx[p].work.expected

MayReplay(p) == Recorded(p) /\ Holds(p, KeyLock(tx[p].key))

Active(r) == ~IsTerminal(op[r])

\* HasInboundProtectiveReference: the union of desired and applied rows.
Inbound(t) == {s \in Resources : t \in desired[s] \cup applied[s]}

RetryAccepts(w) ==
  LET r == w.res IN
  /\ gen[r] = w.expected
  /\ seq[r] = w.source
  /\ op[r].state = "Failed"
  /\ op[r].target = gen[r]
  /\ RetryStateCompatible(op[r].cap, status[r].state)

\* Mutant: inbound references do not protect.
SourceAcceptsUnprotected(w) ==
  LET r == w.res IN
  CASE w.kind = "create" -> r \notin exists
    [] w.kind \in {"update", "delete"} -> gen[r] = w.expected
    [] w.kind = "retry" -> RetryAccepts(w)
    [] OTHER -> seq[r] = w.source /\ Active(r)

\* The checks made as soon as the source row is locked.
SourceAccepts(w) ==
  LET r == w.res IN
  CASE w.kind = "create" -> r \notin exists
    [] w.kind = "update" -> gen[r] = w.expected
    [] w.kind = "delete" -> gen[r] = w.expected /\ Inbound(r) = {}
    [] w.kind = "retry"  -> RetryAccepts(w)
    [] OTHER             -> seq[r] = w.source /\ Active(r)

AddedReferences(w) ==
  CASE w.kind = "create"                -> w.refs
    [] w.kind = "update" /\ w.present   -> w.refs \ desired[w.res]
    [] OTHER                            -> {}

\* The gate of a Drive locks every desired target.
TargetsToLock(w) == IF w.kind = "gate" THEN desired[w.res] ELSE AddedReferences(w)

\* Mutant: a target without a row passes.
EligibleTargetUnseen(r, t) ==
  t \in exists => status[t].state \in {"Unknown", "Pending", "Ready", "Failed"}

EligibleTarget(r, t) ==
  /\ t \in exists
  /\ OwnerOf[t] = OwnerOf[r]
  /\ status[t].state \in {"Unknown", "Pending", "Ready", "Failed"}

\* The nodes that DetectDependencyCycle visits, at most MaxDepth edges deep.
Visited(targets) ==
  LET within[d \in 1..MaxDepth] ==
        IF d = 1 THEN targets
        ELSE within[d - 1] \cup UNION {desired[n] : n \in within[d - 1]}
  IN  within[MaxDepth]

\* What a search that succeeds has established: the source is not among the
\* nodes visited and no edge leaves them.  (A search may give up at the depth
\* limit on a detour; it then refuses, which is without effect.)
ProvesAcyclic(r, targets) ==
  LET v == Visited(targets) IN
  /\ r \notin v
  /\ \A n \in v : desired[n] \subseteq v

\* The resources that count: a tombstone does not.
Counted(o) == {r \in exists : OwnerOf[r] = o /\ status[r].state # "Deleted"}

ResourceCountFacts(o, t) ==
  [owner_resources |-> Cardinality(Counted(o)),
   owner_type_resources |-> Cardinality({r \in Counted(o) : TypeOf[r] = t})]

\* Deletes and retries are not asked about.
PolicyAllows(w) ==
  LET o == OwnerOf[w.res] t == TypeOf[w.res] IN
  w.kind \in Mutations => Allows(w.kind, o, t, ResourceCountFacts(o, t))

\* The decision once all locks are held.
Admissible(w) ==
  LET r == w.res IN
  /\ \A t \in AddedReferences(w) : EligibleTarget(r, t)
  /\ ProvesAcyclic(r, AddedReferences(w))
  /\ PolicyAllows(w)
  /\ w.kind = "update" => CanRequest(gen[r] + 1, status[r], "update", FALSE, Active(r))
  /\ w.kind = "delete" => CanRequest(gen[r], status[r], "delete", FALSE, Active(r))
  /\ w.kind = "retry"  => CanRequest(gen[r], status[r], op[r].cap, TRUE, Active(r))

\* The reference rows that the transaction inserts.
InsertedReferences(w) ==
  CASE w.kind = "create"   -> w.refs
    [] w.kind = "update"   -> IF w.present THEN w.refs ELSE desired[w.res]
    [] w.kind = "complete" -> IF op[w.res].cap = "delete" THEN {} ELSE desired[w.res]
    [] OTHER               -> {}

-----------------------------------------------------------------------------
(* The writes of a transaction. *)

\* The new operation and the new status of an admitted request.
Request(r, cap, target, retry) ==
  /\ op' = [op EXCEPT ![r] = RequestedOperation(cap, target)]
  /\ status' = [status EXCEPT ![r] = RequestedStatus(@, cap, target)]
  /\ seq' = [seq EXCEPT ![r] = @ + 1]
  /\ retried' = [retried EXCEPT ![r] = retry]

WriteCreate(w) ==
  /\ exists' = exists \cup {w.res}
  /\ Request(w.res, "create", 1, FALSE)
  /\ desired' = [desired EXCEPT ![w.res] = w.refs]
  /\ UNCHANGED <<gen, applied>>

WriteUpdate(w) ==
  /\ gen' = [gen EXCEPT ![w.res] = @ + 1]
  /\ Request(w.res, "update", gen[w.res] + 1, FALSE)
  /\ desired' = [desired EXCEPT ![w.res] = InsertedReferences(w)]
  /\ UNCHANGED <<exists, applied>>

WriteDelete(w) ==
  /\ Request(w.res, "delete", gen[w.res], FALSE)
  /\ UNCHANGED <<exists, gen, desired, applied>>

WriteRetry(w) ==
  /\ Request(w.res, op[w.res].cap, op[w.res].target, TRUE)
  /\ UNCHANGED <<exists, gen, desired, applied>>

\* What the gate decides is the subject of module Dependencies; a failure at
\* the gate is a "fail" here.
WriteGate(w) == UNCHANGED <<exists, gen, status, op, seq, retried, desired, applied>>

\* Success moves the applied references; a tombstone loses both sets.
WriteComplete(w) ==
  LET r == w.res IN
  /\ op' = [op EXCEPT ![r].state = "Succeeded"]
  /\ status' = [status EXCEPT ![r] = CompletedStatus(gen[r], @, op[r])]
  /\ applied' = [applied EXCEPT ![r] = InsertedReferences(w)]
  /\ desired' = [desired EXCEPT ![r] = InsertedReferences(w)]
  /\ UNCHANGED <<exists, gen, seq, retried>>

WriteFail(w) ==
  LET r == w.res IN
  /\ op' = [op EXCEPT ![r].state = "Failed"]
  /\ status' = [status EXCEPT ![r] = FailedStatus(gen[r], @, op[r])]
  /\ UNCHANGED <<exists, gen, seq, retried, desired, applied>>

-----------------------------------------------------------------------------
(* Steps of a transaction. *)

End(p, result, o) == tx' = [tx EXCEPT ![p] = Idle(result, o)]

Start(p, w, k) ==
  /\ tx[p].pc = "idle"
  /\ tx' = [tx EXCEPT ![p] = [Idle("none", NoOperation) EXCEPT
                               !.pc = "locking", !.work = w, !.key = k]]
  /\ UNCHANGED rows

BeginCreate(p, r, k) ==
  \E refs \in RefSets :
    /\ r \notin refs
    /\ Start(p, [NoWork EXCEPT !.kind = "create", !.res = r, !.refs = refs], k)

\* The client has read a generation, perhaps an old one, before it asks.
BeginUpdate(p, r, k) ==
  /\ r \in exists
  /\ \E g \in 1..gen[r], refs \in RefSets, present \in BOOLEAN :
       /\ r \notin refs
       /\ ~present => refs = {}
       /\ Start(p, [NoWork EXCEPT !.kind = "update", !.res = r, !.expected = g,
                                  !.present = present, !.refs = refs], k)

BeginDelete(p, r, k) ==
  /\ r \in exists
  /\ \E g \in 1..gen[r] :
       Start(p, [NoWork EXCEPT !.kind = "delete", !.res = r, !.expected = g], k)

BeginRetry(p, r, k) ==
  /\ r \in exists
  /\ \E g \in 1..gen[r], n \in 1..seq[r] :
       Start(p, [NoWork EXCEPT !.kind = "retry", !.res = r, !.expected = g, !.source = n], k)

Begin(p) ==
  /\ begun < MaxRequests
  /\ begun' = begun + 1
  /\ \E r \in Resources, k \in Keys \cup {NoKey} :
       BeginCreate(p, r, k) \/ BeginUpdate(p, r, k) \/ BeginDelete(p, r, k) \/ BeginRetry(p, r, k)

\* A worker holds a message that names the active operation.
BeginWork(p) ==
  /\ \E r \in exists, kind \in {"gate", "complete", "fail"} :
       /\ Active(r)
       /\ kind = "gate" => op[r].cap # "delete"
       /\ Start(p, [NoWork EXCEPT !.kind = kind, !.res = r, !.source = seq[r]], NoKey)
  /\ UNCHANGED begun

MayLock(p, l) ==
  /\ tx[p].pc = "locking"
  /\ LocksMissing(p)
  /\ ~MayReplay(p)
  /\ l = NextLock(p)
  /\ ~HeldByOther(p, l)

\* A lock after which the code goes straight on to the next one.
TakeLock(p) ==
  /\ \E l \in Locks \ {RowLock(tx[p].work.res)} :
       MayLock(p, l) /\ tx' = [tx EXCEPT ![p].held = @ \cup {l}]
  /\ UNCHANGED <<rows, begun>>

\* GetResource or LockResourceID on the source, and the checks behind it.
LockSource(p) ==
  LET w == tx[p].work IN
  /\ MayLock(p, RowLock(w.res))
  /\ SourceAccepts(w)
  /\ tx' = [tx EXCEPT ![p].held = @ \cup {RowLock(w.res)}, ![p].targets = TargetsToLock(w)]
  /\ UNCHANGED <<rows, begun>>

RefuseAtSource(p) ==
  /\ MayLock(p, RowLock(tx[p].work.res))
  /\ ~SourceAccepts(tx[p].work)
  /\ End(p, "refused", NoOperation)
  /\ UNCHANGED <<rows, begun>>

\* replayWithin: a recorded key answers with its operation, read under the
\* row lock, or refuses a different command.
Replay(p) ==
  LET rec == record[tx[p].key] IN
  /\ tx[p].pc = "locking"
  /\ MayReplay(p)
  /\ IF rec.work = tx[p].work
     THEN /\ ~HeldByOther(p, RowLock(rec.op[1]))
          /\ End(p, "replayed", rec.op)
     ELSE End(p, "conflict", NoOperation)
  /\ UNCHANGED <<rows, begun>>

Decide(p) ==
  /\ tx[p].pc = "locking"
  /\ ~LocksMissing(p)
  /\ ~MayReplay(p)
  /\ IF Admissible(tx[p].work)
     THEN tx' = [tx EXCEPT ![p].pc = "writing"]
     ELSE End(p, "refused", NoOperation)
  /\ UNCHANGED <<rows, begun>>

MayWrite(p) ==
  /\ tx[p].pc = "writing"
  /\ \A t \in InsertedReferences(tx[p].work) : ~HeldByOther(p, RowLock(t))

\* The writes, the idempotency record and the commit of an admission.
CommitAdmission(p) ==
  LET w == tx[p].work
      o == <<w.res, seq[w.res] + 1>>
  IN
  /\ MayWrite(p)
  /\ \/ w.kind = "create" /\ WriteCreate(w)
     \/ w.kind = "update" /\ WriteUpdate(w)
     \/ w.kind = "delete" /\ WriteDelete(w)
     \/ w.kind = "retry"  /\ WriteRetry(w)
  /\ record' = IF tx[p].key = NoKey THEN record
               ELSE [record EXCEPT ![tx[p].key] = [work |-> w, op |-> o]]
  /\ End(p, "admitted", o)
  /\ UNCHANGED begun

CommitWork(p) ==
  LET w == tx[p].work IN
  /\ MayWrite(p)
  /\ \/ w.kind = "gate"     /\ WriteGate(w)
     \/ w.kind = "complete" /\ WriteComplete(w)
     \/ w.kind = "fail"     /\ WriteFail(w)
  /\ End(p, "done", NoOperation)
  /\ UNCHANGED <<record, begun>>

-----------------------------------------------------------------------------
(* Deadlocks, which PostgreSQL detects and ends by aborting a transaction.  *)
(* They do happen: a source row is locked before its target rows whatever   *)
(* their identifiers.  An update that adds T to the references of S holds S *)
(* and waits for T, while the gate of T, which references S, holds T and    *)
(* waits for S.                                                             *)

WaitsFor(p, q) ==
  /\ p # q
  /\ \/ tx[p].pc = "locking" /\ LocksMissing(p) /\ ~MayReplay(p) /\ Holds(q, NextLock(p))
     \/ tx[p].pc = "locking" /\ MayReplay(p) /\ Holds(q, RowLock(record[tx[p].key].op[1]))
     \/ tx[p].pc = "writing" /\ \E t \in InsertedReferences(tx[p].work) : Holds(q, RowLock(t))

\* A party is deadlocked if it belongs to a set that waits only for itself.
WaitCycle(D) ==
  /\ \A p \in D : \E q \in D : WaitsFor(p, q)
  /\ \A q \in D : \E p \in D : WaitsFor(p, q)

Deadlocked(p) == \E D \in SUBSET Parties : p \in D /\ WaitCycle(D)

AbortDeadlocked(p) ==
  /\ Deadlocked(p)
  /\ End(p, "aborted", NoOperation)
  /\ UNCHANGED <<rows, begun>>

Step(p) ==
  \/ TakeLock(p) \/ LockSource(p) \/ RefuseAtSource(p) \/ Replay(p) \/ Decide(p)
  \/ AbortDeadlocked(p)

Next ==
  \/ \E p \in Clients : Begin(p) \/ CommitAdmission(p)
  \/ \E p \in Workers : BeginWork(p) \/ CommitWork(p)
  \/ \E p \in Parties : Step(p)

Spec == Init /\ [][Next]_vars
-----------------------------------------------------------------------------
(* Properties. *)

\* "The proposed desired graph" never becomes cyclic (ErrDependencyCycle):
\* every set of resources has a member that references none of them.  Two
\* admissions that each add an edge must not close a cycle together.
DesiredAcyclic ==
  \A S \in (SUBSET Resources) \ {{}} : \E r \in S : desired[r] \cap S = {}

\* Concurrent creates never exceed a quota of the policy, whatever the order in
\* which they lock and commit: every rule of the document holds for every owner it
\* is about, not only the one that was looked at (Plan keeps the tightest).
QuotaHeld ==
  \A rule \in Quotas, o \in Owners :
    (rule.owner # {} => o \in rule.owner) =>
      Cardinality({r \in Counted(o) : rule.type # {} => TypeOf[r] \in rule.type}) <= rule.limit

\* A repeated request is answered with the operation the first one created,
\* also when the resource has moved on since: replay precedes the generation
\* check (replayWithin).  A different request under the key is a conflict.
RepeatIsReplayed ==
  [][\A p \in Clients :
       LET rec == record[tx[p].key] IN
       tx[p].pc # "idle" /\ tx'[p].pc = "idle" /\ Recorded(p)
         => IF rec.work = tx[p].work
            THEN tx'[p].result = "replayed" /\ tx'[p].answer = rec.op
            ELSE tx'[p].result = "conflict"]_vars

\* Deletion protection: as long as a reference to it stands, desired or
\* applied, a resource is neither deleted nor being deleted by a fresh delete
\* (HasInboundProtectiveReference against validateReferenceTargets).
FreshDeletesProtected ==
  \A t \in exists : Inbound(t) # {} /\ ~retried[t] => status[t].state \notin {"Deleting", "Deleted"}

\* The canonical ladder: "No path acquires the owner lock after a Resource
\* row".  Whoever waits for a key or an owner is never part of a deadlock, so
\* one resource's row conflicts never block an owner.
LadderNeverDeadlocks ==
  \A p \in Parties :
    tx[p].pc = "locking" /\ Deadlocked(p) /\ ~MayReplay(p) => NextLock(p)[1] = "row"

\* LockResources: rows are locked in ascending order, "so concurrent multi-target
\* lockers can never deadlock on ordering".
LockersNeverDeadlock ==
  \A D \in (SUBSET Parties) \ {{}} : WaitCycle(D) => \E p \in D : tx[p].pc # "locking"

\* ADR-0022: "Target delete blocked while ANY inbound desired/applied row stands",
\* deletes that are retried included (RetryOperation).
DeletesProtected ==
  \A t \in exists : Inbound(t) # {} => status[t].state \notin {"Deleting", "Deleted"}
=============================================================================
