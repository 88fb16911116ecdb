-------------------------- MODULE AdmissionProofs --------------------------
(***************************************************************************)
(* Proofs about Admission for any resources, owners, policy, clients,      *)
(* workers and keys.                                                       *)
(*                                                                         *)
(* The argument follows the locks.  What a transaction has read about its  *)
(* source stays true while it holds the source row; what it has read about *)
(* the graph and the number of resources of its owner stays true, or only  *)
(* gets better, while it holds the owner; what it has read about its key   *)
(* stays true while it holds the key.                                      *)
(***************************************************************************)
EXTENDS Admission, FiniteSetTheorems, WellFoundedInduction, TLAPS

\* Operations are named by their resource and their number.
Ids == (Resources \cup {0}) \X Nat

Transactions ==
  [pc: {"idle", "locking", "writing"}, work: Work \cup {NoWork}, key: Keys \cup {NoKey},
   targets: SUBSET Resources, held: SUBSET Locks, result: Results, answer: Ids]

RowsTyped ==
  /\ exists \subseteq Resources
  /\ gen \in [Resources -> Nat]
  /\ status \in [Resources -> Statuses]
  /\ op \in [Resources -> Operations]
  /\ seq \in [Resources -> Nat]
  /\ retried \in [Resources -> BOOLEAN]
  /\ desired \in [Resources -> SUBSET exists]
  /\ applied \in [Resources -> SUBSET exists]

WellTyped ==
  /\ RowsTyped
  /\ record \in [Keys -> {NoRecord} \cup [work: Work, op: Ids]]
  /\ tx \in [Parties -> Transactions]
  /\ begun \in 0..MaxRequests

\* No lock is held twice.
LocksExclude == \A p, q \in Parties : p # q => tx[p].held \cap tx[q].held = {}

\* References stay within one owner.
OneOwnerEdges ==
  \A r \in Resources : \A t \in desired[r] \cup applied[r] : OwnerOf[t] = OwnerOf[r]

\* The status represents the active operation, and only an active one.
ActiveIsShown ==
  \A r \in Resources : ActiveCapability(status[r]) = IF Active(r) THEN op[r].cap ELSE "None"

\* The ladder, from the bottom.
KeyFirst(t) == t.held # {} /\ t.key # NoKey => KeyLock(t.key) \in t.held

OwnerBeforeRows(t) ==
  \A r \in Resources :
    RowLock(r) \in t.held /\ NeedsOwnerLock(t.work) => OwnerLock(OwnerOf[t.work.res]) \in t.held

OnlyOwnLocks(t) ==
  \A l \in t.held : \/ l = KeyLock(t.key)
                    \/ l = OwnerLock(OwnerOf[t.work.res])
                    \/ \E r \in Resources : l = RowLock(r)

\* What a transaction knows once it holds its source row.
SourceKnown(t) ==
  RowLock(t.work.res) \in t.held => SourceAccepts(t.work) /\ t.targets = TargetsToLock(t.work)

\* A transaction that finds its key recorded stops at the key.
ReplaysAtOnce(t) ==
  t.key # NoKey /\ KeyLock(t.key) \in t.held /\ record[t.key] # NoRecord =>
    t.pc = "locking" /\ t.held = {KeyLock(t.key)}

\* The added references lead into a set that leads back nowhere.
ClosedAway(w) ==
  \E V \in SUBSET Resources :
    /\ AddedReferences(w) \subseteq V /\ w.res \notin V
    /\ \A n \in V : OwnerOf[n] = OwnerOf[w.res] /\ desired[n] \subseteq V

\* The resources that a quota counts for an owner.
CountedBy(rule, o) == {r \in Counted(o) : rule.type # {} => TypeOf[r] \in rule.type}

RoomLeft(w) ==
  w.kind = "create" =>
    \A rule \in Quotas : Matches(rule, OwnerOf[w.res], TypeOf[w.res]) =>
      Cardinality(CountedBy(rule, OwnerOf[w.res])) < rule.limit

\* What a transaction knows when it writes.
Decided(w) ==
  /\ \A t \in AddedReferences(w) : EligibleTarget(w.res, t)
  /\ ClosedAway(w)
  /\ RoomLeft(w)
  /\ w.kind = "update" => CanRequest(gen[w.res] + 1, status[w.res], "update", FALSE, Active(w.res))
  /\ w.kind = "delete" => CanRequest(gen[w.res], status[w.res], "delete", FALSE, Active(w.res))
  /\ w.kind = "retry"  => CanRequest(gen[w.res], status[w.res], op[w.res].cap, TRUE, Active(w.res))

AllLocksHeld(t) ==
  /\ t.key # NoKey => KeyLock(t.key) \in t.held
  /\ NeedsOwnerLock(t.work) => OwnerLock(OwnerOf[t.work.res]) \in t.held
  /\ \A s \in t.targets \cup {t.work.res} : RowLock(s) \in t.held

PartyOK(t) ==
  /\ t.pc = "idle" => t.held = {}
  /\ t.pc # "idle" => t.work \in Work /\ (t.work.kind # "create" => t.work.res \in exists)
  /\ KeyFirst(t) /\ OwnerBeforeRows(t) /\ OnlyOwnLocks(t)
  /\ SourceKnown(t) /\ ReplaysAtOnce(t)
  /\ t.pc = "writing" => AllLocksHeld(t) /\ Decided(t.work)

\* Everything but the quotas.
AInv ==
  /\ WellTyped
  /\ LocksExclude
  /\ OneOwnerEdges
  /\ ActiveIsShown
  /\ DesiredAcyclic
  /\ FreshDeletesProtected
  /\ \A p \in Parties : PartyOK(tx[p])

-----------------------------------------------------------------------------
(* Locks, transactions and requests. *)

\* Locks of different kinds, and of different things, differ.
LEMMA LockKinds ==
  /\ \A k, o : KeyLock(k) # OwnerLock(o)
  /\ \A k, r : KeyLock(k) # RowLock(r)
  /\ \A o, r : OwnerLock(o) # RowLock(r)
  /\ \A a, b : /\ KeyLock(a) = KeyLock(b) => a = b
               /\ OwnerLock(a) = OwnerLock(b) => a = b
               /\ RowLock(a) = RowLock(b) => a = b
BY DEF KeyLock, OwnerLock, RowLock

\* A transaction at its end.
LEMMA IdleFields ==
  ASSUME NEW result \in Results, NEW o \in Ids
  PROVE  LET y == Idle(result, o) IN
         /\ y \in Transactions
         /\ y.pc = "idle" /\ y.held = {} /\ y.targets = {} /\ y.key = NoKey /\ y.work = NoWork
         /\ y.result = result /\ y.answer = o
BY DEF Idle, Transactions

\* Names and requests that are none.
LEMMA Nothing ==
  /\ NoOperation \in Ids
  /\ NoWork.kind = "none"
  /\ {"none", "admitted", "replayed", "conflict", "refused", "aborted", "done"} = Results
BY DEF NoOperation, Ids, NoWork, Results

-----------------------------------------------------------------------------
(* Steps that leave the rows alone. *)

\* As long as no row changes, what a transaction knows stays true.
LEMMA SameParty ==
  ASSUME NEW t, UNCHANGED rows
  PROVE  PartyOK(t)' <=> PartyOK(t)
<1>1. /\ exists' = exists /\ gen' = gen /\ status' = status /\ op' = op /\ seq' = seq
      /\ retried' = retried /\ desired' = desired /\ applied' = applied /\ record' = record
  BY DEF rows
<1>2. SourceKnown(t)' <=> SourceKnown(t)
  BY <1>1 DEF SourceKnown, SourceAccepts, RetryAccepts, Active, Inbound, TargetsToLock, AddedReferences
<1>3. ReplaysAtOnce(t)' <=> ReplaysAtOnce(t)
  BY <1>1 DEF ReplaysAtOnce
<1>4. KeyFirst(t)' <=> KeyFirst(t)
  BY DEF KeyFirst
<1>5. OwnerBeforeRows(t)' <=> OwnerBeforeRows(t)
  BY DEF OwnerBeforeRows
<1>6. OnlyOwnLocks(t)' <=> OnlyOwnLocks(t)
  BY DEF OnlyOwnLocks
<1>7. AllLocksHeld(t)' <=> AllLocksHeld(t)
  BY DEF AllLocksHeld
<1>8. Decided(t.work)' <=> Decided(t.work)
  <2>1. ClosedAway(t.work)' <=> ClosedAway(t.work)
    BY <1>1 DEF ClosedAway, AddedReferences
  <2>2. RoomLeft(t.work)' <=> RoomLeft(t.work)
    BY <1>1 DEF RoomLeft, CountedBy, Counted
  <2>3. QED
    BY <1>1, <2>1, <2>2 DEF Decided, EligibleTarget, AddedReferences, Active
<1>9. QED
  BY <1>1, <1>2, <1>3, <1>4, <1>5, <1>6, <1>7, <1>8 DEF PartyOK

\* A step that changes one transaction and no row keeps the invariant if the
\* transaction is in order and its locks were free.
LEMMA TxStep ==
  ASSUME AInv, UNCHANGED rows, begun' \in 0..MaxRequests,
         NEW p \in Parties, NEW y \in Transactions, tx' = [tx EXCEPT ![p] = y],
         \A l \in y.held : ~HeldByOther(p, l),
         PartyOK(y)
  PROVE  AInv'
<1>1. /\ exists' = exists /\ gen' = gen /\ status' = status /\ op' = op /\ seq' = seq
      /\ retried' = retried /\ desired' = desired /\ applied' = applied /\ record' = record
  BY DEF rows
<1>2. tx \in [Parties -> Transactions]
  BY DEF AInv, WellTyped
<1>3. WellTyped'
  BY <1>1, <1>2 DEF AInv, WellTyped, RowsTyped
<1>4. tx'[p] = y /\ \A q \in Parties : q # p => tx'[q] = tx[q]
  BY <1>2
<1>5. LocksExclude'
  <2>1. \A q \in Parties : q # p => y.held \cap tx[q].held = {}
    BY DEF HeldByOther, Holds
  <2>2. QED
    BY <1>4, <2>1 DEF AInv, LocksExclude
<1>6. OneOwnerEdges' /\ ActiveIsShown' /\ DesiredAcyclic' /\ FreshDeletesProtected'
  BY <1>1 DEF AInv, OneOwnerEdges, ActiveIsShown, Active, DesiredAcyclic, FreshDeletesProtected, Inbound
<1>7. ASSUME NEW q \in Parties PROVE PartyOK(tx[q])'
  <2>1. CASE q = p
    <3>1. PartyOK(y)'
      BY SameParty
    <3>2. tx'[q] = y
      BY <1>4, <2>1
    <3>3. QED
      BY <3>1, <3>2
  <2>2. CASE q # p
    <3>1. PICK t : t = tx[q]
      OBVIOUS
    <3>2. PartyOK(t)
      BY <3>1 DEF AInv
    <3>3. PartyOK(t)'
      BY <3>2, SameParty
    <3>4. tx'[q] = t
      BY <1>4, <2>2, <3>1
    <3>5. QED
      BY <3>3, <3>4
  <2>3. QED
    BY <2>1, <2>2
<1>8. QED
  BY <1>3, <1>5, <1>6, <1>7 DEF AInv

\* A transaction may end at any time without an effect.
LEMMA EndStep ==
  ASSUME AInv, UNCHANGED <<rows, begun>>, NEW p \in Parties,
         NEW result \in Results, NEW o \in Ids, End(p, result, o)
  PROVE  AInv'
<1>1. PICK y : y = Idle(result, o)
  OBVIOUS
<1>2. /\ y \in Transactions
      /\ y.pc = "idle" /\ y.held = {}
  BY <1>1, IdleFields
<1>3. PartyOK(y)
  BY <1>2 DEF PartyOK, KeyFirst, OwnerBeforeRows, OnlyOwnLocks, SourceKnown, ReplaysAtOnce
<1>4. tx' = [tx EXCEPT ![p] = y] /\ UNCHANGED rows /\ begun' \in 0..MaxRequests
  BY <1>1 DEF End, AInv, WellTyped
<1>5. QED
  BY <1>2, <1>3, <1>4, TxStep

\* A request names a resource, and one that exists unless it is a create.
LEMMA StartStep ==
  ASSUME AInv, NEW p \in Parties, NEW w \in Work, NEW k \in Keys \cup {NoKey}, Start(p, w, k),
         begun' \in 0..MaxRequests, w.kind # "create" => w.res \in exists
  PROVE  AInv'
<1>1. PICK y : y = [Idle("none", NoOperation) EXCEPT !.pc = "locking", !.work = w, !.key = k]
  OBVIOUS
<1>2. /\ y \in Transactions
      /\ y.pc = "locking" /\ y.held = {} /\ y.work = w
  <2>1. "none" \in Results /\ NoOperation \in Ids
    BY Nothing
  <2>2. PICK z : z = Idle("none", NoOperation)
    OBVIOUS
  <2>3. z \in Transactions /\ z.held = {}
    BY <2>1, <2>2, IdleFields
  <2>4. y = [z EXCEPT !.pc = "locking", !.work = w, !.key = k]
    BY <1>1, <2>2
  <2>5. QED
    BY <2>3, <2>4 DEF Transactions
<1>3. PartyOK(y)
  BY <1>2 DEF PartyOK, KeyFirst, OwnerBeforeRows, OnlyOwnLocks, SourceKnown, ReplaysAtOnce
<1>4. tx' = [tx EXCEPT ![p] = y] /\ UNCHANGED rows
  BY <1>1 DEF Start
<1>5. QED
  BY <1>2, <1>3, <1>4, TxStep

\* A client's request (CreateResource, UpdateResource, DeleteResource,
\* RetryOperation) opens a transaction.
LEMMA BeginStep ==
  ASSUME AInv, NEW p \in Clients, Begin(p)
  PROVE  AInv'
<1>1. p \in Parties
  BY DEF Parties
<1>2. begun' \in 0..MaxRequests
  <2>1. begun \in 0..MaxRequests /\ begun < MaxRequests /\ begun' = begun + 1 /\ MaxRequests \in Nat
    BY AdmissionAssumption DEF AInv, WellTyped, Begin
  <2>2. QED
    BY ONLY <2>1
<1>3. PICK r \in Resources, k \in Keys \cup {NoKey} :
        BeginCreate(p, r, k) \/ BeginUpdate(p, r, k) \/ BeginDelete(p, r, k) \/ BeginRetry(p, r, k)
  BY DEF Begin
<1>4. gen[r] \in Nat /\ seq[r] \in Nat
  BY DEF AInv, WellTyped, RowsTyped
<1>5. \A refs \in RefSets : refs \in SUBSET Resources
  BY AdmissionAssumption
<1>6. \A n \in Nat : \A g \in 1..n : g \in Nat
  OBVIOUS
<1>7. CASE BeginCreate(p, r, k)
  <2>1. PICK refs \in RefSets :
          Start(p, [NoWork EXCEPT !.kind = "create", !.res = r, !.refs = refs], k)
    BY <1>7 DEF BeginCreate
  <2>2. PICK w : w = [NoWork EXCEPT !.kind = "create", !.res = r, !.refs = refs]
    OBVIOUS
  <2>3. w \in Work /\ w.kind = "create"
    BY <1>5, <2>2 DEF NoWork, Work
  <2>4. Start(p, w, k)
    BY <2>1, <2>2
  <2>5. QED
    BY <1>1, <1>2, <2>3, <2>4, StartStep
<1>8. CASE BeginUpdate(p, r, k)
  <2>1. PICK g \in 1..gen[r], refs \in RefSets, present \in BOOLEAN :
          Start(p, [NoWork EXCEPT !.kind = "update", !.res = r, !.expected = g,
                                  !.present = present, !.refs = refs], k)
    BY <1>8 DEF BeginUpdate
  <2>2. PICK w : w = [NoWork EXCEPT !.kind = "update", !.res = r, !.expected = g,
                                    !.present = present, !.refs = refs]
    OBVIOUS
  <2>3. w \in Work /\ w.res = r
    BY <1>4, <1>5, <1>6, <2>2 DEF NoWork, Work
  <2>4. Start(p, w, k) /\ r \in exists
    BY <1>8, <2>1, <2>2 DEF BeginUpdate
  <2>5. QED
    BY <1>1, <1>2, <2>3, <2>4, StartStep
<1>9. CASE BeginDelete(p, r, k)
  <2>1. PICK g \in 1..gen[r] : Start(p, [NoWork EXCEPT !.kind = "delete", !.res = r, !.expected = g], k)
    BY <1>9 DEF BeginDelete
  <2>2. PICK w : w = [NoWork EXCEPT !.kind = "delete", !.res = r, !.expected = g]
    OBVIOUS
  <2>3. w \in Work /\ w.res = r
    BY <1>4, <1>6, <2>2 DEF NoWork, Work
  <2>4. Start(p, w, k) /\ r \in exists
    BY <1>9, <2>1, <2>2 DEF BeginDelete
  <2>5. QED
    BY <1>1, <1>2, <2>3, <2>4, StartStep
<1>10. CASE BeginRetry(p, r, k)
  <2>1. PICK g \in 1..gen[r], n \in 1..seq[r] :
          Start(p, [NoWork EXCEPT !.kind = "retry", !.res = r, !.expected = g, !.source = n], k)
    BY <1>10 DEF BeginRetry
  <2>2. PICK w : w = [NoWork EXCEPT !.kind = "retry", !.res = r, !.expected = g, !.source = n]
    OBVIOUS
  <2>3. w \in Work /\ w.res = r
    BY <1>4, <1>6, <2>2 DEF NoWork, Work
  <2>4. Start(p, w, k) /\ r \in exists
    BY <1>10, <2>1, <2>2 DEF BeginRetry
  <2>5. QED
    BY <1>1, <1>2, <2>3, <2>4, StartStep
<1>11. QED
  BY <1>3, <1>7, <1>8, <1>9, <1>10

\* A worker's message opens a transaction.
LEMMA BeginWorkStep ==
  ASSUME AInv, NEW p \in Workers, BeginWork(p)
  PROVE  AInv'
<1>1. p \in Parties /\ begun' \in 0..MaxRequests
  BY DEF Parties, AInv, WellTyped, BeginWork
<1>2. PICK r \in exists, kind \in {"gate", "complete", "fail"} :
        Start(p, [NoWork EXCEPT !.kind = kind, !.res = r, !.source = seq[r]], NoKey)
  BY DEF BeginWork
<1>3. r \in Resources /\ seq[r] \in Nat
  BY DEF AInv, WellTyped, RowsTyped
<1>4. PICK w : w = [NoWork EXCEPT !.kind = kind, !.res = r, !.source = seq[r]]
  OBVIOUS
<1>5. w \in Work /\ w.res = r
  BY <1>3, <1>4 DEF NoWork, Work
<1>6. Start(p, w, NoKey)
  BY <1>2, <1>4
<1>7. QED
  BY <1>1, <1>5, <1>6, StartStep

\* The lock that a transaction takes next is its key, then its owner, and a
\* row only once it holds what it needs of the two.
LEMMA NextLockCases ==
  ASSUME NEW p \in Parties
  PROVE  LET t == tx[p] IN
         \/ t.key # NoKey /\ KeyLock(t.key) \notin t.held /\ NextLock(p) = KeyLock(t.key)
         \/ /\ t.key # NoKey => KeyLock(t.key) \in t.held
            /\ NeedsOwnerLock(t.work) /\ OwnerLock(OwnerOf[t.work.res]) \notin t.held
            /\ NextLock(p) = OwnerLock(OwnerOf[t.work.res])
         \/ /\ t.key # NoKey => KeyLock(t.key) \in t.held
            /\ NeedsOwnerLock(t.work) => OwnerLock(OwnerOf[t.work.res]) \in t.held
            /\ \E x : NextLock(p) = RowLock(x)
BY DEF NextLock, Holds

\* Taking the key, the owner or a target row (LockIdempotencyKey, LockOwner,
\* LockResources) keeps the order of the ladder.
LEMMA TakeLockStep ==
  ASSUME AInv, NEW p \in Parties, TakeLock(p)
  PROVE  AInv'
<1>1. PICK l \in Locks \ {RowLock(tx[p].work.res)} :
        MayLock(p, l) /\ tx' = [tx EXCEPT ![p].held = @ \cup {l}]
  BY DEF TakeLock
<1>2. tx \in [Parties -> Transactions] /\ PartyOK(tx[p]) /\ begun' \in 0..MaxRequests /\ UNCHANGED rows
  BY DEF AInv, WellTyped, TakeLock
<1>3. PICK t \in Transactions : t = tx[p]
  BY <1>2
<1>4. PICK y : y = [t EXCEPT !.held = @ \cup {l}]
  OBVIOUS
<1>5. /\ y \in Transactions
      /\ y.pc = t.pc /\ y.work = t.work /\ y.key = t.key /\ y.targets = t.targets
      /\ y.held = t.held \cup {l}
  BY <1>1, <1>4 DEF Transactions
<1>6. tx' = [tx EXCEPT ![p] = y]
  BY <1>1, <1>2, <1>3, <1>4
<1>7. /\ t.pc = "locking" /\ l = NextLock(p) /\ ~HeldByOther(p, l)
      /\ ~(t.key # NoKey /\ record[t.key] # NoRecord /\ KeyLock(t.key) \in t.held)
  BY <1>1, <1>3 DEF MayLock, MayReplay, Recorded, Holds
<1>8. PartyOK(t)
  BY <1>2, <1>3
<1>9. \/ t.key # NoKey /\ KeyLock(t.key) \notin t.held /\ l = KeyLock(t.key)
      \/ /\ t.key # NoKey => KeyLock(t.key) \in t.held
         /\ NeedsOwnerLock(t.work) /\ OwnerLock(OwnerOf[t.work.res]) \notin t.held
         /\ l = OwnerLock(OwnerOf[t.work.res])
      \/ /\ t.key # NoKey => KeyLock(t.key) \in t.held
         /\ NeedsOwnerLock(t.work) => OwnerLock(OwnerOf[t.work.res]) \in t.held
         /\ \E x : l = RowLock(x)
  BY <1>3, <1>7, NextLockCases
<1>10. KeyFirst(y)
  BY <1>5, <1>8, <1>9 DEF PartyOK, KeyFirst
<1>11. OwnerBeforeRows(y)
  BY <1>5, <1>8, <1>9, LockKinds DEF PartyOK, OwnerBeforeRows
<1>12. OnlyOwnLocks(y)
  <2>1. \A x : RowLock(x) \in Locks => x \in Resources
    BY LockKinds DEF Locks
  <2>2. QED
    BY <1>1, <1>5, <1>8, <1>9, <2>1 DEF PartyOK, OnlyOwnLocks
<1>13. SourceKnown(y)
  BY <1>1, <1>3, <1>5, <1>8 DEF PartyOK, SourceKnown
<1>14. ReplaysAtOnce(y)
  BY <1>5, <1>7, <1>8, <1>9, LockKinds DEF PartyOK, ReplaysAtOnce, KeyFirst
<1>15. PartyOK(y)
  BY <1>5, <1>7, <1>8, <1>10, <1>11, <1>12, <1>13, <1>14 DEF PartyOK
<1>16. \A x \in y.held : ~HeldByOther(p, x)
  <2>1. \A x \in t.held : ~HeldByOther(p, x)
    BY <1>3 DEF AInv, LocksExclude, HeldByOther, Holds
  <2>2. QED
    BY <1>5, <1>7, <2>1
<1>17. QED
  BY <1>2, <1>5, <1>6, <1>15, <1>16, TxStep

\* Locking the source row and the checks behind it.
LEMMA LockSourceStep ==
  ASSUME AInv, NEW p \in Parties, LockSource(p)
  PROVE  AInv'
<1>1. tx \in [Parties -> Transactions] /\ PartyOK(tx[p]) /\ begun' \in 0..MaxRequests /\ UNCHANGED rows
  BY DEF AInv, WellTyped, LockSource
<1>2. PICK t \in Transactions : t = tx[p]
  BY <1>1
<1>3. PICK l, targets : l = RowLock(t.work.res) /\ targets = TargetsToLock(t.work)
  OBVIOUS
<1>4. /\ MayLock(p, l) /\ SourceAccepts(t.work)
      /\ tx' = [tx EXCEPT ![p].held = @ \cup {l}, ![p].targets = targets]
  BY <1>2, <1>3 DEF LockSource
<1>5. PartyOK(t)
  BY <1>1, <1>2
<1>6. /\ t.pc = "locking" /\ l = NextLock(p) /\ ~HeldByOther(p, l)
      /\ ~(t.key # NoKey /\ record[t.key] # NoRecord /\ KeyLock(t.key) \in t.held)
  BY <1>2, <1>4 DEF MayLock, MayReplay, Recorded, Holds
<1>7. t.work \in Work /\ t.work.res \in Resources
  BY <1>5, <1>6 DEF PartyOK, Work
<1>8. l \in Locks
  BY <1>3, <1>7 DEF Locks
<1>9. targets \subseteq Resources
  <2>1. desired[t.work.res] \subseteq Resources
    BY <1>7 DEF AInv, WellTyped, RowsTyped
  <2>2. t.work.refs \subseteq Resources
    BY <1>7 DEF Work
  <2>3. QED
    BY <1>3, <2>1, <2>2 DEF TargetsToLock, AddedReferences
<1>10. PICK y : y = [t EXCEPT !.held = @ \cup {l}, !.targets = targets]
  OBVIOUS
<1>11. /\ y \in Transactions
       /\ y.pc = t.pc /\ y.work = t.work /\ y.key = t.key /\ y.targets = targets
       /\ y.held = t.held \cup {l}
  BY <1>8, <1>9, <1>10 DEF Transactions
<1>12. tx' = [tx EXCEPT ![p] = y]
  BY <1>1, <1>2, <1>4, <1>10
<1>13. /\ t.key # NoKey => KeyLock(t.key) \in t.held
       /\ NeedsOwnerLock(t.work) => OwnerLock(OwnerOf[t.work.res]) \in t.held
  BY <1>2, <1>3, <1>6, NextLockCases, LockKinds
<1>14. KeyFirst(y) /\ OwnerBeforeRows(y)
  BY <1>11, <1>13 DEF KeyFirst, OwnerBeforeRows
<1>15. OnlyOwnLocks(y)
  BY <1>3, <1>5, <1>7, <1>11 DEF PartyOK, OnlyOwnLocks
<1>16. SourceKnown(y)
  BY <1>3, <1>4, <1>11 DEF SourceKnown
<1>17. ReplaysAtOnce(y)
  BY <1>3, <1>6, <1>11, LockKinds DEF ReplaysAtOnce
<1>18. PartyOK(y)
  BY <1>5, <1>6, <1>11, <1>14, <1>15, <1>16, <1>17 DEF PartyOK
<1>19. \A x \in y.held : ~HeldByOther(p, x)
  <2>1. \A x \in t.held : ~HeldByOther(p, x)
    BY <1>2 DEF AInv, LocksExclude, HeldByOther, Holds
  <2>2. QED
    BY <1>6, <1>11, <2>1
<1>20. QED
  BY <1>1, <1>11, <1>12, <1>18, <1>19, TxStep

\* Refusals, replays and deadlock victims leave nothing behind.
LEMMA QuietSteps ==
  ASSUME AInv, NEW p \in Parties, RefuseAtSource(p) \/ Replay(p) \/ AbortDeadlocked(p)
  PROVE  AInv'
<1>1. UNCHANGED <<rows, begun>>
  BY DEF RefuseAtSource, Replay, AbortDeadlocked
<1>2. {"refused", "replayed", "conflict", "aborted"} \subseteq Results /\ NoOperation \in Ids
  BY Nothing
<1>3. CASE RefuseAtSource(p)
  BY <1>1, <1>2, <1>3, EndStep DEF RefuseAtSource
<1>4. CASE AbortDeadlocked(p)
  BY <1>1, <1>2, <1>4, EndStep DEF AbortDeadlocked
<1>5. CASE Replay(p)
  <2>1. record[tx[p].key].op \in Ids
    <3>1. tx[p].key # NoKey /\ record[tx[p].key] # NoRecord /\ tx[p].key \in Keys \cup {NoKey}
      BY <1>5 DEF Replay, MayReplay, Recorded, AInv, WellTyped, Transactions
    <3>2. record[tx[p].key] \in [work: Work, op: Ids]
      BY <3>1 DEF AInv, WellTyped
    <3>3. QED
      BY <3>2
  <2>2. CASE End(p, "replayed", record[tx[p].key].op)
    BY <1>1, <1>2, <2>1, <2>2, EndStep
  <2>3. CASE End(p, "conflict", NoOperation)
    BY <1>1, <1>2, <2>3, EndStep
  <2>4. QED
    BY <1>5, <2>2, <2>3 DEF Replay
<1>6. QED
  BY <1>3, <1>4, <1>5

-----------------------------------------------------------------------------
(* What a decision establishes. *)

\* Every nonempty set of naturals has a least element.
LEMMA LeastNatural ==
  ASSUME NEW T, T \subseteq Nat, T # {}
  PROVE  \E x \in T : \A y \in T : x <= y
<1> SUFFICES ASSUME NEW R, IsWellFoundedOn(R, Nat), \A x, y \in Nat : x < y => <<x, y>> \in R
             PROVE  \E x \in T : \A y \in T : x <= y
  <2> DEFINE L == OpToRel(<, Nat)
  <2>1. IsWellFoundedOn(L, Nat)
    BY NatLessThanWellFounded, Zenon
  <2>2. \A x, y \in Nat : x < y => <<x, y>> \in L
    BY DEF OpToRel
  <2> HIDE DEF L
  <2>3. QED
    BY <2>1, <2>2, Zenon
<1>1. \E x \in T : \A y \in T : ~ (<<y, x>> \in R)
  <2>1. IsWellFoundedOn(R, Nat) /\ T \subseteq Nat /\ T # {}
    OBVIOUS
  <2>2. QED
    BY ONLY <2>1, WFMin
<1>2. PICK x \in T : \A y \in T : ~ (<<y, x>> \in R)
  BY <1>1
<1>3. ASSUME NEW y \in T PROVE x <= y
  <2>1. y \in Nat /\ x \in Nat
    OBVIOUS
  <2>2. ~ (y < x)
    BY <1>2, <2>1, Zenon
  <2>3. QED
    BY <2>1, <2>2
<1>4. QED
  BY <1>3

\* The sets that a search from T along the edges has reached at each depth.
Searched(f, n, T, edges) ==
  /\ f[1] = T
  /\ \A d \in 1..n : d # 1 => f[d] = f[d - 1] \cup UNION {edges[x] : x \in f[d - 1]}
  /\ \A d \in 1..n : T \subseteq f[d]

\* A search that starts somewhere and grows is defined to any depth.
LEMMA SearchTrace ==
  ASSUME NEW X, NEW T \in SUBSET X, NEW edges \in [X -> SUBSET X], NEW n \in Nat \ {0}
  PROVE  \E f \in [1..n -> SUBSET X] : Searched(f, n, T, edges)
<1> DEFINE Traced(k) == \E f \in [1..k -> SUBSET X] : Searched(f, k, T, edges)
           S == {k \in 1..n : ~Traced(k)}
<1>1. CASE S = {}
  <2>1. n \in 1..n
    OBVIOUS
  <2> HIDE DEF Traced
  <2>2. Traced(n)
    BY <1>1, <2>1
  <2>3. QED
    BY <2>2 DEF Traced
<1>2. CASE S # {}
  <2>1. PICK k \in S : \A j \in S : k <= j
    <3>1. S \subseteq Nat
      OBVIOUS
    <3> HIDE DEF S
    <3>2. QED
      BY <1>2, <3>1, LeastNatural
  <2>2. k # 1
    <3>1. PICK f : f = [i \in 1..1 |-> T]
      OBVIOUS
    <3>2. 1..1 = {1}
      OBVIOUS
    <3>3. f \in [1..1 -> SUBSET X] /\ f[1] = T
      BY <3>1
    <3>4. Traced(1)
      BY <3>2, <3>3 DEF Searched
    <3>5. QED
      BY <3>4
  <2>3. k \in 1..n /\ k - 1 \in 1..n /\ ~(k <= k - 1)
    BY <2>2
  <2>4. ~Traced(k)
    OBVIOUS
  <2>5. Traced(k - 1)
    <3> HIDE DEF Traced
    <3>1. k - 1 \notin S
      BY <2>1, <2>3
    <3>2. QED
      BY <2>3, <3>1
  <2>6. PICK f \in [1..(k - 1) -> SUBSET X] :
          /\ f[1] = T
          /\ \A d \in 1..(k - 1) : d # 1 => f[d] = f[d - 1] \cup UNION {edges[x] : x \in f[d - 1]}
          /\ \A d \in 1..(k - 1) : T \subseteq f[d]
    BY <2>5 DEF Searched
  <2>7. PICK v : v = f[k - 1] \cup UNION {edges[x] : x \in f[k - 1]}
    OBVIOUS
  <2>8. f[k - 1] \in SUBSET X /\ T \subseteq f[k - 1]
    BY <2>3, <2>6
  <2>9. v \in SUBSET X /\ T \subseteq v
    BY <2>7, <2>8
  <2>10. PICK g : g = [d \in 1..k |-> IF d = k THEN v ELSE f[d]]
    OBVIOUS
  <2>11. \A d \in 1..k : d # k => d \in 1..(k - 1)
    BY <2>3
  <2>12. g \in [1..k -> SUBSET X]
    BY <2>9, <2>10, <2>11
  <2>13. k \in 1..k /\ 1 \in 1..k /\ k - 1 \in 1..k /\ k - 1 # k
    BY <2>2, <2>3
  <2>14. g[1] = T /\ g[k] = v /\ g[k - 1] = f[k - 1]
    BY <2>2, <2>6, <2>10, <2>13
  <2>15. ASSUME NEW d \in 1..k, d # 1 PROVE g[d] = g[d - 1] \cup UNION {edges[x] : x \in g[d - 1]}
    <3>1. CASE d = k
      BY <2>7, <2>14, <3>1
    <3>2. CASE d # k
      <4>1. d \in 1..(k - 1) /\ d - 1 \in 1..k /\ d - 1 # k
        BY <2>3, <2>11, <2>15, <3>2
      <4>2. g[d] = f[d] /\ g[d - 1] = f[d - 1]
        BY <2>10, <3>2, <4>1
      <4>3. f[d] = f[d - 1] \cup UNION {edges[x] : x \in f[d - 1]}
        BY <2>6, <2>15, <4>1
      <4>4. QED
        BY <4>2, <4>3
    <3>3. QED
      BY <3>1, <3>2
  <2>16. \A d \in 1..k : T \subseteq g[d]
    BY <2>6, <2>9, <2>10, <2>11
  <2>17. Traced(k)
    BY <2>12, <2>14, <2>15, <2>16 DEF Searched
  <2>18. QED
    BY <2>4, <2>17
<1>3. QED
  BY <1>1, <1>2

\* The search of DetectDependencyCycle visits the nodes it starts from.
LEMMA VisitedContains ==
  ASSUME RowsTyped, NEW T \in SUBSET Resources
  PROVE  T \subseteq Visited(T)
<1>1. desired \in [Resources -> SUBSET Resources]
  BY DEF RowsTyped
<1>2. MaxDepth \in Nat \ {0}
  BY AdmissionAssumption
<1>3. PICK f \in [1..MaxDepth -> SUBSET Resources] :
        /\ f[1] = T
        /\ \A d \in 1..MaxDepth : d # 1 => f[d] = f[d - 1] \cup UNION {desired[x] : x \in f[d - 1]}
        /\ \A d \in 1..MaxDepth : T \subseteq f[d]
  <2>1. T \in SUBSET Resources
    OBVIOUS
  <2>2. PICK f \in [1..MaxDepth -> SUBSET Resources] : Searched(f, MaxDepth, T, desired)
    BY ONLY <1>1, <1>2, <2>1, SearchTrace
  <2>3. QED
    BY <2>2 DEF Searched
<1> DEFINE Search(h) == h = [d \in 1..MaxDepth |->
              IF d = 1 THEN T ELSE h[d - 1] \cup UNION {desired[n] : n \in h[d - 1]}]
           within == CHOOSE h : Search(h)
<1>4. Search(f)
  <2>1. DOMAIN f = 1..MaxDepth /\ f = [d \in 1..MaxDepth |-> f[d]]
    OBVIOUS
  <2>2. \A d \in 1..MaxDepth : f[d] = IF d = 1 THEN T ELSE f[d - 1] \cup UNION {desired[n] : n \in f[d - 1]}
    BY <1>3
  <2>3. QED
    BY <2>1, <2>2
<1>5. Visited(T) = within[MaxDepth]
  BY DEF Visited
<1>6. Search(within)
  <2> HIDE DEF Search
  <2>1. QED
    BY <1>4, Zenon
<1>7. DOMAIN within = 1..MaxDepth
      /\ \A d \in 1..MaxDepth : within[d] = IF d = 1 THEN T ELSE within[d - 1] \cup UNION {desired[n] : n \in within[d - 1]}
  BY <1>6
<1> HIDE DEF within, Search
<1>8. \A d \in 1..MaxDepth : T \subseteq within[d]
  <2> DEFINE B == {d \in 1..MaxDepth : ~(T \subseteq within[d])}
  <2>1. SUFFICES ASSUME B # {} PROVE FALSE
    OBVIOUS
  <2>2. PICK k \in B : \A j \in B : k <= j
    <3>1. B \subseteq Nat
      OBVIOUS
    <3> HIDE DEF B
    <3>2. QED
      BY <2>1, <3>1, LeastNatural
  <2>3. k # 1
    BY <1>7
  <2>4. k - 1 \in 1..MaxDepth /\ ~(k <= k - 1)
    BY <1>2, <2>3
  <2>5. T \subseteq within[k - 1]
    BY <2>2, <2>4
  <2>6. within[k] = within[k - 1] \cup UNION {desired[n] : n \in within[k - 1]}
    BY <1>7, <2>3
  <2>7. QED
    BY <2>5, <2>6
<1>9. MaxDepth \in 1..MaxDepth
  BY <1>2
<1>10. QED
  BY <1>5, <1>8, <1>9

\* A search that found no cycle (DetectDependencyCycle) leaves the added
\* references in a set of one owner's resources that no edge leaves.
LEMMA SearchCloses ==
  ASSUME AInv, NEW w \in Work, Admissible(w)
  PROVE  ClosedAway(w)
<1> DEFINE V == Visited(AddedReferences(w)) \cap {n \in Resources : OwnerOf[n] = OwnerOf[w.res]}
<1>1. RowsTyped /\ w.res \in Resources
  BY DEF AInv, WellTyped, Work
<1>2. AddedReferences(w) \in SUBSET Resources
  BY DEF AddedReferences, Work
<1>3. AddedReferences(w) \subseteq Visited(AddedReferences(w))
  BY <1>1, <1>2, VisitedContains
<1>4. \A t \in AddedReferences(w) : OwnerOf[t] = OwnerOf[w.res]
  BY DEF Admissible, EligibleTarget
<1>5. /\ w.res \notin Visited(AddedReferences(w))
      /\ \A n \in Visited(AddedReferences(w)) : desired[n] \subseteq Visited(AddedReferences(w))
  BY DEF Admissible, ProvesAcyclic
<1>6. \A n \in Resources : desired[n] \subseteq Resources /\ \A t \in desired[n] : OwnerOf[t] = OwnerOf[n]
  BY <1>1 DEF RowsTyped, AInv, OneOwnerEdges
<1>7. V \in SUBSET Resources /\ AddedReferences(w) \subseteq V /\ w.res \notin V
  BY <1>2, <1>3, <1>4, <1>5
<1>8. \A n \in V : OwnerOf[n] = OwnerOf[w.res] /\ desired[n] \subseteq V
  BY <1>5, <1>6
<1> HIDE DEF V
<1>9. QED
  BY <1>7, <1>8 DEF ClosedAway

\* Finite sets of resources: fewer members, and one more.
LEMMA ResourceSets ==
  /\ \A A \in SUBSET Resources : IsFiniteSet(A) /\ Cardinality(A) \in Nat
  /\ \A A \in SUBSET Resources : \A B \in SUBSET A : Cardinality(B) <= Cardinality(A)
  /\ \A A \in SUBSET Resources : \A x \in Resources : Cardinality(A \cup {x}) <= Cardinality(A) + 1
<1>1. IsFiniteSet(Resources)
  BY AdmissionAssumption
<1>2. ASSUME NEW A \in SUBSET Resources PROVE IsFiniteSet(A) /\ Cardinality(A) \in Nat
  BY <1>1, FS_Subset, FS_CardinalityType
<1>3. ASSUME NEW A \in SUBSET Resources, NEW B \in SUBSET A PROVE Cardinality(B) <= Cardinality(A)
  <2>1. IsFiniteSet(A)
    BY <1>2
  <2>2. QED
    BY <2>1, FS_Subset
<1>4. ASSUME NEW A \in SUBSET Resources, NEW x \in Resources
      PROVE  Cardinality(A \cup {x}) <= Cardinality(A) + 1
  <2>1. IsFiniteSet(A) /\ Cardinality(A) \in Nat
    BY <1>2
  <2>2. Cardinality(A \cup {x}) = IF x \in A THEN Cardinality(A) ELSE Cardinality(A) + 1
    BY <2>1, FS_AddElement
  <2>3. QED
    BY <2>1, <2>2
<1>5. QED
  BY <1>2, <1>3, <1>4

\* A rule selects at most one type.
LEMMA OneType ==
  ASSUME NEW rule \in Rules, NEW x \in rule.type, NEW y \in rule.type
  PROVE  x = y
<1>1. rule.type \subseteq Types /\ Cardinality(rule.type) <= 1 /\ IsFiniteSet(Types)
  BY PolicyAssumption DEF ValidPolicy, ValidRule
<1>2. IsFiniteSet(rule.type)
  BY <1>1, FS_Subset
<1>3. Cardinality({x}) = 1 /\ IsFiniteSet({x})
  BY FS_Singleton
<1>4. Cardinality({x} \cup {y}) = IF y \in {x} THEN 1 ELSE 1 + 1
  BY <1>3, FS_AddElement
<1>5. {x} \cup {y} \in SUBSET rule.type
  OBVIOUS
<1>6. Cardinality({x} \cup {y}) <= Cardinality(rule.type)
  BY <1>2, <1>5, FS_Subset
<1>7. Cardinality(rule.type) \in Nat
  BY <1>2, FS_CardinalityType
<1>8. QED
  BY <1>1, <1>4, <1>6, <1>7

\* A create that the plan allows (Allows, with the tightest limit of each
\* dimension) leaves room under every quota that it meets.
LEMMA PolicyLeavesRoom ==
  ASSUME NEW w \in Work, RowsTyped, PolicyAllows(w)
  PROVE  RoomLeft(w)
<1> SUFFICES ASSUME w.kind = "create", NEW rule \in Quotas,
                    Matches(rule, OwnerOf[w.res], TypeOf[w.res])
             PROVE  Cardinality(CountedBy(rule, OwnerOf[w.res])) < rule.limit
  BY DEF RoomLeft
<1>1. PICK o, t : o = OwnerOf[w.res] /\ t = TypeOf[w.res]
  OBVIOUS
<1>2. Matches(rule, o, t)
  BY <1>1
<1>3. Allows("create", o, t, ResourceCountFacts(o, t))
  BY <1>1 DEF PolicyAllows, Mutations
<1> DEFINE limits(d) == {q.limit : q \in {q \in Quotas : Matches(q, o, t) /\ Dimension(q) = d}}
           d == Dimension(rule)
           c == [dimension |-> d, limit |-> Tightest(limits(d))]
<1>4. c \in CountConstraints(o, t)
  BY <1>2 DEF CountConstraints
<1>5. ResourceCountFacts(o, t)[d] < Tightest(limits(d))
  <2>1. \A e \in CountConstraints(o, t) : ResourceCountFacts(o, t)[e.dimension] < e.limit
    BY <1>3 DEF Allows
  <2>2. c.dimension = d /\ c.limit = Tightest(limits(d))
    OBVIOUS
  <2> HIDE DEF c, d, limits
  <2>3. QED
    BY <1>4, <2>1, <2>2
<1>6. Tightest(limits(d)) \in Nat /\ rule.limit \in Nat /\ Tightest(limits(d)) <= rule.limit
  <2>1. \A q \in Quotas : q.limit \in Nat
    BY PolicyAssumption DEF ValidPolicy, ValidRule, Quotas
  <2>2. limits(d) \subseteq Nat /\ rule.limit \in limits(d)
    BY <1>2, <2>1
  <2> DEFINE L == limits(d)
  <2> HIDE DEF d, limits
  <2>3. L \subseteq Nat /\ rule.limit \in L
    BY <2>2
  <2> HIDE DEF L
  <2>4. \E x \in L : \A y \in L : x <= y
    BY <2>3, LeastNatural
  <2>5. Min(L) \in L /\ \A y \in L : Min(L) <= y
    BY <2>4, Zenon DEF Min
  <2>6. Tightest(limits(d)) = Min(L)
    BY DEF Tightest, L
  <2>7. QED
    BY <2>3, <2>5, <2>6
<1>7. ResourceCountFacts(o, t)[d] = Cardinality(CountedBy(rule, o))
  <2>1. CASE rule.type = {}
    <3>1. CountedBy(rule, o) = Counted(o)
      BY <2>1 DEF CountedBy
    <3>2. d = "owner_resources"
      BY <2>1 DEF Dimension
    <3>3. QED
      BY <3>1, <3>2 DEF ResourceCountFacts
  <2>2. CASE rule.type # {}
    <3>1. rule \in Rules /\ t \in rule.type
      BY <1>2, <2>2 DEF Quotas, Matches
    <3>2. \A x : x \in rule.type <=> x = t
      BY <3>1, OneType
    <3>3. CountedBy(rule, o) = {r \in Counted(o) : TypeOf[r] = t}
      BY <2>2, <3>2 DEF CountedBy
    <3>4. d = "owner_type_resources"
      BY <2>2 DEF Dimension
    <3>5. QED
      BY <3>3, <3>4 DEF ResourceCountFacts
  <2>3. QED
    BY <2>1, <2>2
<1>8. Cardinality(CountedBy(rule, o)) \in Nat
  BY ResourceSets DEF CountedBy, Counted, RowsTyped
<1> HIDE DEF c, d, limits
<1>9. Cardinality(CountedBy(rule, o)) < rule.limit
  <2>1. PICK n, m : n = Cardinality(CountedBy(rule, o)) /\ m = Tightest(limits(d))
    OBVIOUS
  <2>2. n \in Nat /\ m \in Nat /\ n < m /\ m <= rule.limit /\ rule.limit \in Nat
    BY <1>5, <1>6, <1>7, <1>8, <2>1
  <2>3. n < rule.limit
    BY ONLY <2>2
  <2>4. QED
    BY <2>1, <2>3
<1>10. QED
  BY <1>1, <1>9

\* The decision under all locks.
LEMMA DecideStep ==
  ASSUME AInv, NEW p \in Parties, Decide(p)
  PROVE  AInv'
<1>1. /\ tx \in [Parties -> Transactions] /\ PartyOK(tx[p]) /\ begun' \in 0..MaxRequests
      /\ UNCHANGED rows /\ UNCHANGED <<rows, begun>>
  BY DEF AInv, WellTyped, Decide
<1>2. CASE End(p, "refused", NoOperation)
  BY <1>1, <1>2, Nothing, EndStep
<1>3. CASE Admissible(tx[p].work) /\ tx' = [tx EXCEPT ![p].pc = "writing"]
  <2>1. PICK t \in Transactions : t = tx[p]
    BY <1>1
  <2>2. PICK y : y = [t EXCEPT !.pc = "writing"]
    OBVIOUS
  <2>3. /\ y \in Transactions
        /\ y.pc = "writing" /\ y.work = t.work /\ y.key = t.key /\ y.targets = t.targets
        /\ y.held = t.held
    BY <2>2 DEF Transactions
  <2>4. tx' = [tx EXCEPT ![p] = y]
    BY <1>1, <1>3, <2>1, <2>2
  <2>5. PartyOK(t)
    BY <1>1, <2>1
  <2>6. /\ t.pc = "locking"
        /\ ~(t.key # NoKey /\ record[t.key] # NoRecord /\ KeyLock(t.key) \in t.held)
    BY <2>1 DEF Decide, MayReplay, Recorded, Holds
  <2>7. AllLocksHeld(y)
    BY <2>1, <2>3 DEF Decide, LocksMissing, Holds, AllLocksHeld
  <2>8. t.work \in Work /\ Admissible(t.work)
    BY <1>3, <2>1, <2>5, <2>6 DEF PartyOK
  <2>9. ClosedAway(t.work) /\ RoomLeft(t.work)
    BY <2>8, SearchCloses, PolicyLeavesRoom DEF AInv, WellTyped, Admissible
  <2>10. Decided(t.work)
    BY <2>8, <2>9 DEF Admissible, Decided
  <2>11. KeyFirst(y) /\ OwnerBeforeRows(y) /\ OnlyOwnLocks(y) /\ SourceKnown(y)
    BY <2>3, <2>5 DEF PartyOK, KeyFirst, OwnerBeforeRows, OnlyOwnLocks, SourceKnown
  <2>12. ReplaysAtOnce(y)
    BY <2>3, <2>6 DEF ReplaysAtOnce
  <2>13. PartyOK(y)
    BY <2>3, <2>5, <2>6, <2>7, <2>10, <2>11, <2>12 DEF PartyOK
  <2>14. \A x \in y.held : ~HeldByOther(p, x)
    BY <2>1, <2>3 DEF AInv, LocksExclude, HeldByOther, Holds
  <2>15. QED
    BY <1>1, <2>3, <2>4, <2>13, <2>14, TxStep
<1>4. QED
  BY <1>2, <1>3 DEF Decide

-----------------------------------------------------------------------------
(* What a commit writes. *)

\* The effect of the writes of a request, as far as the invariant can tell.
Written(w) ==
  /\ RowsTyped'
  /\ exists \subseteq exists' /\ exists' \subseteq exists \cup {w.res}
  /\ \A s \in Resources : s # w.res =>
       /\ gen'[s] = gen[s] /\ status'[s] = status[s] /\ op'[s] = op[s] /\ seq'[s] = seq[s]
       /\ retried'[s] = retried[s] /\ desired'[s] = desired[s] /\ applied'[s] = applied[s]
  /\ desired'[w.res] \subseteq desired[w.res] \cup AddedReferences(w)
  /\ applied'[w.res] \subseteq desired[w.res] \cup applied[w.res]
  /\ w.kind # "create" => exists' = exists /\ status[w.res].state # "Deleted"
  /\ ActiveCapability(status'[w.res]) =
       IF ~IsTerminal(op'[w.res]) THEN op'[w.res].cap ELSE "None"
  /\ status'[w.res].state \in {"Deleting", "Deleted"} => retried'[w.res] \/ Inbound(w.res) = {}

\* A request writes a status that represents the requested operation.
LEMMA RequestedFields ==
  ASSUME NEW st \in Statuses, NEW cap \in Capabilities, NEW target \in Nat
  PROVE  LET r == RequestedStatus(st, cap, target) IN
         /\ r \in Statuses
         /\ r.state = RequestedState(st, cap)
         /\ r.reconciling = "True"
<1>1. EnsurePreviouslyReady(st) \in Statuses
  BY DEF EnsurePreviouslyReady, Statuses, ConditionStatuses
<1>2. RequestedState(st, cap) \in ResourceStates
  BY DEF RequestedState, Statuses, ResourceStates
<1>3. QED
  BY <1>1, <1>2 DEF RequestedStatus, Statuses, ConditionStatuses

\* A completion ends the reconciliation in Ready or Deleted.
LEMMA CompletedFields ==
  ASSUME NEW g \in Nat, NEW st \in Statuses, NEW o \in Operations
  PROVE  LET r == CompletedStatus(g, st, o) IN
         /\ r \in Statuses
         /\ r.reconciling = "False"
         /\ r.state = IF o.cap = "delete" THEN "Deleted" ELSE "Ready"
BY DEF CompletedStatus, Statuses, Operations, ConditionStatuses, ResourceStates

\* A failure ends the reconciliation in Ready or Failed.
LEMMA FailedFields ==
  ASSUME NEW g \in Nat, NEW st \in Statuses, NEW o \in Operations
  PROVE  LET r == FailedStatus(g, st, o) IN
         /\ r \in Statuses
         /\ r.reconciling = "False"
         /\ r.state \in {"Ready", "Failed"}
BY DEF FailedStatus, Statuses, Operations, Capabilities, ConditionStatuses, ResourceStates

\* A requested operation is a pending one.
LEMMA RequestedOperationFields ==
  ASSUME NEW cap \in Capabilities, NEW target \in Nat
  PROVE  LET o == RequestedOperation(cap, target) IN
         o \in Operations /\ o.cap = cap /\ ~IsTerminal(o)
BY DEF RequestedOperation, Operations, IsTerminal, OperationStates, Phases

\* While an operation is active, the status says which.
LEMMA ActiveState ==
  ASSUME AInv, NEW r \in Resources, Active(r)
  PROVE  /\ status[r].state \in {"Pending", "Deleting", "Ready"}
         /\ op[r].cap = "delete" => status[r].state = "Deleting"
<1>1. ActiveCapability(status[r]) = op[r].cap
  BY DEF AInv, ActiveIsShown
<1>2. op[r].cap \in {"create", "update", "delete"}
  BY DEF AInv, WellTyped, RowsTyped, Operations, Capabilities
<1>3. QED
  BY <1>1, <1>2 DEF ActiveCapability

\* What an admission writes besides the references: a request on one resource.
LEMMA RequestWrites ==
  ASSUME RowsTyped, NEW r \in Resources, NEW cap \in Capabilities, NEW target \in Nat,
         NEW retry \in BOOLEAN, Request(r, cap, target, retry),
         cap = "update" => status[r].state = "Ready"
  PROVE  /\ status' \in [Resources -> Statuses] /\ op' \in [Resources -> Operations]
         /\ seq' \in [Resources -> Nat] /\ retried' \in [Resources -> BOOLEAN]
         /\ \A s \in Resources : s # r =>
              status'[s] = status[s] /\ op'[s] = op[s] /\ seq'[s] = seq[s] /\ retried'[s] = retried[s]
         /\ retried'[r] = retry
         /\ ActiveCapability(status'[r]) = cap
         /\ ~IsTerminal(op'[r]) /\ op'[r].cap = cap
         /\ status'[r].state = RequestedState(status[r], cap)
<1>1. /\ status \in [Resources -> Statuses] /\ op \in [Resources -> Operations]
      /\ seq \in [Resources -> Nat] /\ retried \in [Resources -> BOOLEAN]
  BY DEF RowsTyped
<1>2. PICK y, o : y = RequestedStatus(status[r], cap, target) /\ o = RequestedOperation(cap, target)
  OBVIOUS
<1>3. y \in Statuses /\ y.state = RequestedState(status[r], cap) /\ y.reconciling = "True"
  BY <1>1, <1>2, RequestedFields
<1>4. o \in Operations /\ o.cap = cap /\ ~IsTerminal(o)
  BY <1>2, RequestedOperationFields
<1>5. /\ op' = [op EXCEPT ![r] = o]
      /\ status' = [status EXCEPT ![r] = y]
      /\ seq' = [seq EXCEPT ![r] = @ + 1]
      /\ retried' = [retried EXCEPT ![r] = retry]
  BY <1>2 DEF Request
<1>6. ActiveCapability(y) = cap
  BY <1>3 DEF ActiveCapability, RequestedState, Capabilities
<1>7. QED
  BY <1>1, <1>3, <1>4, <1>5, <1>6

\* A create writes its row and its references (persistCreateRequest).
LEMMA CreateWrites ==
  ASSUME AInv, NEW w \in Work, SourceAccepts(w), Decided(w), w.kind = "create", WriteCreate(w)
  PROVE  Written(w)
<1>1. RowsTyped /\ w.res \in Resources /\ w.refs \subseteq Resources
  BY DEF AInv, WellTyped, Work
<1>2. "create" \in Capabilities /\ 1 \in Nat
  BY DEF Capabilities
<1>3. Request(w.res, "create", 1, FALSE)
  BY DEF WriteCreate
<1>4. RequestedState(status[w.res], "create") = "Pending"
  BY DEF RequestedState
<1>5. AddedReferences(w) = w.refs
  BY DEF AddedReferences
<1>6. w.refs \subseteq exists
  BY <1>5 DEF Decided, EligibleTarget
<1>7. /\ status' \in [Resources -> Statuses] /\ op' \in [Resources -> Operations]
      /\ seq' \in [Resources -> Nat] /\ retried' \in [Resources -> BOOLEAN]
      /\ \A s \in Resources : s # w.res =>
           status'[s] = status[s] /\ op'[s] = op[s] /\ seq'[s] = seq[s] /\ retried'[s] = retried[s]
      /\ ActiveCapability(status'[w.res]) = "create"
      /\ ~IsTerminal(op'[w.res]) /\ op'[w.res].cap = "create"
      /\ status'[w.res].state = "Pending"
  BY <1>1, <1>2, <1>3, <1>4, RequestWrites
<1>8. /\ exists' = exists \cup {w.res} /\ gen' = gen /\ applied' = applied
      /\ desired' = [desired EXCEPT ![w.res] = w.refs]
  BY DEF WriteCreate
<1>9. /\ desired' \in [Resources -> SUBSET exists'] /\ applied' \in [Resources -> SUBSET exists']
      /\ exists' \subseteq Resources /\ gen' \in [Resources -> Nat]
      /\ desired'[w.res] = w.refs
      /\ \A s \in Resources : s # w.res => desired'[s] = desired[s]
  BY <1>1, <1>6, <1>8 DEF RowsTyped
<1>10. RowsTyped'
  BY <1>7, <1>9 DEF RowsTyped
<1>11. QED
  BY <1>5, <1>7, <1>8, <1>9, <1>10 DEF Written

\* An update writes the next generation and the references it submits.
LEMMA UpdateWrites ==
  ASSUME AInv, NEW w \in Work, SourceAccepts(w), Decided(w), w.kind = "update", WriteUpdate(w)
  PROVE  Written(w)
<1>1. RowsTyped /\ w.res \in Resources /\ w.refs \subseteq Resources
  BY DEF AInv, WellTyped, Work
<1>2. "update" \in Capabilities /\ gen[w.res] + 1 \in Nat
  BY <1>1 DEF Capabilities, RowsTyped
<1>3. Request(w.res, "update", gen[w.res] + 1, FALSE)
  BY DEF WriteUpdate
<1>4. status[w.res].state = "Ready"
  BY DEF Decided, CanRequest, RequestPrecondition
<1>5. RequestedState(status[w.res], "update") = "Ready"
  BY <1>4 DEF RequestedState
<1>6. PICK refs : refs = InsertedReferences(w)
  OBVIOUS
<1>7. refs \subseteq exists /\ refs \subseteq desired[w.res] \cup AddedReferences(w)
  <2>1. desired[w.res] \subseteq exists
    BY <1>1 DEF RowsTyped
  <2>2. AddedReferences(w) \subseteq exists
    BY DEF Decided, EligibleTarget
  <2>3. refs \subseteq desired[w.res] \cup AddedReferences(w)
    BY <1>6 DEF InsertedReferences, AddedReferences
  <2>4. QED
    BY <2>1, <2>2, <2>3
<1>8. /\ status' \in [Resources -> Statuses] /\ op' \in [Resources -> Operations]
      /\ seq' \in [Resources -> Nat] /\ retried' \in [Resources -> BOOLEAN]
      /\ \A s \in Resources : s # w.res =>
           status'[s] = status[s] /\ op'[s] = op[s] /\ seq'[s] = seq[s] /\ retried'[s] = retried[s]
      /\ ActiveCapability(status'[w.res]) = "update"
      /\ ~IsTerminal(op'[w.res]) /\ op'[w.res].cap = "update"
      /\ status'[w.res].state = "Ready"
  BY <1>1, <1>2, <1>3, <1>4, <1>5, RequestWrites
<1>9. /\ exists' = exists /\ applied' = applied
      /\ gen' = [gen EXCEPT ![w.res] = @ + 1]
      /\ desired' = [desired EXCEPT ![w.res] = refs]
  BY <1>6 DEF WriteUpdate
<1>10. /\ desired' \in [Resources -> SUBSET exists'] /\ applied' \in [Resources -> SUBSET exists']
       /\ exists' \subseteq Resources /\ gen' \in [Resources -> Nat]
       /\ desired'[w.res] = refs
       /\ \A s \in Resources : s # w.res => desired'[s] = desired[s] /\ gen'[s] = gen[s]
  BY <1>1, <1>7, <1>9 DEF RowsTyped
<1>11. RowsTyped'
  BY <1>8, <1>10 DEF RowsTyped
<1>12. QED
  BY <1>4, <1>7, <1>8, <1>9, <1>10, <1>11 DEF Written

\* A delete starts only where no reference stands.
LEMMA DeleteWrites ==
  ASSUME AInv, NEW w \in Work, SourceAccepts(w), Decided(w), w.kind = "delete", WriteDelete(w)
  PROVE  Written(w)
<1>1. RowsTyped /\ w.res \in Resources
  BY DEF AInv, WellTyped, Work
<1>2. "delete" \in Capabilities /\ gen[w.res] \in Nat
  BY <1>1 DEF Capabilities, RowsTyped
<1>3. Request(w.res, "delete", gen[w.res], FALSE)
  BY DEF WriteDelete
<1>4. status[w.res].state # "Deleted"
  BY DEF Decided, CanRequest, RequestPrecondition
<1>5. Inbound(w.res) = {}
  BY DEF SourceAccepts
<1>6. /\ status' \in [Resources -> Statuses] /\ op' \in [Resources -> Operations]
      /\ seq' \in [Resources -> Nat] /\ retried' \in [Resources -> BOOLEAN]
      /\ \A s \in Resources : s # w.res =>
           status'[s] = status[s] /\ op'[s] = op[s] /\ seq'[s] = seq[s] /\ retried'[s] = retried[s]
      /\ ActiveCapability(status'[w.res]) = "delete"
      /\ ~IsTerminal(op'[w.res]) /\ op'[w.res].cap = "delete"
  BY <1>1, <1>2, <1>3, RequestWrites
<1>7. exists' = exists /\ applied' = applied /\ gen' = gen /\ desired' = desired
  BY DEF WriteDelete
<1>8. RowsTyped'
  BY <1>1, <1>6, <1>7 DEF RowsTyped
<1>9. QED
  BY <1>4, <1>5, <1>6, <1>7, <1>8 DEF Written

\* A retry requests the failed operation again.
LEMMA RetryWrites ==
  ASSUME AInv, NEW w \in Work, SourceAccepts(w), Decided(w), w.kind = "retry", WriteRetry(w)
  PROVE  Written(w)
<1>1. RowsTyped /\ w.res \in Resources
  BY DEF AInv, WellTyped, Work
<1>2. PICK cap, target : cap = op[w.res].cap /\ target = op[w.res].target
  OBVIOUS
<1>3. cap \in Capabilities /\ target \in Nat
  BY <1>1, <1>2 DEF RowsTyped, Operations
<1>4. Request(w.res, cap, target, TRUE)
  BY <1>2 DEF WriteRetry
<1>5. status[w.res].state # "Deleted" /\ (cap = "update" => status[w.res].state = "Ready")
  <2>1. RetryStateCompatible(cap, status[w.res].state)
    BY <1>2 DEF SourceAccepts, RetryAccepts
  <2>2. QED
    BY <2>1 DEF RetryStateCompatible
<1>6. /\ status' \in [Resources -> Statuses] /\ op' \in [Resources -> Operations]
      /\ seq' \in [Resources -> Nat] /\ retried' \in [Resources -> BOOLEAN]
      /\ \A s \in Resources : s # w.res =>
           status'[s] = status[s] /\ op'[s] = op[s] /\ seq'[s] = seq[s] /\ retried'[s] = retried[s]
      /\ retried'[w.res] = TRUE
      /\ ActiveCapability(status'[w.res]) = cap
      /\ ~IsTerminal(op'[w.res]) /\ op'[w.res].cap = cap
  BY <1>1, <1>3, <1>4, <1>5, RequestWrites
<1>7. exists' = exists /\ applied' = applied /\ gen' = gen /\ desired' = desired
  BY DEF WriteRetry
<1>8. RowsTyped'
  BY <1>1, <1>6, <1>7 DEF RowsTyped
<1>9. QED
  BY <1>5, <1>6, <1>7, <1>8 DEF Written

\* The gate writes nothing of this.
LEMMA GateWrites ==
  ASSUME AInv, NEW w \in Work, SourceAccepts(w), w.res \in exists, w.kind = "gate", WriteGate(w)
  PROVE  Written(w)
<1>1. RowsTyped /\ w.res \in Resources
  BY DEF AInv, WellTyped, Work
<1>2. /\ exists' = exists /\ gen' = gen /\ status' = status /\ op' = op /\ seq' = seq
      /\ retried' = retried /\ desired' = desired /\ applied' = applied
  BY DEF WriteGate
<1>3. status[w.res].state # "Deleted"
  BY <1>1, ActiveState DEF SourceAccepts
<1>4. ActiveCapability(status[w.res]) = IF ~IsTerminal(op[w.res]) THEN op[w.res].cap ELSE "None"
  BY <1>1 DEF AInv, ActiveIsShown, Active
<1>5. status[w.res].state \in {"Deleting", "Deleted"} => retried[w.res] \/ Inbound(w.res) = {}
  BY <1>1 DEF AInv, FreshDeletesProtected
<1>6. RowsTyped'
  BY <1>1, <1>2 DEF RowsTyped
<1>7. QED
  BY <1>2, <1>3, <1>4, <1>5, <1>6 DEF Written

\* A completion moves the applied references to the desired ones, or drops both.
LEMMA CompleteWrites ==
  ASSUME AInv, NEW w \in Work, SourceAccepts(w), w.res \in exists, w.kind = "complete", WriteComplete(w)
  PROVE  Written(w)
<1>1. RowsTyped /\ w.res \in Resources
  BY DEF AInv, WellTyped, Work
<1>2. PICK y, o, refs : /\ y = CompletedStatus(gen[w.res], status[w.res], op[w.res])
                        /\ o = [op[w.res] EXCEPT !.state = "Succeeded"]
                        /\ refs = InsertedReferences(w)
  OBVIOUS
<1>3. gen[w.res] \in Nat /\ status[w.res] \in Statuses /\ op[w.res] \in Operations /\ desired[w.res] \subseteq exists
  BY <1>1 DEF RowsTyped
<1>4. y \in Statuses /\ y.reconciling = "False" /\ y.state = IF op[w.res].cap = "delete" THEN "Deleted" ELSE "Ready"
  BY <1>2, <1>3, CompletedFields
<1>5. o \in Operations /\ IsTerminal(o)
  BY <1>2, <1>3 DEF Operations, IsTerminal, OperationStates
<1>6. refs \subseteq desired[w.res]
  BY <1>2 DEF InsertedReferences
<1>7. /\ op' = [op EXCEPT ![w.res] = o] /\ status' = [status EXCEPT ![w.res] = y]
      /\ applied' = [applied EXCEPT ![w.res] = refs] /\ desired' = [desired EXCEPT ![w.res] = refs]
      /\ exists' = exists /\ gen' = gen /\ seq' = seq /\ retried' = retried
  BY <1>1, <1>2 DEF WriteComplete, RowsTyped
<1>8. RowsTyped'
  BY <1>1, <1>3, <1>4, <1>5, <1>6, <1>7 DEF RowsTyped
<1>9. /\ op'[w.res] = o /\ status'[w.res] = y /\ applied'[w.res] = refs /\ desired'[w.res] = refs
      /\ \A s \in Resources : s # w.res =>
           op'[s] = op[s] /\ status'[s] = status[s] /\ applied'[s] = applied[s] /\ desired'[s] = desired[s]
  BY <1>1, <1>7 DEF RowsTyped
<1>10. Active(w.res)
  BY DEF SourceAccepts
<1>11. status[w.res].state # "Deleted" /\ (op[w.res].cap = "delete" => status[w.res].state = "Deleting")
  BY <1>1, <1>10, ActiveState
<1>12. ActiveCapability(y) = "None"
  BY <1>4 DEF ActiveCapability
<1>13. y.state \in {"Deleting", "Deleted"} => retried[w.res] \/ Inbound(w.res) = {}
  BY <1>4, <1>11 DEF AInv, FreshDeletesProtected
<1>14. QED
  BY <1>5, <1>6, <1>7, <1>8, <1>9, <1>11, <1>12, <1>13 DEF Written

\* A failure leaves the references alone.
LEMMA FailWrites ==
  ASSUME AInv, NEW w \in Work, SourceAccepts(w), w.res \in exists, w.kind = "fail", WriteFail(w)
  PROVE  Written(w)
<1>1. RowsTyped /\ w.res \in Resources
  BY DEF AInv, WellTyped, Work
<1>2. PICK y, o : /\ y = FailedStatus(gen[w.res], status[w.res], op[w.res])
                  /\ o = [op[w.res] EXCEPT !.state = "Failed"]
  OBVIOUS
<1>3. gen[w.res] \in Nat /\ status[w.res] \in Statuses /\ op[w.res] \in Operations
  BY <1>1 DEF RowsTyped
<1>4. y \in Statuses /\ y.reconciling = "False" /\ y.state \in {"Ready", "Failed"}
  BY <1>2, <1>3, FailedFields
<1>5. o \in Operations /\ IsTerminal(o)
  BY <1>2, <1>3 DEF Operations, IsTerminal, OperationStates
<1>6. /\ op' = [op EXCEPT ![w.res] = o] /\ status' = [status EXCEPT ![w.res] = y]
      /\ applied' = applied /\ desired' = desired
      /\ exists' = exists /\ gen' = gen /\ seq' = seq /\ retried' = retried
  BY <1>1, <1>2 DEF WriteFail, RowsTyped
<1>7. RowsTyped'
  BY <1>1, <1>3, <1>4, <1>5, <1>6 DEF RowsTyped
<1>8. /\ op'[w.res] = o /\ status'[w.res] = y
      /\ \A s \in Resources : s # w.res => op'[s] = op[s] /\ status'[s] = status[s]
  BY <1>1, <1>6 DEF RowsTyped
<1>9. status[w.res].state # "Deleted"
  BY <1>1, ActiveState DEF SourceAccepts
<1>10. ActiveCapability(y) = "None"
  BY <1>4 DEF ActiveCapability
<1>11. QED
  BY <1>4, <1>5, <1>6, <1>7, <1>8, <1>9, <1>10 DEF Written

\* Only a request that holds its owner adds references.
LEMMA AddingNeedsOwner ==
  ASSUME NEW w, AddedReferences(w) # {}
  PROVE  NeedsOwnerLock(w)
BY DEF AddedReferences, NeedsOwnerLock

\* The rows stay in order: one owner's references, no cycle, and no reference
\* to what a fresh delete is taking away.
LEMMA WrittenRows ==
  ASSUME AInv, NEW w \in Work, Decided(w), Written(w)
  PROVE  OneOwnerEdges' /\ ActiveIsShown' /\ DesiredAcyclic' /\ FreshDeletesProtected'
<1>1. PICK r \in Resources : r = w.res
  BY DEF Work
<1>2. PICK added : added = AddedReferences(w)
  OBVIOUS
<1>3. /\ \A s \in Resources : s # r =>
           /\ status'[s] = status[s] /\ op'[s] = op[s]
           /\ retried'[s] = retried[s] /\ desired'[s] = desired[s] /\ applied'[s] = applied[s]
      /\ desired'[r] \subseteq desired[r] \cup added
      /\ applied'[r] \subseteq desired[r] \cup applied[r]
      /\ ActiveCapability(status'[r]) = IF ~IsTerminal(op'[r]) THEN op'[r].cap ELSE "None"
      /\ status'[r].state \in {"Deleting", "Deleted"} => retried'[r] \/ Inbound(r) = {}
      /\ exists' \subseteq exists \cup {r}
  BY <1>1, <1>2 DEF Written
<1>4. \A t \in added : /\ t \in exists /\ OwnerOf[t] = OwnerOf[r]
                       /\ status[t].state \in {"Unknown", "Pending", "Ready", "Failed"}
  BY <1>1, <1>2 DEF Decided, EligibleTarget
<1>5. PICK V \in SUBSET Resources : added \subseteq V /\ r \notin V /\ \A n \in V : desired[n] \subseteq V
  BY <1>1, <1>2 DEF Decided, ClosedAway
<1>6. OneOwnerEdges'
  <2>1. ASSUME NEW s \in Resources, NEW t \in desired'[s] \cup applied'[s] PROVE OwnerOf[t] = OwnerOf[s]
    <3>1. CASE s = r
      BY <1>3, <1>4, <2>1, <3>1 DEF AInv, OneOwnerEdges
    <3>2. CASE s # r
      BY <1>3, <2>1, <3>2 DEF AInv, OneOwnerEdges
    <3>3. QED
      BY <3>1, <3>2
  <2>2. QED
    BY <2>1 DEF OneOwnerEdges
<1>7. ActiveIsShown'
  <2>1. ASSUME NEW s \in Resources
        PROVE  ActiveCapability(status'[s]) = IF ~IsTerminal(op'[s]) THEN op'[s].cap ELSE "None"
    <3>1. CASE s = r
      BY <1>3, <3>1
    <3>2. CASE s # r
      BY <1>3, <3>2 DEF AInv, ActiveIsShown, Active
    <3>3. QED
      BY <3>1, <3>2
  <2>2. QED
    BY <2>1 DEF ActiveIsShown, Active
<1>8. DesiredAcyclic'
  <2>1. ASSUME NEW S \in SUBSET Resources, S # {} PROVE \E n \in S : desired'[n] \cap S = {}
    <3>1. \A U \in SUBSET Resources : U # {} => \E n \in U : desired[n] \cap U = {}
      BY DEF AInv, DesiredAcyclic
    <3>2. PICK n \in S : desired[n] \cap S = {}
      BY <2>1, <3>1
    <3>3. CASE n # r
      BY <1>3, <3>2, <3>3
    <3>4. CASE V \cap S = {} /\ n = r
      <4>1. added \cap S = {}
        BY <1>5, <3>4
      <4>2. desired'[r] \cap S = {}
        BY <1>3, <3>2, <3>4, <4>1
      <4>3. QED
        BY <3>4, <4>2
    <3>5. CASE V \cap S # {}
      <4>1. PICK m \in V \cap S : desired[m] \cap (V \cap S) = {}
        BY <3>1, <3>5
      <4>2. desired[m] \subseteq V /\ m # r
        BY <1>5
      <4>3. desired'[m] = desired[m]
        BY <1>3, <4>2
      <4>4. QED
        BY <4>1, <4>2, <4>3
    <3>6. QED
      BY <3>3, <3>4, <3>5
  <2>2. QED
    BY <2>1 DEF DesiredAcyclic
<1>9. FreshDeletesProtected'
  <2>1. ASSUME NEW t \in exists', NEW s \in Resources, t \in desired'[s] \cup applied'[s], ~retried'[t]
        PROVE  status'[t].state \notin {"Deleting", "Deleted"}
    <3>1. CASE t \in added
      <4>1. t # r /\ t \in Resources
        BY <1>5, <3>1
      <4>2. status'[t] = status[t]
        BY <1>3, <4>1
      <4>3. QED
        BY <1>4, <3>1, <4>2
    <3>2. CASE t \notin added
      <4>1. t \in desired[s] \cup applied[s]
        BY <1>3, <2>1, <3>2
      <4>2. s \in Inbound(t)
        BY <4>1 DEF Inbound
      <4>3. CASE t = r
        BY <1>3, <2>1, <4>2, <4>3
      <4>4. CASE t # r
        <5>1. t \in exists /\ t \in Resources
          BY <1>3, <4>4 DEF AInv, WellTyped, RowsTyped
        <5>2. status'[t] = status[t] /\ retried'[t] = retried[t]
          BY <1>3, <4>4, <5>1
        <5>3. QED
          BY <2>1, <4>2, <5>1, <5>2 DEF AInv, FreshDeletesProtected
      <4>5. QED
        BY <4>3, <4>4
    <3>3. QED
      BY <3>1, <3>2
  <2>2. QED
    BY <2>1 DEF FreshDeletesProtected, Inbound
<1>10. QED
  BY <1>6, <1>7, <1>8, <1>9

\* The number of an owner's resources grows only by a create of that owner.
LEMMA CountedShrinks ==
  ASSUME AInv, NEW w \in Work, Written(w), NEW o, w.kind = "create" => o # OwnerOf[w.res]
  PROVE  Counted(o)' \subseteq Counted(o)
<1>1. PICK r \in Resources : r = w.res
  BY DEF Work
<1>2. /\ \A s \in Resources : s # r => status'[s] = status[s]
      /\ exists' \subseteq exists \cup {r}
      /\ w.kind # "create" => exists' = exists /\ status[r].state # "Deleted"
      /\ exists' \subseteq Resources
  BY <1>1 DEF Written, RowsTyped
<1>3. SUFFICES ASSUME NEW s \in exists', OwnerOf[s] = o, status'[s].state # "Deleted"
               PROVE  s \in exists /\ status[s].state # "Deleted"
  BY DEF Counted
<1>4. CASE s = r
  BY <1>1, <1>2, <1>3, <1>4
<1>5. CASE s # r
  BY <1>2, <1>3, <1>5
<1>6. QED
  BY <1>4, <1>5

\* What another transaction knows survives the commit: it holds the locks of
\* what it has read, and the commit writes under its own.
LEMMA OthersKnow ==
  ASSUME AInv, NEW p \in Parties, NEW q \in Parties, p # q,
         NEW u \in Transactions, u = tx[p], NEW t \in Transactions, t = tx[q],
         u.pc = "writing", Written(u.work),
         \A k \in Keys : k # u.key => record'[k] = record[k]
  PROVE  PartyOK(t)'
<1>1. PartyOK(t) /\ PartyOK(u) /\ RowsTyped
  BY DEF AInv, WellTyped
<1>2. /\ AllLocksHeld(u) /\ Decided(u.work) /\ u.work \in Work
      /\ SourceAccepts(u.work) /\ u.targets = TargetsToLock(u.work)
  BY <1>1 DEF PartyOK, AllLocksHeld, SourceKnown
<1>3. PICK w \in Work : w = u.work
  BY <1>2
<1>4. PICK r \in Resources : r = w.res
  BY DEF Work
<1>5. \A l : ~(l \in u.held /\ l \in t.held)
  BY DEF AInv, LocksExclude
<1>6. RowLock(r) \in u.held /\ RowLock(r) \notin t.held
  BY <1>2, <1>3, <1>4, <1>5 DEF AllLocksHeld
<1>7. \A x \in AddedReferences(w) : RowLock(x) \notin t.held
  <2>1. AddedReferences(w) \subseteq u.targets
    BY <1>2, <1>3 DEF TargetsToLock, AddedReferences
  <2>2. QED
    BY <1>2, <1>3, <1>5, <2>1 DEF AllLocksHeld
<1>8. /\ exists \subseteq exists' /\ exists' \subseteq exists \cup {r}
      /\ \A s \in Resources : s # r =>
           /\ gen'[s] = gen[s] /\ status'[s] = status[s] /\ op'[s] = op[s] /\ seq'[s] = seq[s]
           /\ retried'[s] = retried[s] /\ desired'[s] = desired[s] /\ applied'[s] = applied[s]
      /\ desired'[r] \subseteq desired[r] \cup AddedReferences(w)
      /\ applied'[r] \subseteq desired[r] \cup applied[r]
  BY <1>3, <1>4 DEF Written
<1>9. CASE t.pc = "idle"
  <2>1. t.held = {}
    BY <1>1, <1>9 DEF PartyOK
  <2>2. QED
    BY <1>9, <2>1 DEF PartyOK, KeyFirst, OwnerBeforeRows, OnlyOwnLocks, SourceKnown, ReplaysAtOnce
<1>10. CASE t.pc # "idle"
  <2>1. PICK v \in Work : v = t.work
    BY <1>1, <1>10 DEF PartyOK
  <2>2. PICK s \in Resources : s = v.res
    BY DEF Work
  <2>3. KeyFirst(t)' /\ OwnerBeforeRows(t)' /\ OnlyOwnLocks(t)' /\ (AllLocksHeld(t) => AllLocksHeld(t)')
    BY <1>1 DEF PartyOK, KeyFirst, OwnerBeforeRows, OnlyOwnLocks, AllLocksHeld
  <2>4. AddedReferences(v) # {} /\ RowLock(s) \in t.held => OwnerLock(OwnerOf[s]) \in t.held
    BY <1>1, <2>1, <2>2, AddingNeedsOwner DEF PartyOK, OwnerBeforeRows
  <2>5. ASSUME RowLock(s) \in t.held
        PROVE  /\ s # r
               /\ AddedReferences(v)' = AddedReferences(v)
               /\ TargetsToLock(v)' = TargetsToLock(v)
               /\ SourceAccepts(v) => SourceAccepts(v)'
    <3>1. s # r
      BY <1>6, <2>5
    <3>2. /\ gen'[s] = gen[s] /\ status'[s] = status[s] /\ op'[s] = op[s] /\ seq'[s] = seq[s]
          /\ desired'[s] = desired[s]
      BY <1>8, <3>1
    <3>3. AddedReferences(v)' = AddedReferences(v) /\ TargetsToLock(v)' = TargetsToLock(v)
      BY <2>2, <3>2 DEF AddedReferences, TargetsToLock
    <3>4. s \notin exists => s \notin exists'
      BY <1>8, <3>1
    <3>5. Inbound(s) = {} => Inbound(s)' = {}
      <4>1. s \notin AddedReferences(w)
        BY <1>7, <2>5
      <4>2. ASSUME NEW n \in Resources, s \in desired'[n] \cup applied'[n] PROVE s \in desired[n] \cup applied[n]
        <5>1. CASE n = r
          BY <1>8, <4>1, <4>2, <5>1
        <5>2. CASE n # r
          BY <1>8, <4>2, <5>2
        <5>3. QED
          BY <5>1, <5>2
      <4>3. QED
        BY <4>2 DEF Inbound
    <3>6. (SourceAccepts(v) => SourceAccepts(v)')
      BY <2>2, <3>2, <3>4, <3>5 DEF SourceAccepts, RetryAccepts, Active
    <3>7. QED
      BY <3>1, <3>3, <3>6
  <2>6. SourceKnown(t)'
    <3>1. RowLock(s) \in t.held => SourceAccepts(v) /\ t.targets = TargetsToLock(v)
      BY <1>1, <2>1, <2>2 DEF PartyOK, SourceKnown
    <3>2. RowLock(s) \in t.held => SourceAccepts(v)' /\ t.targets = TargetsToLock(v)'
      BY <2>5, <3>1
    <3>3. QED
      BY <2>1, <2>2, <3>2 DEF SourceKnown
  <2>7. ReplaysAtOnce(t)'
    <3>1. SUFFICES ASSUME t.key # NoKey, KeyLock(t.key) \in t.held PROVE record'[t.key] = record[t.key]
      BY <1>1 DEF PartyOK, ReplaysAtOnce
    <3>2. t.key \in Keys
      BY <3>1 DEF Transactions
    <3>3. t.key # u.key
      BY <1>2, <1>5, <3>1 DEF AllLocksHeld
    <3>4. QED
      BY <3>2, <3>3
  <2>8. t.pc = "writing" => AllLocksHeld(t)' /\ Decided(v)'
    <3> SUFFICES ASSUME t.pc = "writing" PROVE AllLocksHeld(t)' /\ Decided(v)'
      OBVIOUS
    <3>1. AllLocksHeld(t) /\ Decided(v) /\ SourceKnown(t)
      BY <1>1, <2>1 DEF PartyOK
    <3>2. RowLock(s) \in t.held /\ s # r /\ AddedReferences(v)' = AddedReferences(v)
      BY <2>1, <2>2, <2>5, <3>1 DEF AllLocksHeld
    <3>3. NeedsOwnerLock(v) => OwnerLock(OwnerOf[s]) \in t.held
      BY <2>1, <2>2, <3>1 DEF AllLocksHeld
    <3>4. NeedsOwnerLock(w) => OwnerLock(OwnerOf[r]) \in u.held
      BY <1>2, <1>3, <1>4 DEF AllLocksHeld
    <3>5. NeedsOwnerLock(v) /\ NeedsOwnerLock(w) => OwnerOf[s] # OwnerOf[r]
      BY <1>5, <3>3, <3>4
    <3>6. ASSUME NEW x \in AddedReferences(v) PROVE EligibleTarget(s, x)'
      <4>1. x \in t.targets /\ RowLock(x) \in t.held
        BY <2>1, <2>2, <3>1, <3>2 DEF AllLocksHeld, SourceKnown, TargetsToLock, AddedReferences
      <4>2. x # r /\ x \in Resources
        BY <1>6, <4>1 DEF Transactions
      <4>3. status'[x] = status[x]
        BY <1>8, <4>2
      <4>4. EligibleTarget(s, x)
        BY <2>2, <3>1 DEF Decided
      <4>5. QED
        BY <1>8, <4>3, <4>4 DEF EligibleTarget
    <3>7. ClosedAway(v)'
      <4>1. CASE AddedReferences(v) = {}
        BY <3>2, <4>1 DEF ClosedAway
      <4>2. CASE AddedReferences(v) # {}
        <5>1. NeedsOwnerLock(v)
          BY <4>2, AddingNeedsOwner
        <5>2. PICK V \in SUBSET Resources :
                /\ AddedReferences(v) \subseteq V /\ s \notin V
                /\ \A n \in V : OwnerOf[n] = OwnerOf[s] /\ desired[n] \subseteq V
          BY <2>2, <3>1 DEF Decided, ClosedAway
        <5>3. ASSUME NEW n \in V PROVE desired'[n] \subseteq V
          <6>1. CASE n = r
            <7>1. ~NeedsOwnerLock(w)
              BY <3>5, <5>1, <5>2, <6>1
            <7>2. AddedReferences(w) = {}
              BY <7>1, AddingNeedsOwner
            <7>3. QED
              BY <1>8, <5>2, <6>1, <7>2
          <6>2. CASE n # r
            BY <1>8, <5>2, <6>2
          <6>3. QED
            BY <6>1, <6>2
        <5>4. QED
          BY <2>2, <3>2, <5>2, <5>3 DEF ClosedAway
      <4>3. QED
        BY <4>1, <4>2
    <3>8. RoomLeft(v)'
      <4> SUFFICES ASSUME v.kind = "create", NEW rule \in Quotas, Matches(rule, OwnerOf[s], TypeOf[s])
                   PROVE  Cardinality(CountedBy(rule, OwnerOf[s])') < rule.limit
        BY <2>2 DEF RoomLeft
      <4>1. w.kind = "create" => OwnerOf[s] # OwnerOf[w.res]
        BY <1>4, <3>5 DEF NeedsOwnerLock
      <4>2. PICK o : o = OwnerOf[s]
        OBVIOUS
      <4>3. Counted(o)' \subseteq Counted(o)
        BY <1>3, <4>1, <4>2, CountedShrinks
      <4>4. CountedBy(rule, o)' \subseteq CountedBy(rule, o) /\ CountedBy(rule, o) \in SUBSET Resources
        BY <1>1, <4>3 DEF CountedBy, Counted, RowsTyped
      <4>5. Cardinality(CountedBy(rule, o)) < rule.limit
        BY <2>2, <3>1, <4>2 DEF Decided, RoomLeft
      <4>6. PICK A, B : A = CountedBy(rule, o) /\ B = CountedBy(rule, o)'
        OBVIOUS
      <4>7. A \in SUBSET Resources /\ B \in SUBSET A /\ B \in SUBSET Resources
        BY <4>4, <4>6
      <4>8. Cardinality(B) <= Cardinality(A) /\ Cardinality(A) \in Nat /\ Cardinality(B) \in Nat
        BY <4>7, ResourceSets
      <4>9. rule.limit \in Nat
        BY PolicyAssumption DEF ValidPolicy, ValidRule, Quotas
      <4>10. Cardinality(B) < rule.limit
        BY <4>5, <4>6, <4>8, <4>9
      <4>11. QED
        BY <4>2, <4>6, <4>10
    <3>9. /\ gen'[s] = gen[s] /\ status'[s] = status[s] /\ op'[s] = op[s]
      BY <1>8, <3>2
    <3>10. Decided(v)'
      BY <2>2, <3>1, <3>2, <3>6, <3>7, <3>8, <3>9 DEF Decided, Active
    <3>11. QED
      BY <2>3, <3>1, <3>10
  <2>9. t.work.kind # "create" => t.work.res \in exists'
    BY <1>1, <1>8, <1>10 DEF PartyOK
  <2>10. QED
    BY <1>10, <2>1, <2>3, <2>6, <2>7, <2>8, <2>9 DEF PartyOK
<1>11. QED
  BY <1>9, <1>10

\* The commit of an admission or of a worker's transaction.
LEMMA CommitStep ==
  ASSUME AInv, NEW p \in Parties, CommitAdmission(p) \/ CommitWork(p)
  PROVE  AInv' /\ \E w \in Work : w = tx[p].work /\ Decided(w) /\ Written(w)
<1>1. tx \in [Parties -> Transactions] /\ PartyOK(tx[p]) /\ RowsTyped
  BY DEF AInv, WellTyped
<1>2. PICK u \in Transactions : u = tx[p]
  BY <1>1
<1>3. u.pc = "writing" /\ PartyOK(u)
  BY <1>1, <1>2 DEF CommitAdmission, CommitWork, MayWrite
<1>4. /\ AllLocksHeld(u) /\ Decided(u.work) /\ u.work \in Work /\ SourceAccepts(u.work)
      /\ u.work.kind # "create" => u.work.res \in exists
  BY <1>3 DEF PartyOK, AllLocksHeld, SourceKnown
<1>5. PICK w \in Work : w = u.work
  BY <1>4
<1>6. PICK r \in Resources : r = w.res
  BY DEF Work
<1>7. Written(w)
  <2>1. CASE CommitAdmission(p)
    <3>1. \/ w.kind = "create" /\ WriteCreate(w)
          \/ w.kind = "update" /\ WriteUpdate(w)
          \/ w.kind = "delete" /\ WriteDelete(w)
          \/ w.kind = "retry"  /\ WriteRetry(w)
      BY <1>2, <1>5, <2>1 DEF CommitAdmission
    <3>2. QED
      BY <1>4, <1>5, <3>1, CreateWrites, UpdateWrites, DeleteWrites, RetryWrites
  <2>2. CASE CommitWork(p)
    <3>1. \/ w.kind = "gate"     /\ WriteGate(w)
          \/ w.kind = "complete" /\ WriteComplete(w)
          \/ w.kind = "fail"     /\ WriteFail(w)
      BY <1>2, <1>5, <2>2 DEF CommitWork
    <3>2. QED
      BY <1>4, <1>5, <3>1, GateWrites, CompleteWrites, FailWrites
  <2>3. QED
    BY <2>1, <2>2
<1>8. PICK result \in Results, o \in Ids : End(p, result, o)
  <2>1. CASE CommitAdmission(p)
    <3>1. End(p, "admitted", <<r, seq[r] + 1>>)
      BY <1>2, <1>5, <1>6, <2>1 DEF CommitAdmission
    <3>2. <<r, seq[r] + 1>> \in Ids
      BY <1>1 DEF RowsTyped, Ids
    <3>3. QED
      BY <3>1, <3>2, Nothing
  <2>2. CASE CommitWork(p)
    BY <2>2, Nothing DEF CommitWork
  <2>3. QED
    BY <2>1, <2>2
<1>9. PICK y : y = Idle(result, o)
  OBVIOUS
<1>10. y \in Transactions /\ y.pc = "idle" /\ y.held = {}
  BY <1>9, IdleFields
<1>11. tx' = [tx EXCEPT ![p] = y] /\ begun' = begun
  BY <1>8, <1>9 DEF End, CommitAdmission, CommitWork
<1>12. tx'[p] = y /\ \A q \in Parties : q # p => tx'[q] = tx[q]
  BY <1>1, <1>11
<1>13. /\ record' \in [Keys -> {NoRecord} \cup [work: Work, op: Ids]]
       /\ \A k \in Keys : k # u.key => record'[k] = record[k]
  <2>1. record \in [Keys -> {NoRecord} \cup [work: Work, op: Ids]]
    BY DEF AInv, WellTyped
  <2>2. CASE record' = record
    BY <2>1, <2>2
  <2>3. CASE u.key # NoKey /\ record' = [record EXCEPT ![u.key] = [work |-> w, op |-> <<r, seq[r] + 1>>]]
    <3>1. PICK z : z = [work |-> w, op |-> <<r, seq[r] + 1>>]
      OBVIOUS
    <3>2. <<r, seq[r] + 1>> \in Ids
      BY <1>1 DEF RowsTyped, Ids
    <3>3. z \in [work: Work, op: Ids]
      BY <3>1, <3>2
    <3>4. record' = [record EXCEPT ![u.key] = z]
      BY <2>3, <3>1
    <3>5. u.key \in Keys
      BY <2>3 DEF Transactions
    <3>6. QED
      BY <2>1, <3>3, <3>4, <3>5
  <2>4. QED
    BY <1>2, <1>5, <1>6, <2>2, <2>3 DEF CommitAdmission, CommitWork
<1>14. WellTyped'
  BY <1>1, <1>7, <1>10, <1>11, <1>13 DEF WellTyped, AInv, Written
<1>15. LocksExclude'
  <2>1. \A q, s \in Parties : q # s => tx[q].held \cap tx[s].held = {}
    BY DEF AInv, LocksExclude
  <2>2. tx'[p].held = {} /\ \A q \in Parties : q # p => tx'[q].held = tx[q].held
    BY <1>10, <1>12
  <2>3. QED
    BY <2>1, <2>2 DEF LocksExclude
<1>16. OneOwnerEdges' /\ ActiveIsShown' /\ DesiredAcyclic' /\ FreshDeletesProtected'
  BY <1>4, <1>5, <1>7, WrittenRows
<1>17. ASSUME NEW q \in Parties PROVE PartyOK(tx[q])'
  <2>1. CASE q = p
    <3>1. PartyOK(y)'
      BY <1>10 DEF PartyOK, KeyFirst, OwnerBeforeRows, OnlyOwnLocks, SourceKnown, ReplaysAtOnce
    <3>2. tx'[q] = y
      BY <1>12, <2>1
    <3>3. QED
      BY <3>1, <3>2
  <2>2. CASE q # p
    <3>1. PICK t \in Transactions : t = tx[q]
      BY <1>1
    <3>2. PartyOK(t)'
      BY <1>2, <1>3, <1>5, <1>7, <1>13, <2>2, <3>1, OthersKnow
    <3>3. tx'[q] = t
      BY <1>12, <2>2, <3>1
    <3>4. QED
      BY <3>2, <3>3
  <2>3. QED
    BY <2>1, <2>2
<1>18. AInv'
  BY <1>14, <1>15, <1>16, <1>17 DEF AInv
<1>19. QED
  BY <1>2, <1>4, <1>5, <1>7, <1>18

-----------------------------------------------------------------------------
(* The invariant. *)

\* What a first convergence leaves.
LEMMA ConvergedFields ==
  /\ ConvergedOperation \in Operations /\ IsTerminal(ConvergedOperation)
  /\ ConvergedStatus \in Statuses /\ ConvergedStatus.state = "Ready"
  /\ ActiveCapability(ConvergedStatus) = "None"
  /\ UnknownStatus \in Statuses /\ UnknownStatus.state = "Unknown"
  /\ ActiveCapability(UnknownStatus) = "None"
<1>1. UnknownStatus \in Statuses /\ UnknownStatus.state = "Unknown"
  BY DEF UnknownStatus, Statuses, ResourceStates, ConditionStatuses
<1>2. ActiveCapability(UnknownStatus) = "None"
  BY <1>1 DEF ActiveCapability
<1>3. "create" \in Capabilities /\ 1 \in Nat
  BY DEF Capabilities
<1>4. FirstOperation \in Operations /\ FirstOperation.cap = "create"
  BY <1>3, RequestedOperationFields DEF FirstOperation
<1>5. ConvergedOperation \in Operations /\ IsTerminal(ConvergedOperation)
  BY <1>4 DEF ConvergedOperation, Operations, OperationStates, Phases, IsTerminal
<1>6. RequestedStatus(UnknownStatus, "create", 1) \in Statuses
  BY <1>1, <1>3, RequestedFields
<1>7. ConvergedStatus \in Statuses /\ ConvergedStatus.state = "Ready" /\ ConvergedStatus.reconciling = "False"
  BY <1>3, <1>4, <1>6, CompletedFields DEF ConvergedStatus
<1>8. ActiveCapability(ConvergedStatus) = "None"
  BY <1>7 DEF ActiveCapability
<1>9. QED
  BY <1>1, <1>2, <1>5, <1>7, <1>8

\* What earlier admissions have left is in order.
LEMMA AInitOK == Init => AInv
<1> SUFFICES ASSUME Init PROVE AInv
  OBVIOUS
<1>1. PICK g \in Starts :
        /\ exists = DOMAIN g
        /\ desired = [r \in Resources |-> IF r \in DOMAIN g THEN g[r] ELSE {}]
        /\ seq = [r \in Resources |-> IF r \in DOMAIN g THEN 1 ELSE 0]
  BY DEF Init
<1>2. PICK E \in SUBSET Resources : g \in [E -> SUBSET E]
  BY AdmissionAssumption
<1>3. /\ applied = desired
      /\ gen = [r \in Resources |-> 1]
      /\ status = [r \in Resources |-> IF r \in exists THEN ConvergedStatus ELSE UnknownStatus]
      /\ op = [r \in Resources |-> ConvergedOperation]
      /\ retried = [r \in Resources |-> FALSE]
      /\ record = [k \in Keys |-> NoRecord]
      /\ tx = [p \in Parties |-> Idle("none", NoOperation)]
      /\ begun = 0
  BY DEF Init
<1>4. RowsTyped
  BY <1>1, <1>2, <1>3, ConvergedFields DEF RowsTyped
<1>5. PICK y : y = Idle("none", NoOperation)
  OBVIOUS
<1>6. y \in Transactions /\ y.pc = "idle" /\ y.held = {}
  BY <1>5, IdleFields, Nothing
<1>7. tx = [p \in Parties |-> y]
  BY <1>3, <1>5
<1>8. WellTyped
  BY <1>3, <1>4, <1>6, <1>7, AdmissionAssumption DEF WellTyped
<1>9. LocksExclude
  BY <1>6, <1>7 DEF LocksExclude
<1>10. OneOwnerEdges
  BY <1>1, <1>2, <1>3, StartsAssumption DEF OneOwnerEdges
<1>11. ActiveIsShown
  BY <1>3, ConvergedFields DEF ActiveIsShown, Active
<1>12. DesiredAcyclic
  <2> SUFFICES ASSUME NEW S \in SUBSET Resources, S # {} PROVE \E r \in S : desired[r] \cap S = {}
    BY DEF DesiredAcyclic
  <2>1. CASE S \subseteq DOMAIN g
    <3>1. PICK r \in S : g[r] \cap S = {}
      BY <2>1, StartsAssumption
    <3>2. QED
      BY <1>1, <2>1, <3>1
  <2>2. CASE ~(S \subseteq DOMAIN g)
    BY <1>1, <2>2
  <2>3. QED
    BY <2>1, <2>2
<1>13. FreshDeletesProtected
  BY <1>3, <1>4, ConvergedFields DEF FreshDeletesProtected, RowsTyped
<1>14. PartyOK(y)
  BY <1>6 DEF PartyOK, KeyFirst, OwnerBeforeRows, OnlyOwnLocks, SourceKnown, ReplaysAtOnce
<1>15. QED
  BY <1>7, <1>8, <1>9, <1>10, <1>11, <1>12, <1>13, <1>14 DEF AInv

\* Every step keeps the invariant.
LEMMA ANext == AInv /\ [Next]_vars => AInv'
<1> SUFFICES ASSUME AInv, [Next]_vars PROVE AInv'
  OBVIOUS
<1>1. Clients \subseteq Parties /\ Workers \subseteq Parties
  BY DEF Parties
<1>2. ASSUME NEW p \in Clients, Begin(p) PROVE AInv'
  BY <1>2, BeginStep
<1>3. ASSUME NEW p \in Clients, CommitAdmission(p) PROVE AInv'
  BY <1>1, <1>3, CommitStep
<1>4. ASSUME NEW p \in Workers, BeginWork(p) PROVE AInv'
  BY <1>4, BeginWorkStep
<1>5. ASSUME NEW p \in Workers, CommitWork(p) PROVE AInv'
  BY <1>1, <1>5, CommitStep
<1>6. ASSUME NEW p \in Parties, Step(p) PROVE AInv'
  BY <1>6, TakeLockStep, LockSourceStep, QuietSteps, DecideStep DEF Step
<1>7. CASE UNCHANGED vars
  <2>1. UNCHANGED rows /\ tx' = tx /\ begun' = begun
    BY <1>7 DEF vars, rows
  <2>2. /\ exists' = exists /\ gen' = gen /\ status' = status /\ op' = op /\ seq' = seq
        /\ retried' = retried /\ desired' = desired /\ applied' = applied /\ record' = record
    BY <2>1 DEF rows
  <2>3. WellTyped' /\ LocksExclude' /\ OneOwnerEdges' /\ ActiveIsShown' /\ DesiredAcyclic' /\ FreshDeletesProtected'
    BY <2>1, <2>2 DEF AInv, WellTyped, RowsTyped, LocksExclude, OneOwnerEdges, ActiveIsShown, Active,
                      DesiredAcyclic, FreshDeletesProtected, Inbound
  <2>4. ASSUME NEW p \in Parties PROVE PartyOK(tx[p])'
    <3>1. PICK t : t = tx[p]
      OBVIOUS
    <3>2. PartyOK(t)
      BY <3>1 DEF AInv
    <3>3. PartyOK(t)' /\ tx'[p] = t
      BY <2>1, <3>1, <3>2, SameParty
    <3>4. QED
      BY <3>3
  <2>5. QED
    BY <2>3, <2>4 DEF AInv
<1>8. QED
  BY <1>2, <1>3, <1>4, <1>5, <1>6, <1>7 DEF Next

\* The invariant holds throughout.
LEMMA AInvariant == Spec => []AInv
BY AInitOK, ANext, PTL DEF Spec

-----------------------------------------------------------------------------
(* The theorems. *)

\* Every row, record and transaction of the admission service and its database
\* has its type.
THEOREM TypeCorrect == Spec => []TypeOK
<1>1. AInv => TypeOK
  <2> SUFFICES ASSUME AInv PROVE TypeOK
    OBVIOUS
  <2>1. RowsTyped /\ begun \in 0..MaxRequests
    BY DEF AInv, WellTyped
  <2>2. ASSUME NEW k \in Keys PROVE record[k] = NoRecord \/ record[k].work \in Work
    BY DEF AInv, WellTyped
  <2>3. ASSUME NEW p \in Parties
        PROVE  /\ tx[p].pc \in {"idle", "locking", "writing"}
               /\ tx[p].pc # "idle" => tx[p].work \in Work
               /\ tx[p].key \in Keys \cup {NoKey}
               /\ tx[p].targets \subseteq Resources
               /\ tx[p].held \subseteq Locks
               /\ tx[p].result \in Results
    BY DEF AInv, WellTyped, PartyOK, Transactions
  <2>4. QED
    BY <2>1, <2>2, <2>3 DEF TypeOK, RowsTyped
<1>2. QED
  BY <1>1, AInvariant, PTL

\* Two admissions never close a cycle together, whatever they add and however
\* their locks and commits interleave (DetectDependencyCycle under LockOwner).
THEOREM GraphStaysAcyclic == Spec => []DesiredAcyclic
<1>1. AInv => DesiredAcyclic
  BY DEF AInv
<1>2. QED
  BY <1>1, AInvariant, PTL

\* A resource that others reference is never taken away by a fresh delete
\* (HasInboundProtectiveReference against validateReferenceTargets).
THEOREM DeletionIsProtected == Spec => []FreshDeletesProtected
<1>1. AInv => FreshDeletesProtected
  BY DEF AInv
<1>2. QED
  BY <1>1, AInvariant, PTL

\* Whoever is waited for has a lock, and whoever has a lock has its key.
LEMMA WaitedForHolds ==
  ASSUME AInv, NEW p \in Parties, NEW q \in Parties, WaitsFor(q, p)
  PROVE  \/ \E x : RowLock(x) \in tx[p].held
         \/ \E o : OwnerLock(o) \in tx[p].held
         \/ /\ tx[q].key # NoKey /\ tx[q].held = {}
            /\ KeyLock(tx[q].key) \in tx[p].held
<1>1. PartyOK(tx[q])
  BY DEF AInv
<1>2. CASE tx[q].pc = "locking" /\ LocksMissing(q) /\ ~MayReplay(q) /\ Holds(p, NextLock(q))
  <2>1. CASE /\ tx[q].key # NoKey /\ KeyLock(tx[q].key) \notin tx[q].held
             /\ NextLock(q) = KeyLock(tx[q].key)
    BY <1>1, <1>2, <2>1 DEF Holds, PartyOK, KeyFirst
  <2>2. CASE NextLock(q) = OwnerLock(OwnerOf[tx[q].work.res])
    BY <1>2, <2>2 DEF Holds
  <2>3. CASE \E x : NextLock(q) = RowLock(x)
    BY <1>2, <2>3 DEF Holds
  <2>4. QED
    BY <2>1, <2>2, <2>3, NextLockCases
<1>3. CASE Holds(p, RowLock(record[tx[q].key].op[1]))
  BY <1>3 DEF Holds
<1>4. CASE \E t \in InsertedReferences(tx[q].work) : Holds(p, RowLock(t))
  BY <1>4 DEF Holds
<1>5. QED
  BY <1>2, <1>3, <1>4 DEF WaitsFor

\* In a deadlock everyone holds an owner or a row: who holds less is waited
\* for by one that holds nothing, which nobody waits for.
LEMMA CyclesHoldMore ==
  ASSUME AInv, NEW D \in SUBSET Parties, WaitCycle(D), NEW p \in D
  PROVE  \/ \E x : RowLock(x) \in tx[p].held
         \/ \E o : OwnerLock(o) \in tx[p].held
<1>1. PICK q \in D : WaitsFor(q, p)
  BY DEF WaitCycle
<1>2. PICK s \in D : WaitsFor(s, q)
  BY DEF WaitCycle
<1>3. tx[q].held # {}
  BY <1>2, WaitedForHolds
<1>4. QED
  BY <1>1, <1>3, WaitedForHolds

\* Waiting for a key or an owner is never part of a deadlock ("No path acquires
\* the owner lock after a Resource row").
THEOREM LadderIsSafe == Spec => []LadderNeverDeadlocks
<1>1. AInv => LadderNeverDeadlocks
  <2> SUFFICES ASSUME AInv, NEW p \in Parties, tx[p].pc = "locking", Deadlocked(p), ~MayReplay(p)
               PROVE  NextLock(p)[1] = "row"
    BY DEF LadderNeverDeadlocks
  <2>1. PICK D \in SUBSET Parties : p \in D /\ WaitCycle(D)
    BY DEF Deadlocked
  <2>2. PartyOK(tx[p])
    BY DEF AInv
  <2>3. \/ \E x : RowLock(x) \in tx[p].held
        \/ \E o : OwnerLock(o) \in tx[p].held
    BY <2>1, CyclesHoldMore
  <2>4. tx[p].held \subseteq Locks
    BY DEF AInv, WellTyped, Transactions
  <2>5. CASE /\ tx[p].key # NoKey /\ KeyLock(tx[p].key) \notin tx[p].held
    BY <2>2, <2>3, <2>5 DEF PartyOK, KeyFirst
  <2>6. CASE /\ NeedsOwnerLock(tx[p].work) /\ OwnerLock(OwnerOf[tx[p].work.res]) \notin tx[p].held
    <3>1. \A x \in Resources : RowLock(x) \notin tx[p].held
      BY <2>2, <2>6 DEF PartyOK, OwnerBeforeRows
    <3>2. \A x : RowLock(x) \in Locks => x \in Resources
      BY LockKinds DEF Locks
    <3>3. PICK o : OwnerLock(o) \in tx[p].held
      BY <2>3, <2>4, <3>1, <3>2
    <3>4. QED
      BY <2>2, <2>6, <3>3, LockKinds DEF PartyOK, OnlyOwnLocks
  <2>7. CASE \E x : NextLock(p) = RowLock(x)
    BY <2>7 DEF RowLock
  <2>8. QED
    BY <2>5, <2>6, <2>7, NextLockCases
<1>2. QED
  BY <1>1, AInvariant, PTL

\* A transaction whose key is recorded ends in its replay: it is past the key in
\* no other way, and no deadlock ends it.
LEMMA ReplayStep ==
  ASSUME AInv, Next, NEW p \in Clients, tx[p].pc # "idle", tx'[p].pc = "idle", Recorded(p)
  PROVE  LET rec == record[tx[p].key] IN
         IF rec.work = tx[p].work
         THEN tx'[p].result = "replayed" /\ tx'[p].answer = rec.op
         ELSE tx'[p].result = "conflict"
<1>1. p \in Parties /\ PartyOK(tx[p]) /\ tx \in [Parties -> Transactions]
  BY DEF Parties, AInv, WellTyped
<1>2. tx[p].key # NoKey /\ record[tx[p].key] # NoRecord
  BY DEF Recorded
<1>3. KeyLock(tx[p].key) \in tx[p].held => tx[p].pc = "locking" /\ tx[p].held = {KeyLock(tx[p].key)}
  BY <1>1, <1>2 DEF PartyOK, ReplaysAtOnce
<1>4. tx[p].pc = "writing" => FALSE
  BY <1>1, <1>2, <1>3 DEF PartyOK, AllLocksHeld
<1>5. ASSUME NEW q \in Parties, NEW y, tx' = [tx EXCEPT ![q] = y] PROVE q = p
  <2>1. q # p => tx'[p] = tx[p]
    BY <1>1, <1>5
  <2>2. QED
    BY <2>1
<1>6. ASSUME NEW q \in Parties, Replay(q)
      PROVE  IF record[tx[p].key].work = tx[p].work
             THEN tx'[p].result = "replayed" /\ tx'[p].answer = record[tx[p].key].op
             ELSE tx'[p].result = "conflict"
  <2>1. PICK result, o : End(q, result, o)
    BY <1>6 DEF Replay
  <2>2. q = p
    BY <1>5, <2>1 DEF End
  <2>3. \A res, x : End(p, res, x) => tx'[p].result = res /\ tx'[p].answer = x
    BY <1>1 DEF End, Idle
  <2>4. QED
    BY <1>6, <2>2, <2>3 DEF Replay
<1>7. ASSUME NEW q \in Parties, CommitAdmission(q) \/ CommitWork(q) PROVE FALSE
  <2>1. PICK result, o : End(q, result, o)
    BY <1>7 DEF CommitAdmission, CommitWork
  <2>2. q = p
    BY <1>5, <2>1 DEF End
  <2>3. QED
    BY <1>4, <1>7, <2>2 DEF CommitAdmission, CommitWork, MayWrite
<1>8. ASSUME NEW q \in Parties, TakeLock(q) PROVE FALSE
  <2>1. PICK l : tx' = [tx EXCEPT ![q].held = @ \cup {l}]
    BY <1>8 DEF TakeLock
  <2>2. tx'[p].pc = tx[p].pc
    BY <1>1, <2>1 DEF Transactions
  <2>3. QED
    BY <2>2
<1>9. ASSUME NEW q \in Parties, LockSource(q) PROVE FALSE
  <2>1. PICK l, targets : tx' = [tx EXCEPT ![q].held = @ \cup {l}, ![q].targets = targets]
    BY <1>9 DEF LockSource
  <2>2. tx'[p].pc = tx[p].pc
    BY <1>1, <2>1 DEF Transactions
  <2>3. QED
    BY <2>2
<1>10. ASSUME NEW q \in Parties, RefuseAtSource(q) PROVE FALSE
  <2>1. q = p
    BY <1>5, <1>10 DEF RefuseAtSource, End
  <2>2. ~MayReplay(p) /\ NextLock(p) = RowLock(tx[p].work.res)
    BY <1>10, <2>1 DEF RefuseAtSource, MayLock
  <2>3. KeyLock(tx[p].key) \in tx[p].held
    BY <1>1, <1>2, <2>2, NextLockCases, LockKinds
  <2>4. QED
    BY <2>2, <2>3 DEF MayReplay, Holds
<1>11. ASSUME NEW q \in Parties, Decide(q) PROVE FALSE
  <2>1. CASE End(q, "refused", NoOperation)
    <3>1. q = p
      BY <1>5, <2>1 DEF End
    <3>2. ~LocksMissing(p) /\ ~MayReplay(p)
      BY <1>11, <3>1 DEF Decide
    <3>3. QED
      BY <1>2, <3>2 DEF LocksMissing, MayReplay, Holds
  <2>2. CASE tx' = [tx EXCEPT ![q].pc = "writing"]
    <3>1. tx'[p].pc # "idle"
      BY <1>1, <2>2 DEF Transactions
    <3>2. QED
      BY <3>1
  <2>3. QED
    BY <1>11, <2>1, <2>2 DEF Decide
<1>12. ASSUME NEW q \in Parties, AbortDeadlocked(q) PROVE FALSE
  <2>1. q = p
    BY <1>5, <1>12 DEF AbortDeadlocked, End
  <2>2. PICK D \in SUBSET Parties : p \in D /\ WaitCycle(D)
    BY <1>12, <2>1 DEF AbortDeadlocked, Deadlocked
  <2>3. \/ \E x : RowLock(x) \in tx[p].held
        \/ \E o : OwnerLock(o) \in tx[p].held
    BY <2>2, CyclesHoldMore
  <2>4. tx[p].held = {KeyLock(tx[p].key)}
    BY <1>1, <1>2, <1>3, <2>3 DEF PartyOK, KeyFirst
  <2>5. QED
    BY <2>3, <2>4, LockKinds
<1>13. ASSUME NEW q \in Parties, NEW w, NEW k, Start(q, w, k) PROVE FALSE
  <2>1. q = p
    BY <1>5, <1>13 DEF Start
  <2>2. QED
    BY <1>13, <2>1 DEF Start
<1>14. ASSUME NEW q \in Clients, Begin(q) PROVE FALSE
  <2>1. q \in Parties
    BY DEF Parties
  <2>2. \E w, k : Start(q, w, k)
    BY <1>14 DEF Begin, BeginCreate, BeginUpdate, BeginDelete, BeginRetry
  <2>3. QED
    BY <1>13, <2>1, <2>2
<1>15. ASSUME NEW q \in Workers, BeginWork(q) PROVE FALSE
  <2>1. q \in Parties
    BY DEF Parties
  <2>2. \E w, k : Start(q, w, k)
    BY <1>15 DEF BeginWork
  <2>3. QED
    BY <1>13, <2>1, <2>2
<1>16. Clients \subseteq Parties /\ Workers \subseteq Parties
  BY DEF Parties
<1>17. QED
  BY <1>6, <1>7, <1>8, <1>9, <1>10, <1>11, <1>12, <1>14, <1>15, <1>16 DEF Next, Step

\* A repeated request is answered with the operation of the first one, and a
\* different one under its key with a conflict, whatever else is going on
\* (replayWithin before every other check).
THEOREM RepeatsAreReplayed == Spec => RepeatIsReplayed
<1>1. AInv /\ [Next]_vars =>
        [\A p \in Clients :
           LET rec == record[tx[p].key] IN
           tx[p].pc # "idle" /\ tx'[p].pc = "idle" /\ Recorded(p)
             => IF rec.work = tx[p].work
                THEN tx'[p].result = "replayed" /\ tx'[p].answer = rec.op
                ELSE tx'[p].result = "conflict"]_vars
  BY ReplayStep
<1>2. QED
  BY <1>1, AInvariant, PTL DEF RepeatIsReplayed, Spec

\* The start graphs are within every quota.  (A policy that is tightened over
\* existing resources leaves an owner above its quota, which the code allows.)
StartsWithinQuotas ==
  \A g \in Starts, rule \in Quotas, o \in Owners :
    (rule.owner # {} => o \in rule.owner) =>
      Cardinality({r \in DOMAIN g : OwnerOf[r] = o /\ (rule.type # {} => TypeOf[r] \in rule.type)}) <= rule.limit

\* The owner lock makes the count that a create was allowed by current when it
\* commits.
LEMMA QuotaStep ==
  ASSUME AInv, QuotaHeld, [Next]_vars
  PROVE  QuotaHeld'
<1>1. SUFFICES ASSUME NEW rule \in Quotas, NEW o \in Owners, rule.owner # {} => o \in rule.owner
               PROVE  Cardinality(CountedBy(rule, o)') <= rule.limit
  BY DEF QuotaHeld, CountedBy
<1>2. Cardinality(CountedBy(rule, o)) <= rule.limit
  BY <1>1 DEF QuotaHeld, CountedBy
<1>3. RowsTyped /\ rule.limit \in Nat
  BY PolicyAssumption DEF AInv, WellTyped, ValidPolicy, ValidRule, Quotas
<1>4. PICK A, B : A = CountedBy(rule, o) /\ B = CountedBy(rule, o)'
  OBVIOUS
<1>5. A \in SUBSET Resources
  BY <1>3, <1>4 DEF CountedBy, Counted, RowsTyped
<1>6. CASE UNCHANGED rows
  <2>1. A = B
    BY <1>4, <1>6 DEF rows, CountedBy, Counted
  <2>2. QED
    BY <1>2, <1>4, <2>1
<1>7. CASE ~ UNCHANGED rows
  <2>1. PICK p \in Parties : CommitAdmission(p) \/ CommitWork(p)
    <3>1. \A q, v, k : Start(q, v, k) => UNCHANGED rows
      BY DEF Start
    <3>2. ASSUME NEW q, Begin(q) PROVE UNCHANGED rows
      <4>1. \E v, k : Start(q, v, k)
        BY <3>2 DEF Begin, BeginCreate, BeginUpdate, BeginDelete, BeginRetry
      <4>2. QED
        BY <3>1, <4>1
    <3>3. \A q : BeginWork(q) => UNCHANGED rows
      BY <3>1 DEF BeginWork
    <3>4. \A q : Step(q) => UNCHANGED rows
      BY DEF Step, TakeLock, LockSource, RefuseAtSource, Replay, Decide, AbortDeadlocked
    <3>5. UNCHANGED vars => UNCHANGED rows
      BY DEF vars, rows
    <3>6. QED
      BY <1>7, <3>2, <3>3, <3>4, <3>5 DEF Next, Parties
  <2>2. PICK w \in Work : Decided(w) /\ Written(w)
    BY <2>1, CommitStep
  <2>3. PICK r \in Resources : r = w.res
    BY DEF Work
  <2>4. CASE w.kind # "create" \/ o # OwnerOf[r]
    <3>1. Counted(o)' \subseteq Counted(o)
      BY <2>2, <2>3, <2>4, CountedShrinks
    <3>2. B \in SUBSET A
      BY <1>4, <3>1 DEF CountedBy
    <3>3. Cardinality(B) <= Cardinality(A) /\ Cardinality(A) \in Nat /\ Cardinality(B) \in Nat
      BY <1>5, <3>2, ResourceSets
    <3>4. QED
      BY <1>2, <1>3, <1>4, <3>3
  <2>5. CASE w.kind = "create" /\ o = OwnerOf[r]
    <3>1. /\ \A s \in Resources : s # r => status'[s] = status[s]
          /\ exists' \subseteq exists \cup {r} /\ exists' \subseteq Resources
      BY <2>2, <2>3 DEF Written, RowsTyped
    <3>2. CASE rule.type # {} /\ TypeOf[r] \notin rule.type
      <4>1. B \in SUBSET A
        BY <1>4, <3>1, <3>2 DEF CountedBy, Counted
      <4>2. Cardinality(B) <= Cardinality(A) /\ Cardinality(A) \in Nat /\ Cardinality(B) \in Nat
        BY <1>5, <4>1, ResourceSets
      <4>3. QED
        BY <1>2, <1>3, <1>4, <4>2
    <3>3. CASE rule.type # {} => TypeOf[r] \in rule.type
      <4>1. Cardinality(A) < rule.limit
        BY <1>1, <1>4, <2>2, <2>3, <2>5, <3>3 DEF Decided, RoomLeft, Matches
      <4>2. B \in SUBSET (A \cup {r}) /\ A \cup {r} \in SUBSET Resources
        BY <1>4, <1>5, <3>1 DEF CountedBy, Counted
      <4>3. /\ Cardinality(B) <= Cardinality(A \cup {r}) /\ Cardinality(A \cup {r}) <= Cardinality(A) + 1
            /\ Cardinality(A) \in Nat /\ Cardinality(B) \in Nat /\ Cardinality(A \cup {r}) \in Nat
        BY <1>5, <4>2, ResourceSets
      <4>4. Cardinality(B) <= rule.limit
        BY <1>3, <4>1, <4>3
      <4>5. QED
        BY <1>4, <4>4
    <3>4. QED
      BY <3>2, <3>3
  <2>6. QED
    BY <2>4, <2>5
<1>8. QED
  BY <1>6, <1>7

\* Concurrent creates never exceed a quota of the policy document, from any
\* start within the quotas.
THEOREM QuotasHold ==
  ASSUME StartsWithinQuotas
  PROVE  Spec => []QuotaHeld
<1>1. Init => QuotaHeld
  <2> SUFFICES ASSUME Init, NEW rule \in Quotas, NEW o \in Owners, rule.owner # {} => o \in rule.owner
               PROVE  Cardinality({r \in Counted(o) : rule.type # {} => TypeOf[r] \in rule.type}) <= rule.limit
    BY DEF QuotaHeld
  <2>1. PICK g \in Starts : exists = DOMAIN g
    BY DEF Init
  <2>2. RowsTyped
    BY AInitOK DEF AInv, WellTyped
  <2>3. \A r \in exists : status[r].state = "Ready"
    BY <2>2, ConvergedFields DEF Init, RowsTyped
  <2>4. {r \in Counted(o) : rule.type # {} => TypeOf[r] \in rule.type}
          = {r \in DOMAIN g : OwnerOf[r] = o /\ (rule.type # {} => TypeOf[r] \in rule.type)}
    BY <2>1, <2>3 DEF Counted
  <2>5. QED
    BY <2>4 DEF StartsWithinQuotas
<1>2. AInv /\ QuotaHeld /\ [Next]_vars => QuotaHeld'
  BY QuotaStep
<1>3. QED
  BY <1>1, <1>2, AInvariant, PTL DEF Spec

=============================================================================
