---------------------------- MODULE RecoveryProofs ----------------------------
(***************************************************************************)
(* Proofs about Recovery for any keys and bounds.                          *)
(*                                                                         *)
(* The argument is about the chain of messages of an operation.  While the *)
(* operation is not finished one row, active or dead, carries the chain on *)
(* (Carried), an active row is at the version that its handler expects     *)
(* (Current), and the next message always has a key that no row of history *)
(* has (RowsGood), so that it is not swallowed.  The same holds of the     *)
(* wakes of the dependents (WakesGood).  Of the operator it says that a    *)
(* revision determines what is allowed (ShownGood).                        *)
(***************************************************************************)
EXTENDS Recovery, FiniteSetTheorems, TLAPS

RowStates == {"Pending", "Leased", "Completed", "Dead"}
Identities == Kinds \X Nat \X Nat \X {"Chain", "Operator"}
Rows == [key : Identities, kind : Kinds, op : Nat, expected : Nat, sequence : Nat, state : RowStates]

Operations == [number : Ops, phase : 0..2, version : Nat, finished : BOOLEAN]
Executions == [state : ExecutionStates, version : Nat, attempt : Nat, next : Nat \ {0}]
Resources == [version : Nat, state : {"Busy", "Ready", "Deleted"}]

\* The facts are stated of values: an operation o, an execution e, the version v
\* of the resource, the rows, and the number n of operator actions.

\* What the key of a row says of it, and that no number in the key of a row is one
\* that is still to come.
KeyGood(r, o, e, v, n) ==
  \/ /\ r.kind = "Drive" /\ r.key = <<"Drive", r.op, r.expected, "Chain">>
     /\ r.op = o.number => r.expected <= o.version
  \/ /\ r.kind = "Dispatch" /\ r.key = <<"Dispatch", r.op, r.sequence, "Chain">>
     /\ r.sequence > 0 /\ (r.op = o.number => r.sequence <= e.attempt)
  \/ /\ r.kind = "Observe" /\ r.key = <<"Observe", r.op, r.sequence, "Chain">>
     /\ r.sequence > 0 /\ (r.op = o.number => r.sequence < e.next)
  \/ r.kind = "PassiveObserve" /\ r.key = <<"PassiveObserve", 0, r.sequence, "Chain">>
  \/ r.kind = "WakeDependents" /\ r.key = <<"WakeDependents", 0, r.expected, "Chain">> /\ r.expected <= v
  \/ /\ r.kind \in {"Drive", "PassiveObserve", "WakeDependents"}
     /\ \E a \in 1..n : r.key = <<r.kind, r.op, a, "Operator">>

RowsGood(rows, o, e, v, n) ==
  /\ rows \subseteq Rows
  /\ \A r \in rows : r.op <= o.number /\ (r.op = 0 <=> r.kind \in {"PassiveObserve", "WakeDependents"})
  /\ \A r \in rows : KeyGood(r, o, e, v, n)
  /\ \A r, s \in rows : r.key = s.key => r = s
  /\ \A r, s \in rows : Active(r) /\ Active(s) /\ r.kind = s.kind /\ r.op = s.op => r = s

\* The operation and its execution go together.
PairGood(o, e) ==
  /\ o \in Operations /\ e \in Executions
  /\ o.finished <=> e.state = "Done"
  /\ ~o.finished /\ o.phase < 2 => e.state = "Pending" /\ e.attempt = 0
  /\ ~o.finished /\ o.phase = 2 => e.attempt > 0

\* An active row of the operation is what its handler waits for.
RowCurrent(r, o, e) ==
  \/ r.kind = "Drive" /\ r.expected = o.version
  \/ /\ r.kind = "Observe" /\ o.phase = 2 /\ e.state \in {"Unknown", "Accepted"}
     /\ r.expected = e.version /\ r.sequence + 1 = e.next
  \/ /\ r.kind = "Dispatch" /\ o.phase = 2 /\ r.sequence = e.attempt
     /\ \/ r.state = "Pending" /\ e.state = "Pending" /\ r.expected = e.version
        \/ r.state = "Leased" /\ e.state = "Dispatching" /\ r.expected + 1 = e.version

Current(rows, o, e) ==
  /\ \A r \in rows : r.state = "Leased" => r.kind = "Dispatch" /\ r.op = o.number /\ ~o.finished
  /\ ~o.finished => \A r \in rows : Active(r) /\ r.op = o.number => RowCurrent(r, o, e)

\* The row carries the chain on, or did until it was quarantined.
Carries(r, o, e) ==
  /\ r.op = o.number /\ r.state # "Completed"
  /\ \/ o.phase < 2 /\ r.kind = "Drive"
     \/ /\ o.phase = 2 /\ r.kind = "Dispatch" /\ r.sequence = e.attempt
        /\ e.state = "Pending" \/ (e.state = "Dispatching" /\ r.state = "Leased")
     \/ /\ o.phase = 2 /\ r.kind = "Observe" /\ r.sequence + 1 = e.next
        /\ e.state \in {"Unknown", "Accepted"}

Carried(rows, o, e) == ~o.finished => \E r \in rows : Carries(r, o, e)

\* A wake that is owed to the dependents is in a row; a wake that is done has
\* woken them.
WakesGood(rows, v, d, w) ==
  /\ d \in Nat /\ w \in Nat /\ d <= v
  /\ w < d => \E r \in rows : r.kind = "WakeDependents" /\ r.state # "Completed"
  /\ \A r \in rows : r.kind = "WakeDependents" /\ r.state = "Completed" => r.expected <= w

LedgerGood ==
  /\ IsFiniteSet(ledger) /\ Cardinality(ledger) <= MaxActions
  /\ \A a \in ledger : a.action \in 1..Cardinality(ledger)

\* What a revision allows.
AllowedBy(request, rev) ==
  CASE request.action = "observe" ->
         /\ ~rev[1].finished /\ rev[4] /\ rev[2].state \in {"Unknown", "Accepted"}
         /\ \A p \in rev[3] : p[1][1] # "Observe"
    [] request.action = "passive" ->
         /\ rev[1].state # "Deleted" /\ rev[5] /\ rev[2].finished
         /\ \A p \in rev[4] : p[1][1] # "PassiveObserve"
    [] OTHER ->
         /\ rev[2] = "Dead"
         /\ IF rev[1][2] # 0
            THEN /\ ~rev[9] /\ rev[3] /\ ~rev[5] /\ ~rev[8] /\ rev[10]
                 /\ rev[1][1] \in {"Dispatch", "Observe"} => rev[7] \in {"Unknown", "Accepted"}
            ELSE /\ ~rev[6] /\ rev[5] /\ rev[4] # "Deleted"
                 /\ rev[1][1] = "PassiveObserve" => rev[7]

ShownGood ==
  shown # NothingShown => (shown.allowed <=> AllowedBy(shown.request, shown.revision))

ChainGood(rows, o, e, v, n, d, w) ==
  /\ RowsGood(rows, o, e, v, n) /\ PairGood(o, e)
  /\ Current(rows, o, e) /\ Carried(rows, o, e) /\ WakesGood(rows, v, d, w)

RInv ==
  /\ ChainGood(outbox, op, exec, resource.version, Cardinality(ledger), due, woken)
  /\ resource \in Resources /\ registered \in BOOLEAN /\ toggles \in 0..MaxToggles
  /\ LedgerGood /\ ShownGood

-----------------------------------------------------------------------------
(* Rows. *)

\* A row that is settled keeps its identity.
LEMMA RowSettles ==
  ASSUME NEW r \in Rows, NEW state \in RowStates, NEW s, s = [r EXCEPT !.state = state]
  PROVE  /\ s \in Rows /\ s.key = r.key /\ s.kind = r.kind /\ s.op = r.op
         /\ s.expected = r.expected /\ s.sequence = r.sequence /\ s.state = state
  BY DEF Rows

\* A row in the place of another with the same identity.
Replaces(s, r) ==
  /\ s \in Rows /\ s.key = r.key /\ s.kind = r.kind /\ s.op = r.op /\ s.sequence = r.sequence
  /\ s.expected = r.expected \/ r.kind = "Dispatch"
  /\ Active(s) => Active(r)

\* A row that is replaced disturbs no other: keys stay unique, and so does active work.
LEMMA RowsReplace ==
  ASSUME NEW rows, NEW o, NEW e, NEW v, NEW n, RowsGood(rows, o, e, v, n),
         NEW r \in rows, NEW s, Replaces(s, r)
  PROVE  RowsGood((rows \ {r}) \cup {s}, o, e, v, n)
<1> DEFINE p == (rows \ {r}) \cup {s}
<1> USE DEF Replaces
<1>1. p \subseteq Rows
  BY DEF RowsGood
<1>2. KeyGood(s, o, e, v, n)
  BY DEF KeyGood, RowsGood
<1>3. /\ \A t \in p : t.op <= o.number /\ (t.op = 0 <=> t.kind \in {"PassiveObserve", "WakeDependents"})
      /\ \A t \in p : KeyGood(t, o, e, v, n)
  BY <1>2 DEF RowsGood
<1>4. \A t, u \in p : t.key = u.key => t = u
  BY DEF RowsGood
<1>5. \A t, u \in p : Active(t) /\ Active(u) /\ t.kind = u.kind /\ t.op = u.op => t = u
  BY DEF RowsGood
<1>6. QED
  BY <1>1, <1>3, <1>4, <1>5 DEF RowsGood

\* A message whose identity fits the state.
MessageGood(m, o, e, v, n) ==
  /\ m \in Rows /\ m.state = "Pending" /\ m.op <= o.number
  /\ m.op = 0 <=> m.kind \in {"PassiveObserve", "WakeDependents"}
  /\ KeyGood(m, o, e, v, n)

\* The rows of the kind and aggregate of a message.
LEMMA ActiveRows ==
  ASSUME NEW rows, NEW m, m.op = 0 <=> m.kind \in {"PassiveObserve", "WakeDependents"}
  PROVE  ActiveOf(rows, m.kind, m.op) = {r \in rows : Active(r) /\ r.kind = m.kind /\ r.op = m.op}
  BY DEF ActiveOf, OwnerOf

\* Enqueueing never breaks a unique index.
LEMMA RowsEnqueue ==
  ASSUME NEW rows, NEW o, NEW e, NEW v, NEW n, RowsGood(rows, o, e, v, n),
         NEW m, MessageGood(m, o, e, v, n)
  PROVE  RowsGood(Enqueued(rows, m), o, e, v, n)
<1>1. CASE Spent(rows, m) \/ Conflicts(rows, m)
  BY <1>1 DEF Enqueued
<1>2. CASE ~(Spent(rows, m) \/ Conflicts(rows, m))
  <2> DEFINE p == rows \cup {m}
  <2>1. Enqueued(rows, m) = p
    BY <1>2 DEF Enqueued
  <2>2. \A r \in rows : r.key # m.key
    BY <1>2 DEF Spent
  <2>3. \A r \in rows : ~(Active(r) /\ r.kind = m.kind /\ r.op = m.op)
    BY <1>2, ActiveRows DEF Conflicts, MessageGood
  <2>4. p \subseteq Rows
    BY DEF RowsGood, MessageGood
  <2>5. /\ \A t \in p : t.op <= o.number /\ (t.op = 0 <=> t.kind \in {"PassiveObserve", "WakeDependents"})
        /\ \A t \in p : KeyGood(t, o, e, v, n)
    BY DEF RowsGood, MessageGood
  <2>6. \A t, u \in p : t.key = u.key => t = u
    BY <2>2 DEF RowsGood
  <2>7. \A t, u \in p : Active(t) /\ Active(u) /\ t.kind = u.kind /\ t.op = u.op => t = u
    BY <2>3 DEF RowsGood
  <2>8. RowsGood(p, o, e, v, n)
    BY <2>4, <2>5, <2>6, <2>7 DEF RowsGood
  <2>9. QED
    BY <2>1, <2>8
<1>3. QED
  BY <1>1, <1>2

\* A message with a new identity, and nothing beside it, is added.
LEMMA Added ==
  ASSUME NEW rows, NEW m, m.op = 0 <=> m.kind \in {"PassiveObserve", "WakeDependents"},
         \A r \in rows : r.key # m.key,
         \A r \in rows : ~(Active(r) /\ r.kind = m.kind /\ r.op = m.op)
  PROVE  Enqueued(rows, m) = rows \cup {m}
<1>1. ~Spent(rows, m)
  BY DEF Spent
<1>2. ~Conflicts(rows, m)
  BY ActiveRows DEF Conflicts
<1>3. QED
  BY <1>1, <1>2 DEF Enqueued

\* Numbers that only grow.
Grows(o, e, v, n, o2, e2, v2, n2) ==
  /\ {o.number, o.version, e.attempt, e.next, v, n} \subseteq Nat
  /\ {o2.version, e2.attempt, e2.next, v2, n2} \subseteq Nat
  /\ o2.number = o.number /\ o2.version >= o.version /\ e2.attempt >= e.attempt
  /\ e2.next >= e.next /\ v2 >= v /\ n2 >= n

\* Rows stay good while the numbers of the operation, of the resource and of the
\* operator only grow.
LEMMA RowsGrow ==
  ASSUME NEW rows, NEW o, NEW e, NEW v, NEW n, NEW o2, NEW e2, NEW v2, NEW n2,
         RowsGood(rows, o, e, v, n), Grows(o, e, v, n, o2, e2, v2, n2)
  PROVE  RowsGood(rows, o2, e2, v2, n2)
<1> USE DEF Grows
<1>1. ASSUME NEW r \in rows PROVE KeyGood(r, o2, e2, v2, n2)
  <2>1. r \in Rows /\ KeyGood(r, o, e, v, n)
    BY DEF RowsGood
  <2>2. r.expected \in Nat /\ r.sequence \in Nat
    BY <2>1 DEF Rows
  <2>3. r.expected <= o.version => r.expected <= o2.version
    BY <2>2
  <2>4. r.sequence <= e.attempt => r.sequence <= e2.attempt
    BY <2>2
  <2>5. r.sequence < e.next => r.sequence < e2.next
    BY <2>2
  <2>6. r.expected <= v => r.expected <= v2
    BY <2>2
  <2>7. \A a \in 1..n : a \in 1..n2
    OBVIOUS
  <2>8. o2.number = o.number
    OBVIOUS
  <2> HIDE DEF Grows
  <2>9. QED
    BY <2>1, <2>3, <2>4, <2>5, <2>6, <2>7, <2>8 DEF KeyGood
<1>2. QED
  BY <1>1 DEF RowsGood

\* The numbers that come next are in no key yet.
LEMMA FreshDrive ==
  ASSUME NEW rows, NEW o, NEW e, NEW v, NEW n, RowsGood(rows, o, e, v, n),
         o.version \in Nat, NEW x \in Nat, x > o.version, NEW r \in rows
  PROVE  r.key # <<"Drive", o.number, x, "Chain">>
<1>1. r \in Rows /\ KeyGood(r, o, e, v, n)
  BY DEF RowsGood
<1>2. SUFFICES ASSUME r.key = <<"Drive", o.number, x, "Chain">> PROVE FALSE
  OBVIOUS
<1>3. r.op = o.number /\ r.expected = x /\ r.expected <= o.version
  BY <1>1, <1>2 DEF KeyGood
<1>4. QED
  BY <1>3

\* No row has the key of an attempt that is still to come.
LEMMA FreshDispatch ==
  ASSUME NEW rows, NEW o, NEW e, NEW v, NEW n, RowsGood(rows, o, e, v, n),
         e.attempt \in Nat, NEW x \in Nat, x > e.attempt, NEW r \in rows
  PROVE  r.key # <<"Dispatch", o.number, x, "Chain">>
<1>1. r \in Rows /\ KeyGood(r, o, e, v, n)
  BY DEF RowsGood
<1>2. SUFFICES ASSUME r.key = <<"Dispatch", o.number, x, "Chain">> PROVE FALSE
  OBVIOUS
<1>3. r.op = o.number /\ r.sequence = x /\ r.sequence <= e.attempt
  BY <1>1, <1>2 DEF KeyGood
<1>4. QED
  BY <1>3

\* No row has the key of the observation that comes next.
LEMMA FreshObserve ==
  ASSUME NEW rows, NEW o, NEW e, NEW v, NEW n, RowsGood(rows, o, e, v, n),
         e.next \in Nat, NEW r \in rows
  PROVE  r.key # <<"Observe", o.number, e.next, "Chain">>
<1>1. r \in Rows /\ KeyGood(r, o, e, v, n)
  BY DEF RowsGood
<1>2. SUFFICES ASSUME r.key = <<"Observe", o.number, e.next, "Chain">> PROVE FALSE
  OBVIOUS
<1>3. r.op = o.number /\ r.sequence = e.next /\ r.sequence < e.next
  BY <1>1, <1>2 DEF KeyGood
<1>4. QED
  BY <1>3

\* No row has the key of the wake for the version that comes next.
LEMMA FreshWake ==
  ASSUME NEW rows, NEW o, NEW e, NEW v \in Nat, NEW n, RowsGood(rows, o, e, v, n),
         NEW r \in rows
  PROVE  r.key # <<"WakeDependents", 0, v + 1, "Chain">>
<1>1. r \in Rows /\ KeyGood(r, o, e, v, n)
  BY DEF RowsGood
<1>2. SUFFICES ASSUME r.key = <<"WakeDependents", 0, v + 1, "Chain">> PROVE FALSE
  OBVIOUS
<1>3. r.expected = v + 1 /\ r.expected <= v
  BY <1>1, <1>2 DEF KeyGood
<1>4. QED
  BY <1>3

\* No row has the key of the operator action that comes next.
LEMMA FreshOperator ==
  ASSUME NEW rows, NEW o, NEW e, NEW v, NEW n \in Nat, RowsGood(rows, o, e, v, n),
         NEW r \in rows, NEW kind, NEW x
  PROVE  r.key # <<kind, x, n + 1, "Operator">>
<1>1. r \in Rows /\ KeyGood(r, o, e, v, n)
  BY DEF RowsGood
<1>2. SUFFICES ASSUME r.key = <<kind, x, n + 1, "Operator">> PROVE FALSE
  OBVIOUS
<1>3. \E a \in 1..n : a = n + 1
  BY <1>1, <1>2 DEF KeyGood
<1>4. QED
  BY <1>3

-----------------------------------------------------------------------------
(* The chain of messages. *)

\* Types of the numbers.
LEMMA ChainTypes ==
  ASSUME NEW rows, NEW o, NEW e, NEW v, NEW n, NEW d, NEW w, ChainGood(rows, o, e, v, n, d, w)
  PROVE  /\ o \in Operations /\ e \in Executions
         /\ o.number \in Nat /\ o.number > 0 /\ o.version \in Nat /\ o.phase \in {0, 1, 2}
         /\ e.version \in Nat /\ e.attempt \in Nat /\ e.next \in Nat /\ e.next > 0
         /\ rows \subseteq Rows
<1>1. o \in Operations /\ e \in Executions /\ rows \subseteq Rows
  BY DEF ChainGood, PairGood, RowsGood
<1>2. MaxOps \in Nat
  BY BoundsAssumption
<1>3. QED
  BY <1>1, <1>2 DEF Operations, Executions, Ops

\* The wakes when a row takes the place of another.
LEMMA WakesReplace ==
  ASSUME NEW rows, NEW v, NEW d, NEW w, WakesGood(rows, v, d, w), NEW r \in rows, NEW s,
         Replaces(s, r), r.kind # "WakeDependents" \/ s.state # "Completed"
  PROVE  WakesGood((rows \ {r}) \cup {s}, v, d, w)
  BY DEF WakesGood, Replaces

\* The wakes when a row is added and the version grows.
LEMMA WakesAdd ==
  ASSUME NEW rows, NEW v \in Nat, NEW v2 \in Nat, v2 >= v, NEW d, NEW w, WakesGood(rows, v, d, w),
         NEW m, m.state = "Pending"
  PROVE  WakesGood(rows \cup {m}, v2, d, w) /\ WakesGood(rows, v2, d, w)
<1>1. d <= v2
  BY DEF WakesGood
<1>2. QED
  BY <1>1 DEF WakesGood

\* Work that has nothing to do is completed.
LEMMA StaleChain ==
  ASSUME NEW rows, NEW o, NEW e, NEW v, NEW n, NEW d, NEW w, ChainGood(rows, o, e, v, n, d, w),
         NEW r \in rows, NEW s, Replaces(s, r), s.state = "Completed",
         r.kind # "WakeDependents", o.finished \/ ~Carries(r, o, e)
  PROVE  ChainGood((rows \ {r}) \cup {s}, o, e, v, n, d, w)
<1> DEFINE p == (rows \ {r}) \cup {s}
<1>1. RowsGood(p, o, e, v, n)
  BY RowsReplace DEF ChainGood
<1>2. WakesGood(p, v, d, w)
  BY WakesReplace DEF ChainGood
<1>3. ~Active(s) /\ s.state # "Leased"
  BY DEF Active
<1>4. Current(p, o, e)
  BY <1>3 DEF ChainGood, Current
<1>5. Carried(p, o, e)
  BY DEF ChainGood, Carried
<1>6. QED
  BY <1>1, <1>2, <1>4, <1>5 DEF ChainGood

\* Quarantine: the chain is then carried by a dead row.
LEMMA QuarantineChain ==
  ASSUME NEW rows, NEW o, NEW e, NEW v, NEW n, NEW d, NEW w, ChainGood(rows, o, e, v, n, d, w),
         NEW r \in rows, NEW s, Replaces(s, r), s.state = "Dead", r.state = "Pending"
  PROVE  ChainGood((rows \ {r}) \cup {s}, o, e, v, n, d, w)
<1> DEFINE p == (rows \ {r}) \cup {s}
<1>1. RowsGood(p, o, e, v, n)
  BY RowsReplace DEF ChainGood
<1>2. WakesGood(p, v, d, w)
  BY WakesReplace DEF ChainGood
<1>3. ~Active(s) /\ s.state # "Leased"
  BY DEF Active
<1>4. Current(p, o, e)
  BY <1>3 DEF ChainGood, Current
<1>5. Carries(r, o, e) => Carries(s, o, e)
  BY DEF Carries, Replaces
<1>6. Carried(p, o, e)
  BY <1>5 DEF ChainGood, Carried
<1>7. QED
  BY <1>1, <1>2, <1>4, <1>6 DEF ChainGood

\* A phase is done, and the next message is a Drive.
LEMMA AdvanceChain ==
  ASSUME NEW rows, NEW o, NEW e, NEW v \in Nat, NEW n \in Nat, NEW d, NEW w,
         ChainGood(rows, o, e, v, n, d, w),
         NEW r \in rows, NEW s, Replaces(s, r), s.state = "Completed", Active(r), r.kind = "Drive",
         r.op = o.number, ~o.finished, o.phase = 0,
         NEW o2 \in Operations, o2.number = o.number, o2.phase = 1, o2.version = o.version + 1,
         ~o2.finished,
         NEW m, m = DriveMessage(o.number, o.version + 1)
  PROVE  ChainGood(Enqueued((rows \ {r}) \cup {s}, m), o2, e, v + 1, n, d, w)
<1> DEFINE p == (rows \ {r}) \cup {s}
<1>1. /\ o.number \in Nat /\ o.number > 0 /\ o.version \in Nat
      /\ e \in Executions /\ e.attempt \in Nat /\ e.next \in Nat
  BY ChainTypes
<1>2. /\ m.key = <<"Drive", o.number, o.version + 1, "Chain">> /\ m.kind = "Drive" /\ m.op = o.number
      /\ m.expected = o.version + 1 /\ m.state = "Pending" /\ m \in Rows
  BY <1>1 DEF DriveMessage, Row, OwnerOf, Rows, Identities, Kinds, RowStates
<1>3. RowsGood(p, o, e, v, n)
  BY RowsReplace DEF ChainGood
<1>4. Grows(o, e, v, n, o2, e, v + 1, n)
  BY <1>1 DEF Grows
<1>5. RowsGood(p, o2, e, v + 1, n)
  BY <1>3, <1>4, RowsGrow
<1>6. \A t \in p : t.key # m.key
  BY <1>1, <1>2, <1>3, FreshDrive
<1>7. \A t \in p : ~(Active(t) /\ t.kind = m.kind /\ t.op = m.op)
  BY <1>2 DEF ChainGood, RowsGood, Active, Replaces
<1>8. Enqueued(p, m) = p \cup {m}
  BY <1>1, <1>2, <1>6, <1>7, Added
<1>9. MessageGood(m, o2, e, v + 1, n)
  BY <1>1, <1>2 DEF MessageGood, KeyGood
<1>10. RowsGood(p \cup {m}, o2, e, v + 1, n)
  BY <1>5, <1>8, <1>9, RowsEnqueue
<1>11. WakesGood(p \cup {m}, v + 1, d, w)
  <2>1. r.kind # "WakeDependents" /\ v + 1 \in Nat /\ v + 1 >= v
    OBVIOUS
  <2>2. WakesGood(p, v, d, w)
    BY <2>1, WakesReplace DEF ChainGood
  <2>3. QED
    BY <1>2, <2>1, <2>2, WakesAdd
<1>12. Current(p \cup {m}, o2, e)
  <2>1. \A t \in rows : Active(t) /\ t.op = o.number => t = r
    BY DEF ChainGood, Current, RowCurrent, RowsGood
  <2>2. RowCurrent(m, o2, e)
    BY <1>2 DEF RowCurrent
  <2>3. QED
    BY <1>2, <2>1, <2>2 DEF ChainGood, Current, Active, Replaces
<1>13. Carried(p \cup {m}, o2, e)
  <2>1. Carries(m, o2, e)
    BY <1>2 DEF Carries
  <2>2. QED
    BY <2>1 DEF Carried
<1>14. PairGood(o2, e)
  BY DEF ChainGood, PairGood
<1>15. QED
  BY <1>8, <1>10, <1>11, <1>12, <1>13, <1>14 DEF ChainGood

\* The last phase is done, or the outcome of the first attempt is known to be none:
\* the next message is a Dispatch, of an attempt that has not been.
LEMMA DispatchChain ==
  ASSUME NEW rows, NEW o, NEW e, NEW v \in Nat, NEW v2 \in Nat, v2 >= v, NEW n \in Nat, NEW d, NEW w,
         ChainGood(rows, o, e, v, n, d, w),
         NEW r \in rows, NEW s, Replaces(s, r), s.state = "Completed", Active(r),
         r.op = o.number, ~o.finished,
         \/ o.phase = 1 /\ r.kind = "Drive"
         \/ o.phase = 2 /\ r.kind = "Observe",
         NEW o2 \in Operations, o2.number = o.number, o2.phase = 2, ~o2.finished,
         o2.version = o.version \/ (o.phase = 1 /\ o2.version = o.version + 1),
         NEW e2 \in Executions, e2.state = "Pending", e2.attempt = e.attempt + 1,
         e2.version = e.version + 1, e2.next = e.next,
         NEW m, m = DispatchMessage(o.number, e.attempt + 1, e.version + 1)
  PROVE  ChainGood(Enqueued((rows \ {r}) \cup {s}, m), o2, e2, v2, n, d, w)
<1> DEFINE p == (rows \ {r}) \cup {s}
<1>1. /\ o.number \in Nat /\ o.number > 0 /\ o.version \in Nat
      /\ e \in Executions /\ e.attempt \in Nat /\ e.next \in Nat /\ e.version \in Nat
  BY ChainTypes
<1>2. /\ m.key = <<"Dispatch", o.number, e.attempt + 1, "Chain">> /\ m.kind = "Dispatch" /\ m.op = o.number
      /\ m.expected = e.version + 1 /\ m.sequence = e.attempt + 1 /\ m.state = "Pending" /\ m \in Rows
  BY <1>1 DEF DispatchMessage, Row, OwnerOf, Rows, Identities, Kinds, RowStates
<1>3. RowsGood(p, o, e, v, n)
  BY RowsReplace DEF ChainGood
<1>4. Grows(o, e, v, n, o2, e2, v2, n)
  BY <1>1 DEF Grows
<1>5. RowsGood(p, o2, e2, v2, n)
  BY <1>3, <1>4, RowsGrow
<1>6. \A t \in p : t.key # m.key
  BY <1>1, <1>2, <1>3, FreshDispatch
<1>7. \A t \in rows : Active(t) /\ t.op = o.number => t.kind # "Dispatch" /\ (t.kind = "Observe" => t = r)
  BY DEF ChainGood, Current, RowCurrent, RowsGood
<1>8. \A t \in p : ~(Active(t) /\ t.kind = m.kind /\ t.op = m.op)
  BY <1>2, <1>7 DEF Active, Replaces
<1>9. Enqueued(p, m) = p \cup {m}
  BY <1>1, <1>2, <1>6, <1>8, Added
<1>10. MessageGood(m, o2, e2, v2, n)
  BY <1>1, <1>2 DEF MessageGood, KeyGood
<1>11. RowsGood(p \cup {m}, o2, e2, v2, n)
  BY <1>5, <1>9, <1>10, RowsEnqueue
<1>12. WakesGood(p \cup {m}, v2, d, w)
  <2>1. r.kind # "WakeDependents"
    OBVIOUS
  <2>2. WakesGood(p, v, d, w)
    BY <2>1, WakesReplace DEF ChainGood
  <2>3. QED
    BY <1>2, <2>2, WakesAdd
<1>13. Current(p \cup {m}, o2, e2)
  <2>1. ASSUME NEW t \in rows, t # r, Active(t), t.op = o.number PROVE RowCurrent(t, o2, e2)
    <3>1. RowCurrent(t, o, e) /\ t.kind # "Dispatch" /\ t.kind # "Observe"
      BY <1>7, <2>1 DEF ChainGood, Current
    <3>2. t.kind = "Drive" /\ t.expected = o.version /\ r.kind # "Drive"
      BY <2>1, <3>1 DEF RowCurrent, ChainGood, RowsGood
    <3>3. QED
      BY <3>2 DEF RowCurrent
  <2>2. RowCurrent(m, o2, e2)
    BY <1>2 DEF RowCurrent
  <2>3. QED
    BY <1>2, <2>1, <2>2 DEF ChainGood, Current, Active, Replaces
<1>14. Carried(p \cup {m}, o2, e2)
  <2>1. Carries(m, o2, e2)
    BY <1>2 DEF Carries
  <2>2. QED
    BY <2>1 DEF Carried
<1>15. PairGood(o2, e2)
  BY <1>1 DEF ChainGood, PairGood
<1>16. QED
  BY <1>9, <1>11, <1>12, <1>13, <1>14, <1>15 DEF ChainGood

\* The lease of a dispatch and the state Dispatching are written together.
LEMMA LeaseChain ==
  ASSUME NEW rows, NEW o, NEW e, NEW v \in Nat, NEW n \in Nat, NEW d, NEW w,
         ChainGood(rows, o, e, v, n, d, w),
         NEW r \in rows, NEW s, Replaces(s, r), s.state = "Leased", s.expected = r.expected,
         Active(r), r.kind = "Dispatch", r.op = o.number,
         r.expected = e.version, r.sequence = e.attempt, e.state = "Pending",
         NEW e2 \in Executions, e2.state = "Dispatching", e2.version = e.version + 1,
         e2.attempt = e.attempt, e2.next = e.next
  PROVE  ChainGood((rows \ {r}) \cup {s}, o, e2, v, n, d, w)
<1> DEFINE p == (rows \ {r}) \cup {s}
<1>1. /\ o.number \in Nat /\ o.version \in Nat /\ e.attempt \in Nat /\ e.next \in Nat
      /\ e.version \in Nat
  BY ChainTypes
<1>2. ~o.finished /\ RowCurrent(r, o, e)
  BY DEF ChainGood, PairGood, Current
<1>3. o.phase = 2
  BY <1>2 DEF RowCurrent
<1>4. Grows(o, e, v, n, o, e2, v, n)
  BY <1>1 DEF Grows
<1>5. RowsGood(p, o, e2, v, n)
  BY <1>4, RowsReplace, RowsGrow DEF ChainGood
<1>6. WakesGood(p, v, d, w)
  BY WakesReplace DEF ChainGood
<1>7. Current(p, o, e2)
  <2>1. \A t \in rows : t # r /\ Active(t) /\ t.op = o.number => t.kind = "Drive" /\ t.expected = o.version
    BY <1>2 DEF ChainGood, Current, RowCurrent, RowsGood
  <2>2. RowCurrent(s, o, e2)
    BY <1>3 DEF RowCurrent, Replaces
  <2>3. \A t \in rows : t # r /\ Active(t) /\ t.op = o.number => RowCurrent(t, o, e2)
    BY <2>1 DEF RowCurrent
  <2>4. QED
    BY <1>2, <2>2, <2>3 DEF ChainGood, Current, Replaces
<1>8. Carried(p, o, e2)
  <2>1. Carries(s, o, e2)
    BY <1>3 DEF Carries, Replaces
  <2>2. QED
    BY <2>1 DEF Carried
<1>9. PairGood(o, e2)
  BY <1>2, <1>3 DEF ChainGood, PairGood
<1>10. QED
  BY <1>5, <1>6, <1>7, <1>8, <1>9 DEF ChainGood

\* A dispatch that was not attempted is pending again, for the new version.
LEMMA UnsentChain ==
  ASSUME NEW rows, NEW o, NEW e, NEW v \in Nat, NEW n \in Nat, NEW d, NEW w,
         ChainGood(rows, o, e, v, n, d, w),
         NEW r \in rows, NEW s, Replaces(s, r), s.state = "Pending", s.expected = e.version + 1,
         r.state = "Leased",
         NEW e2 \in Executions, e2.state = "Pending", e2.version = e.version + 1,
         e2.attempt = e.attempt, e2.next = e.next
  PROVE  ChainGood((rows \ {r}) \cup {s}, o, e2, v, n, d, w)
<1> DEFINE p == (rows \ {r}) \cup {s}
<1>1. /\ o.number \in Nat /\ o.version \in Nat /\ e.attempt \in Nat /\ e.next \in Nat
      /\ e.version \in Nat
  BY ChainTypes
<1>2. /\ ~o.finished /\ r.kind = "Dispatch" /\ r.op = o.number /\ RowCurrent(r, o, e)
  BY DEF ChainGood, Current, Active
<1>3. o.phase = 2 /\ e.state = "Dispatching" /\ r.sequence = e.attempt
  BY <1>2 DEF RowCurrent
<1>4. Grows(o, e, v, n, o, e2, v, n)
  BY <1>1 DEF Grows
<1>5. RowsGood(p, o, e2, v, n)
  BY <1>4, RowsReplace, RowsGrow DEF ChainGood
<1>6. WakesGood(p, v, d, w)
  BY WakesReplace DEF ChainGood
<1>7. Current(p, o, e2)
  <2>1. \A t \in rows : t # r /\ Active(t) /\ t.op = o.number => t.kind = "Drive" /\ t.expected = o.version
    BY <1>2, <1>3 DEF ChainGood, Current, RowCurrent, RowsGood, Active
  <2>2. RowCurrent(s, o, e2)
    BY <1>2, <1>3 DEF RowCurrent, Replaces
  <2>3. \A t \in rows : t # r /\ Active(t) /\ t.op = o.number => RowCurrent(t, o, e2)
    BY <2>1 DEF RowCurrent
  <2>4. QED
    BY <1>2, <2>2, <2>3 DEF ChainGood, Current, Replaces
<1>8. Carried(p, o, e2)
  <2>1. Carries(s, o, e2)
    BY <1>2, <1>3 DEF Carries, Replaces
  <2>2. QED
    BY <2>1 DEF Carried
<1>9. PairGood(o, e2)
  BY <1>2, <1>3 DEF ChainGood, PairGood
<1>10. QED
  BY <1>5, <1>6, <1>7, <1>8, <1>9 DEF ChainGood

\* An observation is scheduled, where there is none and no dispatch: p is the
\* rows without what led to it.
LEMMA ObserveChain ==
  ASSUME NEW p, NEW o, NEW e, NEW v \in Nat, NEW n \in Nat, NEW n2 \in Nat, n2 >= n, NEW d, NEW w,
         RowsGood(p, o, e, v, n), PairGood(o, e), WakesGood(p, v, d, w),
         ~o.finished, o.phase = 2, \A t \in p : t.state # "Leased",
         \A t \in p : Active(t) /\ t.op = o.number => t.kind = "Drive" /\ t.expected = o.version,
         NEW e2 \in Executions, e2.state \in {"Unknown", "Accepted"}, e2.version = e.version + 1,
         e2.attempt = e.attempt, e2.next = e.next + 1,
         NEW m, m = ObserveMessage(o.number, e.next, e.version + 1)
  PROVE  /\ ChainGood(Enqueued(p, m), o, e2, v, n2, d, w)
         /\ m \notin p /\ m \in Enqueued(p, m)
<1>1. /\ o \in Operations /\ o.number \in Nat /\ o.number > 0 /\ o.version \in Nat /\ e.attempt \in Nat
      /\ e.next \in Nat /\ e.next > 0 /\ e.version \in Nat /\ e.attempt > 0
  <2>1. MaxOps \in Nat
    BY BoundsAssumption
  <2>2. QED
    BY <2>1 DEF PairGood, Operations, Executions, Ops
<1>2. /\ m.key = <<"Observe", o.number, e.next, "Chain">> /\ m.kind = "Observe" /\ m.op = o.number
      /\ m.expected = e.version + 1 /\ m.sequence = e.next /\ m.state = "Pending" /\ m \in Rows
  BY <1>1 DEF ObserveMessage, Row, OwnerOf, Rows, Identities, Kinds, RowStates
<1>3. Grows(o, e, v, n, o, e2, v, n2)
  BY <1>1 DEF Grows
<1>4. RowsGood(p, o, e2, v, n2)
  BY <1>3, RowsGrow
<1>5. \A t \in p : t.key # m.key
  BY <1>1, <1>2, FreshObserve
<1>6. \A t \in p : ~(Active(t) /\ t.kind = m.kind /\ t.op = m.op)
  BY <1>2
<1>7. Enqueued(p, m) = p \cup {m}
  BY <1>1, <1>2, <1>5, <1>6, Added
<1>8. MessageGood(m, o, e2, v, n2)
  BY <1>1, <1>2 DEF MessageGood, KeyGood
<1>9. RowsGood(p \cup {m}, o, e2, v, n2)
  BY <1>4, <1>7, <1>8, RowsEnqueue
<1>10. WakesGood(p \cup {m}, v, d, w)
  BY <1>2, WakesAdd
<1>11. Current(p \cup {m}, o, e2)
  <2>1. RowCurrent(m, o, e2)
    BY <1>2 DEF RowCurrent
  <2>2. QED
    BY <1>2, <2>1 DEF Current, RowCurrent
<1>12. Carried(p \cup {m}, o, e2)
  <2>1. Carries(m, o, e2)
    BY <1>2 DEF Carries
  <2>2. QED
    BY <2>1 DEF Carried
<1>13. PairGood(o, e2)
  BY <1>1 DEF PairGood
<1>14. QED
  BY <1>5, <1>7, <1>9, <1>10, <1>11, <1>12, <1>13 DEF ChainGood

\* It follows a dispatch that came back or an observation.
LEMMA ObserveNextChain ==
  ASSUME NEW rows, NEW o, NEW e, NEW v \in Nat, NEW n \in Nat, NEW d, NEW w,
         ChainGood(rows, o, e, v, n, d, w),
         NEW r \in rows, NEW s, Replaces(s, r), s.state = "Completed",
         Active(r), r.op = o.number, ~o.finished, r.state = "Leased" \/ r.kind = "Observe",
         NEW e2 \in Executions, e2.state \in {"Unknown", "Accepted"}, e2.version = e.version + 1,
         e2.attempt = e.attempt, e2.next = e.next + 1,
         NEW m, m = ObserveMessage(o.number, e.next, e.version + 1)
  PROVE  ChainGood(Enqueued((rows \ {r}) \cup {s}, m), o, e2, v, n, d, w)
<1> DEFINE p == (rows \ {r}) \cup {s}
<1>1. RowCurrent(r, o, e)
  BY DEF ChainGood, Current
<1>2. /\ o.phase = 2 /\ r.kind \in {"Dispatch", "Observe"}
      /\ r.kind = "Dispatch" => e.state = "Dispatching"
      /\ r.kind = "Observe" => e.state \in {"Unknown", "Accepted"}
  <2>1. r.state = "Leased" => r.kind = "Dispatch"
    BY DEF ChainGood, Current
  <2>2. QED
    BY <1>1, <2>1 DEF RowCurrent
<1>3. RowsGood(p, o, e, v, n) /\ PairGood(o, e)
  BY RowsReplace DEF ChainGood
<1>4. WakesGood(p, v, d, w)
  BY <1>2, WakesReplace DEF ChainGood
<1>5. \A t \in rows : t # r /\ Active(t) /\ t.op = o.number => t.kind = "Drive" /\ t.expected = o.version
  BY <1>2 DEF ChainGood, Current, RowCurrent, RowsGood
<1>6. \A t \in rows : t.state = "Leased" => t.kind = "Dispatch" /\ t.op = o.number /\ Active(t)
  BY DEF ChainGood, Current, Active
<1>7. \A t \in p : t.state # "Leased"
  BY <1>5, <1>6
<1>8. \A t \in p : Active(t) /\ t.op = o.number => t.kind = "Drive" /\ t.expected = o.version
  BY <1>5 DEF Active
<1>9. QED
  BY <1>2, <1>3, <1>4, <1>7, <1>8, ObserveChain

\* It follows nothing when the operator asks for it.
LEMMA ObserveAskedChain ==
  ASSUME NEW rows, NEW o, NEW e, NEW v \in Nat, NEW n \in Nat, NEW d, NEW w,
         ChainGood(rows, o, e, v, n, d, w), ~o.finished, e.state \in {"Unknown", "Accepted"},
         \A t \in rows : ~(Active(t) /\ t.kind = "Observe" /\ t.op = o.number),
         NEW e2 \in Executions, e2.state = e.state, e2.version = e.version + 1,
         e2.attempt = e.attempt, e2.next = e.next + 1,
         NEW m, m = ObserveMessage(o.number, e.next, e.version + 1)
  PROVE  /\ ChainGood(Enqueued(rows, m), o, e2, v, n + 1, d, w)
         /\ m \notin rows /\ m \in Enqueued(rows, m)
<1>1. o.phase = 2
  BY ChainTypes DEF ChainGood, PairGood
<1>2. \A t \in rows : Active(t) /\ t.op = o.number => t.kind = "Drive" /\ t.expected = o.version
  BY DEF ChainGood, Current, RowCurrent
<1>3. \A t \in rows : t.state # "Leased"
  BY <1>2 DEF ChainGood, Current, Active
<1>4. n + 1 \in Nat /\ n + 1 >= n
  OBVIOUS
<1>5. QED
  BY <1>1, <1>2, <1>3, <1>4, ObserveChain DEF ChainGood

\* Something is added beside the chain, or a Drive at the current version.
LEMMA BesideChain ==
  ASSUME NEW rows, NEW o, NEW e, NEW v \in Nat, NEW n \in Nat, NEW n2 \in Nat, n2 >= n, NEW d, NEW w,
         ChainGood(rows, o, e, v, n, d, w), NEW m, MessageGood(m, o, e, v, n2),
         m.op = 0 \/ (m.kind = "Drive" /\ m.expected = o.version)
  PROVE  ChainGood(Enqueued(rows, m), o, e, v, n2, d, w)
<1>1. /\ o.number \in Nat /\ o.number > 0 /\ o.version \in Nat /\ e.attempt \in Nat /\ e.next \in Nat
  BY ChainTypes
<1>2. Grows(o, e, v, n, o, e, v, n2)
  BY <1>1 DEF Grows
<1>3. RowsGood(rows, o, e, v, n2)
  BY <1>2, RowsGrow DEF ChainGood
<1>4. RowsGood(Enqueued(rows, m), o, e, v, n2)
  BY <1>3, RowsEnqueue
<1>5. Enqueued(rows, m) = rows \/ Enqueued(rows, m) = rows \cup {m}
  BY DEF Enqueued
<1>6. WakesGood(rows \cup {m}, v, d, w)
  BY WakesAdd DEF ChainGood, MessageGood
<1>7. Current(rows \cup {m}, o, e)
  <2>1. m.op = o.number => RowCurrent(m, o, e)
    BY <1>1 DEF RowCurrent
  <2>2. QED
    BY <2>1 DEF ChainGood, Current, MessageGood
<1>8. Carried(rows \cup {m}, o, e)
  BY DEF ChainGood, Carried
<1>9. QED
  BY <1>4, <1>5, <1>6, <1>7, <1>8 DEF ChainGood

\* At most one row is added, that is not an operation's.
Beside(q, p) == q = p \/ \E m : m.op = 0 /\ m.state = "Pending" /\ q = p \cup {m}

\* The wake of the dependents is enqueued, or folded into an active one.
LEMMA WakeQueued ==
  ASSUME NEW p, NEW o, NEW e, NEW v \in Nat, NEW n \in Nat, NEW o2, NEW e2, NEW w \in Nat,
         RowsGood(p, o, e, v, n), Grows(o, e, v, n, o2, e2, v + 1, n),
         \A r \in p : r.kind = "WakeDependents" /\ r.state = "Completed" => r.expected <= w
  PROVE  /\ RowsGood(WithWake(p, v + 1), o2, e2, v + 1, n)
         /\ WakesGood(WithWake(p, v + 1), v + 1, v + 1, w)
         /\ Beside(WithWake(p, v + 1), p)
<1>1. PICK m : m = WakeDependentsMessage(v + 1)
  OBVIOUS
<1>2. /\ m.key = <<"WakeDependents", 0, v + 1, "Chain">> /\ m.kind = "WakeDependents" /\ m.op = 0
      /\ m.expected = v + 1 /\ m.state = "Pending" /\ m \in Rows
  BY <1>1 DEF WakeDependentsMessage, Row, OwnerOf, Rows, Identities, Kinds, RowStates
<1>3. WithWake(p, v + 1) = Enqueued(p, m)
  BY <1>1 DEF WithWake
<1>4. RowsGood(p, o2, e2, v + 1, n)
  BY RowsGrow
<1>5. MessageGood(m, o2, e2, v + 1, n)
  BY <1>2 DEF MessageGood, KeyGood, Grows
<1>6. RowsGood(Enqueued(p, m), o2, e2, v + 1, n)
  BY <1>4, <1>5, RowsEnqueue
<1>7. \A r \in p : r.key # m.key
  BY <1>2, FreshWake
<1>8. /\ Enqueued(p, m) = p \/ Enqueued(p, m) = p \cup {m}
      /\ \E r \in Enqueued(p, m) : r.kind = "WakeDependents" /\ r.state # "Completed"
  <2>1. CASE \A r \in p : ~(Active(r) /\ r.kind = m.kind /\ r.op = m.op)
    BY <1>2, <1>7, <2>1, Added
  <2>2. CASE \E r \in p : Active(r) /\ r.kind = m.kind /\ r.op = m.op
    <3>1. Enqueued(p, m) = p \/ Enqueued(p, m) = p \cup {m}
      BY DEF Enqueued
    <3>2. QED
      BY <1>2, <2>2, <3>1 DEF Active
  <2>3. QED
    BY <2>1, <2>2
<1>9. \A r \in Enqueued(p, m) : r.kind = "WakeDependents" /\ r.state = "Completed" => r.expected <= w
  BY <1>2, <1>8
<1>10. v + 1 \in Nat /\ v + 1 <= v + 1
  OBVIOUS
<1>11. WakesGood(Enqueued(p, m), v + 1, v + 1, w)
  BY <1>8, <1>9, <1>10 DEF WakesGood
<1>12. QED
  BY <1>2, <1>3, <1>6, <1>8, <1>11 DEF Beside

\* The terminal transition.
LEMMA FinishChain ==
  ASSUME NEW rows, NEW o, NEW e, NEW v \in Nat, NEW n \in Nat, NEW d, NEW w,
         ChainGood(rows, o, e, v, n, d, w),
         NEW r \in rows, NEW s, Replaces(s, r), s.state = "Completed", Active(r), r.kind = "Observe",
         r.op = o.number, ~o.finished,
         NEW o2 \in Operations, o2.number = o.number, o2.version = o.version + 1, o2.finished,
         NEW e2 \in Executions, e2.state = "Done", e2.attempt = e.attempt, e2.next = e.next
  PROVE  ChainGood(WithWake((rows \ {r}) \cup {s}, v + 1), o2, e2, v + 1, n, v + 1, w)
<1> DEFINE p == (rows \ {r}) \cup {s}
           q == WithWake(p, v + 1)
<1>1. /\ o.number \in Nat /\ o.version \in Nat /\ e.attempt \in Nat /\ e.next \in Nat
  BY ChainTypes
<1>2. Grows(o, e, v, n, o2, e2, v + 1, n)
  BY <1>1 DEF Grows
<1>3. RowsGood(p, o, e, v, n)
  BY RowsReplace DEF ChainGood
<1>4. w \in Nat /\ \A t \in p : t.kind = "WakeDependents" /\ t.state = "Completed" => t.expected <= w
  BY DEF ChainGood, WakesGood, Replaces
<1>5. /\ RowsGood(q, o2, e2, v + 1, n) /\ WakesGood(q, v + 1, v + 1, w)
      /\ Beside(q, p)
  BY <1>2, <1>3, <1>4, WakeQueued
<1>6. \A t \in rows : t.state # "Leased"
  <2>1. RowCurrent(r, o, e)
    BY DEF ChainGood, Current
  <2>2. e.state \in {"Unknown", "Accepted"}
    BY <2>1 DEF RowCurrent
  <2>3. ASSUME NEW t \in rows, t.state = "Leased" PROVE FALSE
    <3>1. t.kind = "Dispatch" /\ RowCurrent(t, o, e)
      BY <2>3 DEF ChainGood, Current, Active
    <3>2. QED
      BY <2>2, <2>3, <3>1 DEF RowCurrent
  <2>4. QED
    BY <2>3
<1>7. Current(q, o2, e2)
  BY <1>5, <1>6 DEF Current, Beside
<1>8. Carried(q, o2, e2) /\ PairGood(o2, e2)
  BY DEF Carried, PairGood
<1>9. QED
  BY <1>5, <1>7, <1>8 DEF ChainGood

\* Facts of a resource at rest are applied.
LEMMA PassiveChain ==
  ASSUME NEW rows, NEW o, NEW e, NEW v \in Nat, NEW n \in Nat, NEW d, NEW w,
         ChainGood(rows, o, e, v, n, d, w),
         NEW r \in rows, NEW s, Replaces(s, r), s.state = "Completed", r.kind = "PassiveObserve",
         o.finished
  PROVE  ChainGood(WithWake((rows \ {r}) \cup {s}, v + 1), o, e, v + 1, n, v + 1, w)
<1> DEFINE p == (rows \ {r}) \cup {s}
           q == WithWake(p, v + 1)
<1>1. /\ o.number \in Nat /\ o.version \in Nat /\ e.attempt \in Nat /\ e.next \in Nat
  BY ChainTypes
<1>2. Grows(o, e, v, n, o, e, v + 1, n)
  BY <1>1 DEF Grows
<1>3. RowsGood(p, o, e, v, n)
  BY RowsReplace DEF ChainGood
<1>4. w \in Nat /\ \A t \in p : t.kind = "WakeDependents" /\ t.state = "Completed" => t.expected <= w
  BY DEF ChainGood, WakesGood, Replaces
<1>5. /\ RowsGood(q, o, e, v + 1, n) /\ WakesGood(q, v + 1, v + 1, w)
      /\ Beside(q, p)
  BY <1>2, <1>3, <1>4, WakeQueued
<1>6. \A t \in rows : t.state # "Leased"
  BY DEF ChainGood, Current
<1>7. Current(q, o, e)
  BY <1>5, <1>6 DEF Current, Beside
<1>8. Carried(q, o, e)
  BY DEF Carried
<1>9. QED
  BY <1>5, <1>7, <1>8 DEF ChainGood

\* The dependents are woken; the handshake goes on when the version has moved.
LEMMA WakeChain ==
  ASSUME NEW rows, NEW o, NEW e, NEW v \in Nat, NEW n \in Nat, NEW d, NEW w,
         ChainGood(rows, o, e, v, n, d, w),
         NEW r \in rows, NEW s, Replaces(s, r), s.state = "Completed", r.kind = "WakeDependents",
         NEW w2, w2 = IF r.expected > w THEN r.expected ELSE w,
         NEW q, q = IF r.expected # v THEN Enqueued((rows \ {r}) \cup {s}, WakeDependentsMessage(v))
                                      ELSE (rows \ {r}) \cup {s}
  PROVE  ChainGood(q, o, e, v, n, d, w2)
<1> DEFINE p == (rows \ {r}) \cup {s}
<1>1. PICK m : m = WakeDependentsMessage(v)
  OBVIOUS
<1>2. /\ m.key = <<"WakeDependents", 0, v, "Chain">> /\ m.kind = "WakeDependents" /\ m.op = 0
      /\ m.expected = v /\ m.state = "Pending" /\ m \in Rows
  BY <1>1 DEF WakeDependentsMessage, Row, OwnerOf, Rows, Identities, Kinds, RowStates
<1>3. q = p \/ q = p \cup {m}
  BY <1>1 DEF Enqueued
<1>4. RowsGood(p, o, e, v, n)
  BY RowsReplace DEF ChainGood
<1>5. o.number \in Nat /\ o.number > 0 /\ rows \subseteq Rows
  BY ChainTypes
<1>6. RowsGood(q, o, e, v, n)
  <2>1. MessageGood(m, o, e, v, n)
    BY <1>2, <1>5 DEF MessageGood, KeyGood
  <2>2. RowsGood(Enqueued(p, m), o, e, v, n)
    BY <1>4, <2>1, RowsEnqueue
  <2>3. QED
    BY <1>1, <1>4, <2>2
<1>7. r.expected \in Nat /\ w \in Nat /\ d \in Nat /\ d <= v /\ r.op = 0
  BY <1>5 DEF Rows, ChainGood, WakesGood, RowsGood
<1>8. w2 \in Nat /\ w2 >= w /\ w2 >= r.expected
  BY <1>7
<1>9. \A t \in p : t.kind = "WakeDependents" /\ t.state = "Completed" => t.expected <= w2
  <2>1. ASSUME NEW t \in rows, t.kind = "WakeDependents", t.state = "Completed" PROVE t.expected <= w2
    <3>1. t.expected \in Nat /\ t.expected <= w
      BY <1>5, <2>1 DEF Rows, ChainGood, WakesGood
    <3>2. QED
      BY <1>7, <1>8, <3>1
  <2>2. s.expected <= w2
    BY <1>7, <1>8 DEF Replaces
  <2>3. QED
    BY <2>1, <2>2
<1>10. w2 < d => \E t \in q : t.kind = "WakeDependents" /\ t.state # "Completed"
  <2>1. SUFFICES ASSUME w2 < d PROVE \E t \in q : t.kind = "WakeDependents" /\ t.state # "Completed"
    OBVIOUS
  <2>2. r.expected # v
    BY <1>7, <1>8, <2>1
  <2>3. q = Enqueued(p, m)
    BY <1>1, <2>2
  <2>4. CASE Spent(p, m)
    <3>1. PICK t \in p : t.key = m.key
      BY <2>4 DEF Spent
    <3>2. t.kind = "WakeDependents" /\ t.expected = v
      BY <1>2, <1>4, <3>1 DEF RowsGood, KeyGood
    <3>3. t.state # "Completed"
      BY <1>7, <1>8, <1>9, <2>1, <3>2
    <3>4. QED
      BY <1>3, <3>2, <3>3
  <2>5. CASE \E t \in p : Active(t) /\ t.kind = m.kind /\ t.op = m.op
    BY <1>2, <1>3, <2>5 DEF Active
  <2>6. CASE ~Spent(p, m) /\ \A t \in p : ~(Active(t) /\ t.kind = m.kind /\ t.op = m.op)
    <3>1. q = p \cup {m}
      BY <1>2, <2>3, <2>6, Added DEF Spent
    <3>2. QED
      BY <1>2, <3>1
  <2>7. QED
    BY <2>4, <2>5, <2>6
<1>11. WakesGood(q, v, d, w2)
  BY <1>2, <1>3, <1>7, <1>8, <1>9, <1>10 DEF WakesGood
<1>12. Current(q, o, e)
  <2>1. \A t \in q : t \in rows \/ (t.op # o.number /\ t.state # "Leased")
    <3>1. s.op = 0 /\ m.op = 0 /\ s.state # "Leased" /\ m.state # "Leased" /\ o.number # 0
      BY <1>2, <1>5, <1>7 DEF Replaces
    <3>2. \A t \in q : t \in rows \/ t = s \/ t = m
      BY <1>3
    <3>3. QED
      BY <3>1, <3>2
  <2>2. QED
    BY <2>1 DEF ChainGood, Current
<1>13. Carried(q, o, e)
  <2>1. ~Carries(r, o, e)
    BY <1>5, <1>7 DEF Carries
  <2>2. QED
    BY <1>3, <2>1 DEF ChainGood, Carried
<1>14. QED
  BY <1>6, <1>11, <1>12, <1>13 DEF ChainGood

\* The next operation begins a chain of its own.
LEMMA NextChain ==
  ASSUME NEW rows, NEW o, NEW e, NEW v \in Nat, NEW n \in Nat, NEW d, NEW w,
         ChainGood(rows, o, e, v, n, d, w), o.finished,
         NEW o2 \in Operations, o2.number = o.number + 1, o2.phase = 0, o2.version = 1, ~o2.finished,
         NEW e2 \in Executions, e2.state = "Pending", e2.attempt = 0,
         NEW p, p = {r \in rows : Relevant(r)}, NEW m, m = DriveMessage(o.number + 1, 1)
  PROVE  ChainGood(Enqueued(p, m), o2, e2, v + 1, n, d, w)
<1>1. /\ o.number \in Nat /\ o.number > 0 /\ rows \subseteq Rows
  BY ChainTypes
<1>2. /\ m.key = <<"Drive", o.number + 1, 1, "Chain">> /\ m.kind = "Drive" /\ m.op = o.number + 1
      /\ m.expected = 1 /\ m.state = "Pending" /\ m \in Rows
  BY <1>1 DEF DriveMessage, Row, OwnerOf, Rows, Identities, Kinds, RowStates
<1>3. \A t \in rows : t.op \in Nat /\ t.op <= o.number /\ t.op # o2.number
  BY <1>1 DEF ChainGood, RowsGood, Rows
<1>4. RowsGood(p, o2, e2, v + 1, n)
  <2>1. ASSUME NEW t \in p PROVE KeyGood(t, o2, e2, v + 1, n)
    <3>1. t \in rows /\ KeyGood(t, o, e, v, n) /\ t.op # o2.number /\ t.expected \in Nat
      BY <1>1, <1>3 DEF ChainGood, RowsGood, Rows
    <3>2. t.expected <= v => t.expected <= v + 1
      BY <3>1
    <3>3. QED
      BY <3>1, <3>2 DEF KeyGood
  <2>2. \A t \in p : t.op <= o2.number
    BY <1>1, <1>3
  <2>3. QED
    BY <2>1, <2>2 DEF ChainGood, RowsGood
<1>5. \A t \in p : t.key # m.key
  <2>1. ASSUME NEW t \in rows, t.key = m.key PROVE FALSE
    <3>1. t.op = o.number + 1
      BY <1>2, <2>1 DEF ChainGood, RowsGood, KeyGood
    <3>2. QED
      BY <1>3, <3>1
  <2>2. QED
    BY <2>1
<1>6. \A t \in p : ~(Active(t) /\ t.kind = m.kind /\ t.op = m.op)
  BY <1>2, <1>3
<1>7. Enqueued(p, m) = p \cup {m}
  BY <1>1, <1>2, <1>5, <1>6, Added
<1>8. MessageGood(m, o2, e2, v + 1, n)
  BY <1>1, <1>2 DEF MessageGood, KeyGood
<1>9. RowsGood(p \cup {m}, o2, e2, v + 1, n)
  BY <1>4, <1>7, <1>8, RowsEnqueue
<1>10. WakesGood(p \cup {m}, v + 1, d, w)
  <2>1. ASSUME NEW t \in rows, t.kind = "WakeDependents", t.state # "Completed" PROVE t \in p
    <3>1. t.op = 0 /\ t.state \in RowStates
      BY <1>1, <2>1 DEF ChainGood, RowsGood, Rows
    <3>2. QED
      BY <2>1, <3>1 DEF Relevant, Active, RowStates
  <2>2. WakesGood(p, v, d, w)
    BY <2>1 DEF ChainGood, WakesGood
  <2>3. v + 1 \in Nat /\ v + 1 >= v
    OBVIOUS
  <2>4. QED
    BY <1>2, <2>2, <2>3, WakesAdd
<1>11. Current(p \cup {m}, o2, e2)
  <2>1. RowCurrent(m, o2, e2)
    BY <1>2 DEF RowCurrent
  <2>2. QED
    BY <1>2, <1>3, <2>1 DEF ChainGood, Current
<1>12. Carried(p \cup {m}, o2, e2)
  <2>1. Carries(m, o2, e2)
    BY <1>2 DEF Carries
  <2>2. QED
    BY <2>1 DEF Carried
<1>13. PairGood(o2, e2)
  BY DEF PairGood
<1>14. QED
  BY <1>7, <1>9, <1>10, <1>11, <1>12, <1>13 DEF ChainGood

-----------------------------------------------------------------------------
(* The steps. *)

\* What is known of the state.
LEMMA StateTypes ==
  ASSUME RInv
  PROVE  /\ ChainGood(outbox, op, exec, resource.version, Cardinality(ledger), due, woken)
         /\ op \in Operations /\ exec \in Executions /\ resource \in Resources
         /\ resource.version \in Nat /\ Cardinality(ledger) \in Nat /\ outbox \subseteq Rows
         /\ op.number \in Nat /\ op.number > 0 /\ op.version \in Nat /\ op.phase \in {0, 1, 2}
         /\ exec.version \in Nat /\ exec.attempt \in Nat /\ exec.next \in Nat /\ exec.next > 0
<1>1. /\ ChainGood(outbox, op, exec, resource.version, Cardinality(ledger), due, woken)
      /\ resource \in Resources /\ IsFiniteSet(ledger)
  BY DEF RInv, LedgerGood
<1>2. Cardinality(ledger) \in Nat
  BY <1>1, FS_CardinalityType
<1>3. QED
  BY <1>1, <1>2, ChainTypes DEF Resources

\* A step of the workers, who do not touch what the operator has.
LEMMA WorkStep ==
  ASSUME RInv, ChainGood(outbox, op, exec, resource.version, Cardinality(ledger), due, woken)',
         resource' \in Resources, UNCHANGED <<observer, operator>>
  PROVE  RInv'
<1>1. registered' = registered /\ toggles' = toggles /\ ledger' = ledger /\ shown' = shown
  BY DEF observer, operator
<1>2. QED
  BY <1>1 DEF RInv, LedgerGood, ShownGood, NothingShown

\* The same for values that stand for the new state.
LEMMA WorkLands ==
  ASSUME RInv, NEW rows, NEW o, NEW e, NEW v, NEW d, NEW w,
         ChainGood(rows, o, e, v, Cardinality(ledger), d, w),
         outbox' = rows, op' = o, exec' = e, resource'.version = v, due' = d, woken' = w,
         resource' \in Resources, UNCHANGED <<observer, operator>>
  PROVE  RInv'
<1>1. ledger' = ledger
  BY DEF operator
<1>2. ChainGood(outbox, op, exec, resource.version, Cardinality(ledger), due, woken)'
  BY <1>1
<1>3. QED
  BY <1>2, WorkStep

\* A row of the outbox that is settled.
LEMMA SettleReplaces ==
  ASSUME RInv, NEW r \in outbox, NEW state \in {"Completed", "Dead"}, NEW s,
         s = [r EXCEPT !.state = state]
  PROVE  Replaces(s, r) /\ s.state = state
<1>1. r \in Rows /\ state \in RowStates
  BY StateTypes DEF RowStates
<1>2. /\ s \in Rows /\ s.key = r.key /\ s.kind = r.kind /\ s.op = r.op
      /\ s.expected = r.expected /\ s.sequence = r.sequence /\ s.state = state
  BY <1>1, RowSettles
<1>3. QED
  BY <1>2 DEF Replaces, Active

\* A message is quarantined.
LEMMA QuarantineKeeps ==
  ASSUME RInv, NEW r \in outbox, Quarantine(r)
  PROVE  RInv'
<1>1. PICK s : s = [r EXCEPT !.state = "Dead"]
  OBVIOUS
<1>2. Replaces(s, r) /\ s.state = "Dead"
  BY <1>1, SettleReplaces
<1>3. PICK p : p = (outbox \ {r}) \cup {s}
  OBVIOUS
<1>4. ChainGood(p, op, exec, resource.version, Cardinality(ledger), due, woken)
  BY <1>2, <1>3, StateTypes, QuarantineChain DEF Quarantine
<1>5. outbox' = p
  BY <1>1, <1>3 DEF Quarantine, Settled
<1>6. QED
  BY <1>4, <1>5, StateTypes, WorkLands DEF Quarantine

\* Work that is stale is completed and nothing else happens.
LEMMA StaleKeeps ==
  ASSUME RInv, NEW r \in outbox, r.kind # "WakeDependents", op.finished \/ ~Carries(r, op, exec),
         outbox' = Completed(r), UNCHANGED <<op, exec, resource, due, woken, observer, operator>>
  PROVE  RInv'
<1>1. PICK s : s = [r EXCEPT !.state = "Completed"]
  OBVIOUS
<1>2. Replaces(s, r) /\ s.state = "Completed"
  BY <1>1, SettleReplaces
<1>3. PICK p : p = (outbox \ {r}) \cup {s}
  OBVIOUS
<1>4. ChainGood(p, op, exec, resource.version, Cardinality(ledger), due, woken)
  BY <1>2, <1>3, StateTypes, StaleChain
<1>5. outbox' = p
  BY <1>1, <1>3 DEF Completed, Settled
<1>6. QED
  BY <1>4, <1>5, StateTypes, WorkLands

\* A phase of the operation.
LEMMA DriveKeeps ==
  ASSUME RInv, NEW r \in outbox, Drive(r)
  PROVE  RInv'
<1> DEFINE stale == op.finished \/ op.number # r.op \/ op.version # r.expected \/ op.phase = 2
<1>1. /\ r.state = "Pending" /\ r.kind = "Drive" /\ Active(r)
      /\ UNCHANGED <<due, woken, observer, operator>>
  BY DEF Drive, Active
<1>2. CASE stale /\ outbox' = Completed(r) /\ UNCHANGED <<op, exec, resource>>
  <2>1. op.finished \/ ~Carries(r, op, exec)
    <3>1. SUFFICES ASSUME ~op.finished, Carries(r, op, exec) PROVE FALSE
      OBVIOUS
    <3>2. r.op = op.number /\ op.phase # 2
      BY <1>1, <3>1, StateTypes DEF Carries
    <3>3. RowCurrent(r, op, exec)
      BY <1>1, <3>1, <3>2 DEF RInv, ChainGood, Current
    <3>4. QED
      BY <1>1, <1>2, <3>1, <3>2, <3>3 DEF RowCurrent
  <2>2. QED
    BY <1>1, <1>2, <2>1, StaleKeeps
<1>3. CASE /\ ~stale
           /\ op' = [op EXCEPT !.phase = @ + 1, !.version = @ + 1]
           /\ resource' = [resource EXCEPT !.version = @ + 1]
           /\ exec' = IF op.phase = 1 THEN [exec EXCEPT !.attempt = 1, !.version = @ + 1] ELSE exec
           /\ outbox' = Enqueued(Completed(r),
                          IF op.phase = 1 THEN DispatchMessage(r.op, 1, exec.version + 1)
                                          ELSE DriveMessage(r.op, op.version + 1))
  <2>1. PICK s : s = [r EXCEPT !.state = "Completed"]
    OBVIOUS
  <2>2. Replaces(s, r) /\ s.state = "Completed"
    BY <2>1, SettleReplaces
  <2>3. Completed(r) = (outbox \ {r}) \cup {s}
    BY <2>1 DEF Completed, Settled
  <2>4. /\ ~op.finished /\ r.op = op.number /\ op.phase \in {0, 1}
    BY <1>3, StateTypes
  <2>5. PICK o : o = [op EXCEPT !.phase = @ + 1, !.version = @ + 1]
    OBVIOUS
  <2>6. /\ o \in Operations /\ o.number = op.number /\ o.phase = op.phase + 1
        /\ o.version = op.version + 1 /\ ~o.finished
    <3>1. op \in Operations /\ op.phase + 1 \in 0..2 /\ op.version + 1 \in Nat
      BY <2>4, StateTypes
    <3>2. QED
      BY <2>4, <2>5, <3>1 DEF Operations
  <2>7. resource' \in Resources /\ resource'.version = resource.version + 1
    BY <1>3, StateTypes DEF Resources
  <2>8. CASE op.phase = 0
    <3>1. PICK m : m = DriveMessage(op.number, op.version + 1)
      OBVIOUS
    <3>2. PICK q : q = Enqueued((outbox \ {r}) \cup {s}, m)
      OBVIOUS
    <3>3. ChainGood(q, o, exec, resource.version + 1, Cardinality(ledger), due, woken)
      <4>1. o.phase = 1
        BY <2>6, <2>8
      <4>2. QED
        BY <1>1, <2>2, <2>4, <2>6, <2>8, <3>1, <3>2, <4>1, StateTypes, AdvanceChain
    <3>4. outbox' = q /\ exec' = exec
      BY <1>3, <2>3, <2>4, <2>8, <3>1, <3>2
    <3>5. QED
      BY <1>1, <1>3, <2>5, <2>7, <3>3, <3>4, WorkLands
  <2>9. CASE op.phase = 1
    <3>1. PICK e : e = [exec EXCEPT !.attempt = 1, !.version = @ + 1]
      OBVIOUS
    <3>2. exec.state = "Pending" /\ exec.attempt = 0
      BY <2>4, <2>9 DEF RInv, ChainGood, PairGood
    <3>3. /\ e \in Executions /\ e.state = "Pending" /\ e.attempt = exec.attempt + 1
          /\ e.version = exec.version + 1 /\ e.next = exec.next
      <4>1. exec \in Executions /\ exec.version + 1 \in Nat /\ exec.attempt + 1 = 1
        BY <3>2, StateTypes
      <4>2. QED
        BY <3>1, <3>2, <4>1 DEF Executions
    <3>4. PICK m : m = DispatchMessage(op.number, exec.attempt + 1, exec.version + 1)
      OBVIOUS
    <3>5. PICK q : q = Enqueued((outbox \ {r}) \cup {s}, m)
      OBVIOUS
    <3>6. resource.version + 1 \in Nat /\ resource.version + 1 >= resource.version /\ o.phase = 2
      BY <2>6, <2>9, StateTypes
    <3>7. ChainGood(q, o, e, resource.version + 1, Cardinality(ledger), due, woken)
      BY <1>1, <2>2, <2>4, <2>6, <2>9, <3>3, <3>4, <3>5, <3>6, StateTypes, DispatchChain
    <3>8. outbox' = q /\ exec' = e
      BY <1>3, <2>3, <2>4, <2>9, <3>1, <3>2, <3>4, <3>5
    <3>9. QED
      BY <1>1, <1>3, <2>5, <2>7, <3>7, <3>8, WorkLands
  <2>10. QED
    BY <2>4, <2>8, <2>9
<1>4. QED
  BY <1>2, <1>3 DEF Drive

\* A dispatch is begun, or is stale.
LEMMA PrepareDispatchKeeps ==
  ASSUME RInv, NEW r \in outbox, PrepareDispatch(r)
  PROVE  RInv'
<1> DEFINE current == /\ exec.version = r.expected /\ exec.attempt = r.sequence
                      /\ exec.state = "Pending" /\ op.number = r.op
<1>1. /\ r.state = "Pending" /\ r.kind = "Dispatch" /\ Active(r)
      /\ UNCHANGED <<op, resource, due, woken, observer, operator>>
  BY DEF PrepareDispatch, Active
<1>2. CASE ~current /\ outbox' = Completed(r) /\ UNCHANGED exec
  <2>1. op.finished \/ ~Carries(r, op, exec)
    <3>1. SUFFICES ASSUME ~op.finished, Carries(r, op, exec) PROVE FALSE
      OBVIOUS
    <3>2. r.op = op.number /\ exec.state = "Pending" /\ r.sequence = exec.attempt
      BY <1>1, <3>1 DEF Carries
    <3>3. RowCurrent(r, op, exec)
      BY <1>1, <3>1, <3>2 DEF RInv, ChainGood, Current
    <3>4. QED
      BY <1>1, <1>2, <3>1, <3>2, <3>3 DEF RowCurrent
  <2>2. QED
    BY <1>1, <1>2, <2>1, StaleKeeps
<1>3. CASE /\ current /\ outbox' = Settled(r, "Leased")
           /\ exec' = [exec EXCEPT !.state = "Dispatching", !.version = @ + 1]
  <2>1. PICK s : s = [r EXCEPT !.state = "Leased"]
    OBVIOUS
  <2>2. Replaces(s, r) /\ s.state = "Leased" /\ s.expected = r.expected
    <3>1. r \in Rows /\ "Leased" \in RowStates
      BY StateTypes DEF RowStates
    <3>2. /\ s \in Rows /\ s.key = r.key /\ s.kind = r.kind /\ s.op = r.op
          /\ s.expected = r.expected /\ s.sequence = r.sequence /\ s.state = "Leased"
      BY <2>1, <3>1, RowSettles
    <3>3. QED
      BY <1>1, <3>2 DEF Replaces
  <2>3. PICK e : e = [exec EXCEPT !.state = "Dispatching", !.version = @ + 1]
    OBVIOUS
  <2>4. /\ e \in Executions /\ e.state = "Dispatching" /\ e.version = exec.version + 1
        /\ e.attempt = exec.attempt /\ e.next = exec.next
    <3>1. exec \in Executions /\ exec.version + 1 \in Nat
      BY StateTypes
    <3>2. QED
      BY <2>3, <3>1 DEF Executions, ExecutionStates
  <2>5. PICK p : p = (outbox \ {r}) \cup {s}
    OBVIOUS
  <2>6. ChainGood(p, op, e, resource.version, Cardinality(ledger), due, woken)
    BY <1>1, <1>3, <2>2, <2>4, <2>5, StateTypes, LeaseChain
  <2>7. outbox' = p
    BY <1>3, <2>1, <2>5 DEF Settled
  <2>8. QED
    BY <1>1, <1>3, <2>3, <2>6, <2>7, StateTypes, WorkLands
<1>4. QED
  BY <1>2, <1>3 DEF PrepareDispatch

\* An observation comes next: after r, with what is known of the outcome.
LEMMA ObserveNextKeeps ==
  ASSUME RInv, NEW r \in outbox, Active(r), r.op = op.number, ~op.finished,
         r.state = "Leased" \/ r.kind = "Observe",
         NEW state \in {"Unknown", "Accepted"},
         exec' = NextObserve([exec EXCEPT !.state = state]),
         outbox' = Enqueued(Completed(r), ObserveFor([exec EXCEPT !.state = state])),
         UNCHANGED <<op, resource, due, woken, observer, operator>>
  PROVE  RInv'
<1>1. PICK s : s = [r EXCEPT !.state = "Completed"]
  OBVIOUS
<1>2. Replaces(s, r) /\ s.state = "Completed"
  BY <1>1, SettleReplaces
<1> DEFINE e1 == [exec EXCEPT !.state = state]
<1>3. PICK e : e = NextObserve(e1)
  OBVIOUS
<1>4. /\ e \in Executions /\ e.state = state /\ e.version = exec.version + 1
      /\ e.attempt = exec.attempt /\ e.next = exec.next + 1
      /\ e1.next = exec.next /\ e1.version = exec.version
  <2>1. /\ exec \in Executions /\ exec.version + 1 \in Nat
        /\ exec.next + 1 \in Nat \ {0} /\ state \in ExecutionStates
    BY StateTypes DEF ExecutionStates
  <2>2. /\ e1 \in Executions /\ e1.state = state /\ e1.version = exec.version
        /\ e1.attempt = exec.attempt /\ e1.next = exec.next
    BY <2>1 DEF Executions
  <2>3. QED
    BY <1>3, <2>1, <2>2 DEF NextObserve, Executions
<1>5. PICK m : m = ObserveMessage(op.number, exec.next, exec.version + 1)
  OBVIOUS
<1>6. PICK q : q = Enqueued((outbox \ {r}) \cup {s}, m)
  OBVIOUS
<1>7. ChainGood(q, op, e, resource.version, Cardinality(ledger), due, woken)
  BY <1>2, <1>4, <1>5, <1>6, StateTypes, ObserveNextChain
<1>8. outbox' = q
  BY <1>1, <1>4, <1>5, <1>6 DEF Completed, Settled, ObserveFor
<1>9. QED
  BY <1>3, <1>7, <1>8, StateTypes, WorkLands

\* The call of the provider has returned, or its lease ran out.
LEMMA SubmitReturnsKeeps ==
  ASSUME RInv, NEW r \in outbox, SubmitReturns(r)
  PROVE  RInv'
<1>1. PICK state \in {"Accepted", "Unknown"} :
        LET e1 == [exec EXCEPT !.state = state]
        IN  exec' = NextObserve(e1) /\ outbox' = Enqueued(Completed(r), ObserveFor(e1))
  BY DEF SubmitReturns
<1>2. /\ r.state = "Leased" /\ Active(r) /\ r.op = op.number /\ ~op.finished
      /\ UNCHANGED <<op, resource, due, woken, observer, operator>>
  BY DEF SubmitReturns, Active, RInv, ChainGood, Current
<1>3. QED
  BY <1>1, <1>2, ObserveNextKeeps

\* The call was not made.
LEMMA SubmitNotAttemptedKeeps ==
  ASSUME RInv, NEW r \in outbox, SubmitNotAttempted(r)
  PROVE  RInv'
<1>1. r.state = "Leased" /\ r.kind = "Dispatch" /\ r \in Rows /\ exec.version + 1 \in Nat
  BY StateTypes DEF SubmitNotAttempted, RInv, ChainGood, Current
<1>2. PICK s : s = [r EXCEPT !.state = "Pending", !.expected = exec.version + 1]
  OBVIOUS
<1>3. Replaces(s, r) /\ s.state = "Pending" /\ s.expected = exec.version + 1
  BY <1>1, <1>2 DEF Replaces, Rows, RowStates, Active
<1>4. PICK e : e = [exec EXCEPT !.state = "Pending", !.version = @ + 1]
  OBVIOUS
<1>5. /\ e \in Executions /\ e.state = "Pending" /\ e.version = exec.version + 1
      /\ e.attempt = exec.attempt /\ e.next = exec.next
  <2>1. exec \in Executions /\ exec.version + 1 \in Nat
    BY StateTypes
  <2>2. QED
    BY <1>4, <2>1 DEF Executions, ExecutionStates
<1>6. PICK p : p = (outbox \ {r}) \cup {s}
  OBVIOUS
<1>7. ChainGood(p, op, e, resource.version, Cardinality(ledger), due, woken)
  BY <1>1, <1>3, <1>5, <1>6, StateTypes, UnsentChain
<1>8. outbox' = p
  BY <1>2, <1>6 DEF SubmitNotAttempted
<1>9. QED
  BY <1>4, <1>7, <1>8, StateTypes, WorkLands DEF SubmitNotAttempted

\* An observation: it is stale, or another follows, or the second attempt, or the
\* end of the operation.
LEMMA ObserveKeeps ==
  ASSUME RInv, NEW r \in outbox, Observe(r)
  PROVE  RInv'
<1> DEFINE current == /\ ~op.finished /\ op.number = r.op
                      /\ exec.version = r.expected /\ exec.next = r.sequence + 1
<1>1. r.state = "Pending" /\ r.kind = "Observe" /\ Active(r)
  BY DEF Observe, Active
<1>2. CASE /\ ~current /\ outbox' = Completed(r)
           /\ UNCHANGED <<op, exec, resource, due, woken, observer, operator>>
  <2>1. op.finished \/ ~Carries(r, op, exec)
    <3>1. SUFFICES ASSUME ~op.finished, Carries(r, op, exec) PROVE FALSE
      OBVIOUS
    <3>2. r.op = op.number /\ r.sequence + 1 = exec.next
      BY <1>1, <3>1 DEF Carries
    <3>3. RowCurrent(r, op, exec)
      BY <1>1, <3>1, <3>2 DEF RInv, ChainGood, Current
    <3>4. r.expected = exec.version
      BY <1>1, <3>3 DEF RowCurrent
    <3>5. QED
      BY <1>2, <3>1, <3>2, <3>4
  <2>2. QED
    BY <1>1, <1>2, <2>1, StaleKeeps
<1>3. ASSUME current
      PROVE  /\ r.op = op.number /\ ~op.finished /\ op.phase = 2
             /\ exec.state \in {"Unknown", "Accepted"}
  <2>1. RowCurrent(r, op, exec)
    BY <1>1, <1>3 DEF RInv, ChainGood, Current
  <2>2. QED
    BY <1>1, <1>3, <2>1 DEF RowCurrent
<1>4. CASE /\ current
           /\ \E state \in {exec.state, "Accepted"} :
                LET e == [exec EXCEPT !.state = state]
                IN  exec' = NextObserve(e) /\ outbox' = Enqueued(Completed(r), ObserveFor(e))
           /\ UNCHANGED <<op, resource, due, woken, observer, operator>>
  <2>1. PICK state \in {"Unknown", "Accepted"} :
          /\ exec' = NextObserve([exec EXCEPT !.state = state])
          /\ outbox' = Enqueued(Completed(r), ObserveFor([exec EXCEPT !.state = state]))
    BY <1>3, <1>4
  <2>2. QED
    BY <1>1, <1>3, <1>4, <2>1, ObserveNextKeeps
<1>5. CASE /\ current /\ exec.state = "Unknown" /\ exec.attempt = 1
           /\ exec' = [exec EXCEPT !.state = "Pending", !.attempt = 2, !.version = @ + 1]
           /\ outbox' = Enqueued(Completed(r), DispatchMessage(r.op, 2, exec.version + 1))
           /\ UNCHANGED <<op, resource, due, woken, observer, operator>>
  <2>1. PICK s : s = [r EXCEPT !.state = "Completed"]
    OBVIOUS
  <2>2. Replaces(s, r) /\ s.state = "Completed"
    BY <2>1, SettleReplaces
  <2>3. PICK e : e = [exec EXCEPT !.state = "Pending", !.attempt = 2, !.version = @ + 1]
    OBVIOUS
  <2>4. /\ e \in Executions /\ e.state = "Pending" /\ e.attempt = exec.attempt + 1
        /\ e.version = exec.version + 1 /\ e.next = exec.next
    <3>1. exec \in Executions /\ exec.version + 1 \in Nat /\ exec.attempt + 1 = 2
      BY <1>5, StateTypes
    <3>2. QED
      BY <2>3, <3>1 DEF Executions, ExecutionStates
  <2>5. PICK m : m = DispatchMessage(op.number, exec.attempt + 1, exec.version + 1)
    OBVIOUS
  <2>6. PICK q : q = Enqueued((outbox \ {r}) \cup {s}, m)
    OBVIOUS
  <2>7. resource.version >= resource.version
    BY StateTypes
  <2>8. ChainGood(q, op, e, resource.version, Cardinality(ledger), due, woken)
    BY <1>1, <1>3, <1>5, <2>2, <2>4, <2>5, <2>6, <2>7, StateTypes, DispatchChain
  <2>9. exec.attempt + 1 = 2
    BY <1>5
  <2>10. outbox' = q
    BY <1>3, <1>5, <2>1, <2>5, <2>6, <2>9 DEF Completed, Settled
  <2>11. QED
    BY <1>5, <2>3, <2>8, <2>10, StateTypes, WorkLands
<1>6. CASE current /\ Finish(r)
  <2>1. PICK s : s = [r EXCEPT !.state = "Completed"]
    OBVIOUS
  <2>2. Replaces(s, r) /\ s.state = "Completed"
    BY <2>1, SettleReplaces
  <2>3. PICK e : e = [exec EXCEPT !.state = "Done", !.version = @ + 1]
    OBVIOUS
  <2>4. /\ e \in Executions /\ e.state = "Done" /\ e.attempt = exec.attempt /\ e.next = exec.next
    <3>1. exec \in Executions /\ exec.version + 1 \in Nat
      BY StateTypes
    <3>2. QED
      BY <2>3, <3>1 DEF Executions, ExecutionStates
  <2>5. PICK o : o = [op EXCEPT !.finished = TRUE, !.version = @ + 1]
    OBVIOUS
  <2>6. /\ o \in Operations /\ o.number = op.number /\ o.version = op.version + 1 /\ o.finished
    <3>1. op \in Operations /\ op.version + 1 \in Nat
      BY StateTypes
    <3>2. QED
      BY <2>5, <3>1 DEF Operations
  <2>7. PICK q : q = WithWake((outbox \ {r}) \cup {s}, resource.version + 1)
    OBVIOUS
  <2>8. ChainGood(q, o, e, resource.version + 1, Cardinality(ledger), resource.version + 1, woken)
    BY <1>1, <1>3, <1>6, <2>2, <2>4, <2>6, <2>7, StateTypes, FinishChain
  <2>9. outbox' = q
    BY <1>6, <2>1, <2>7 DEF Finish, Completed, Settled
  <2>10. resource' \in Resources /\ resource'.version = resource.version + 1
    BY <1>6, StateTypes DEF Finish, Resources
  <2>11. /\ op' = o /\ exec' = e /\ due' = resource.version + 1
         /\ UNCHANGED <<woken, observer, operator>>
    BY <1>6, <2>3, <2>5 DEF Finish
  <2>12. QED
    BY <2>8, <2>9, <2>10, <2>11, WorkLands
<1>7. QED
  BY <1>2, <1>4, <1>5, <1>6 DEF Observe

\* Facts are applied, or are stale.
LEMMA PassiveObserveKeeps ==
  ASSUME RInv, NEW r \in outbox, PassiveObserve(r)
  PROVE  RInv'
<1>1. /\ r.state = "Pending" /\ r.kind = "PassiveObserve"
      /\ UNCHANGED <<op, exec, woken, observer, operator>>
  BY DEF PassiveObserve
<1>2. CASE outbox' = Completed(r) /\ UNCHANGED <<resource, due>>
  <2>1. ~Carries(r, op, exec)
    BY <1>1 DEF Carries
  <2>2. QED
    BY <1>1, <1>2, <2>1, StaleKeeps
<1>3. CASE /\ op.finished
           /\ resource' = [resource EXCEPT !.version = @ + 1]
           /\ outbox' = WithWake(Completed(r), resource.version + 1)
           /\ due' = resource.version + 1
  <2>1. PICK s : s = [r EXCEPT !.state = "Completed"]
    OBVIOUS
  <2>2. Replaces(s, r) /\ s.state = "Completed"
    BY <2>1, SettleReplaces
  <2>3. PICK q : q = WithWake((outbox \ {r}) \cup {s}, resource.version + 1)
    OBVIOUS
  <2>4. ChainGood(q, op, exec, resource.version + 1, Cardinality(ledger), resource.version + 1, woken)
    BY <1>1, <1>3, <2>2, <2>3, StateTypes, PassiveChain
  <2>5. outbox' = q
    BY <1>3, <2>1, <2>3 DEF Completed, Settled
  <2>6. resource' \in Resources /\ resource'.version = resource.version + 1
    BY <1>3, StateTypes DEF Resources
  <2>7. QED
    BY <1>1, <1>3, <2>4, <2>5, <2>6, WorkLands
<1>4. QED
  BY <1>2, <1>3 DEF PassiveObserve

\* The dependents are woken.
LEMMA WakeDependentsKeeps ==
  ASSUME RInv, NEW r \in outbox, WakeDependents(r)
  PROVE  RInv'
<1>1. PICK s : s = [r EXCEPT !.state = "Completed"]
  OBVIOUS
<1>2. Replaces(s, r) /\ s.state = "Completed"
  BY <1>1, SettleReplaces
<1>3. PICK w : w = IF r.expected > woken THEN r.expected ELSE woken
  OBVIOUS
<1>4. PICK q : q = IF r.expected # resource.version
                   THEN Enqueued((outbox \ {r}) \cup {s}, WakeDependentsMessage(resource.version))
                   ELSE (outbox \ {r}) \cup {s}
  OBVIOUS
<1>5. ChainGood(q, op, exec, resource.version, Cardinality(ledger), due, w)
  BY <1>2, <1>3, <1>4, StateTypes, WakeChain DEF WakeDependents
<1>6. outbox' = q /\ woken' = w
  BY <1>1, <1>3, <1>4 DEF WakeDependents, Completed, Settled
<1>7. QED
  BY <1>5, <1>6, StateTypes, WorkLands DEF WakeDependents

\* The next request of a developer.
LEMMA NextOperationKeeps ==
  ASSUME RInv, NextOperation
  PROVE  RInv'
<1>1. PICK o : o = [number |-> op.number + 1, phase |-> 0, version |-> 1, finished |-> FALSE]
  OBVIOUS
<1>2. /\ o \in Operations /\ o.number = op.number + 1 /\ o.phase = 0 /\ o.version = 1 /\ ~o.finished
  <2>1. op.number + 1 \in Ops
    <3>1. MaxOps \in Nat /\ op.number \in Nat /\ op.number < MaxOps
      BY BoundsAssumption, StateTypes DEF NextOperation
    <3>2. QED
      BY <3>1 DEF Ops
  <2>2. QED
    BY <1>1, <2>1 DEF Operations
<1>3. PICK e : e = [state |-> "Pending", version |-> 1, attempt |-> 0, next |-> 1]
  OBVIOUS
<1>4. e \in Executions /\ e.state = "Pending" /\ e.attempt = 0
  BY <1>3 DEF Executions, ExecutionStates
<1>5. PICK p : p = {r \in outbox : Relevant(r)}
  OBVIOUS
<1>6. PICK m : m = DriveMessage(op.number + 1, 1)
  OBVIOUS
<1>7. PICK q : q = Enqueued(p, m)
  OBVIOUS
<1>8. ChainGood(q, o, e, resource.version + 1, Cardinality(ledger), due, woken)
  BY <1>2, <1>4, <1>5, <1>6, <1>7, StateTypes, NextChain DEF NextOperation
<1>9. outbox' = q /\ op' = o /\ exec' = e
  BY <1>1, <1>3, <1>5, <1>6, <1>7 DEF NextOperation
<1>10. resource' \in Resources /\ resource'.version = resource.version + 1
  BY StateTypes DEF NextOperation, Resources
<1>11. QED
  BY <1>8, <1>9, <1>10, WorkLands DEF NextOperation

\* An observation of the resource, by the background observer or on request.
LEMMA PassiveEnqueued ==
  ASSUME RInv, NEW x \in Nat,
         outbox' = Enqueued(outbox, PassiveObserveMessage(x, resource.version)),
         UNCHANGED <<op, exec, resource, due, woken, observer, operator>>
  PROVE  RInv'
<1>1. PICK m : m = PassiveObserveMessage(x, resource.version)
  OBVIOUS
<1>2. /\ m.key = <<"PassiveObserve", 0, x, "Chain">> /\ m.kind = "PassiveObserve" /\ m.op = 0
      /\ m.sequence = x /\ m.state = "Pending" /\ m \in Rows
  BY <1>1, StateTypes
     DEF PassiveObserveMessage, Row, OwnerOf, Rows, Identities, Kinds, RowStates
<1>3. MessageGood(m, op, exec, resource.version, Cardinality(ledger))
  BY <1>2, StateTypes DEF MessageGood, KeyGood
<1>4. PICK q : q = Enqueued(outbox, m)
  OBVIOUS
<1>5. Cardinality(ledger) \in Nat /\ Cardinality(ledger) >= Cardinality(ledger)
  BY StateTypes
<1>6. ChainGood(q, op, exec, resource.version, Cardinality(ledger), due, woken)
  BY <1>2, <1>3, <1>4, <1>5, StateTypes, BesideChain
<1>7. QED
  BY <1>1, <1>4, <1>6, StateTypes, WorkLands

-----------------------------------------------------------------------------
(* The operator. *)

\* A key tells kind and aggregate.
LEMMA KeysTell ==
  ASSUME RInv, NEW r \in outbox
  PROVE  r.key[1] = r.kind /\ r.key[2] = r.op
<1>1. KeyGood(r, op, exec, resource.version, Cardinality(ledger))
  BY DEF RInv, ChainGood, RowsGood
<1>2. r.kind \in {"PassiveObserve", "WakeDependents"} => r.op = 0
  BY DEF RInv, ChainGood, RowsGood
<1>3. QED
  BY <1>1, <1>2 DEF KeyGood

\* The row that a request is about.
LEMMA TargetIs ==
  ASSUME RInv, NEW r \in outbox, NEW request, request.target = r.key
  PROVE  TargetOf(request) = r
<1>1. \A s \in outbox : s.key = r.key => s = r
  BY DEF RInv, ChainGood, RowsGood
<1>2. QED
  BY <1>1 DEF TargetOf

\* The requests there are.
Asked(request) ==
  \/ request = [action |-> "observe", target |-> NoRow]
  \/ request = [action |-> "passive", target |-> NoRow]
  \/ \E r \in Dead : request = [action |-> "recover", target |-> r.key]

\* A revision determines the plan: what was allowed at a revision is allowed
\* whenever the revision is the same.
LEMMA RevisionDecides ==
  ASSUME RInv, NEW request, Asked(request)
  PROVE  Plan(request) <=> AllowedBy(request, Revision(request))
<1>1. CASE request = [action |-> "observe", target |-> NoRow]
  <2>1. request.action = "observe"
    BY <1>1
  <2>2. Plan(request) = PlanOperationObserve /\ Revision(request) = OperationRevision
    BY <2>1 DEF Plan, Revision
  <2>3. PICK rev : rev = OperationRevision
    OBVIOUS
  <2>4. /\ rev[1] = op /\ rev[2] = exec /\ rev[3] = ActiveWorkParts(op.number) /\ rev[4] = registered
    BY <2>3 DEF OperationRevision
  <2>5. ActiveOf(outbox, "Observe", op.number) = {} <=> \A p \in rev[3] : p[1][1] # "Observe"
    <3>1. \A p : p \in rev[3] <=> \E r \in outbox : Active(r) /\ r.op = op.number /\ p = <<r.key, r.state>>
      BY <2>4 DEF ActiveWorkParts
    <3>2. ActiveOf(outbox, "Observe", op.number)
            = {r \in outbox : Active(r) /\ r.kind = "Observe" /\ r.op = op.number}
      BY DEF ActiveOf, OwnerOf
    <3>3. \A r \in outbox : <<r.key, r.state>>[1] = r.key /\ r.key[1] = r.kind
      BY KeysTell
    <3>4. ASSUME ActiveOf(outbox, "Observe", op.number) = {}, NEW p \in rev[3], p[1][1] = "Observe"
          PROVE  FALSE
      <4>1. PICK r \in outbox : Active(r) /\ r.op = op.number /\ p = <<r.key, r.state>>
        BY <3>1, <3>4
      <4>2. r.kind = "Observe"
        BY <3>3, <3>4, <4>1
      <4>3. QED
        BY <3>2, <3>4, <4>1, <4>2
    <3>5. ASSUME \A p \in rev[3] : p[1][1] # "Observe", NEW r \in ActiveOf(outbox, "Observe", op.number)
          PROVE  FALSE
      <4>1. r \in outbox /\ Active(r) /\ r.kind = "Observe" /\ r.op = op.number
        BY <3>2
      <4>2. PICK p : p = <<r.key, r.state>>
        OBVIOUS
      <4>3. p \in rev[3] /\ p[1] = r.key
        BY <3>1, <4>1, <4>2
      <4>4. p[1][1] = "Observe"
        BY <3>3, <4>1, <4>3
      <4>5. QED
        BY <3>5, <4>3, <4>4
    <3>6. QED
      BY <3>4, <3>5
  <2>6. AllowedBy(request, rev) <=>
          /\ ~rev[1].finished /\ rev[4] /\ rev[2].state \in {"Unknown", "Accepted"}
          /\ \A p \in rev[3] : p[1][1] # "Observe"
    BY <2>1 DEF AllowedBy
  <2>7. QED
    BY <2>2, <2>3, <2>4, <2>5, <2>6 DEF PlanOperationObserve, ObservableForObserve
<1>2. CASE request = [action |-> "passive", target |-> NoRow]
  <2>1. request.action = "passive"
    BY <1>2
  <2>2. Plan(request) = PlanResourcePassiveObserve /\ Revision(request) = ResourceRevision
    BY <2>1 DEF Plan, Revision
  <2>3. PICK rev : rev = ResourceRevision
    OBVIOUS
  <2>4. /\ rev[1] = resource /\ rev[2] = op /\ rev[4] = ActiveWorkParts(0) /\ rev[5] = registered
    BY <2>3 DEF ResourceRevision
  <2>5. ActiveOf(outbox, "PassiveObserve", 0) = {} <=> \A p \in rev[4] : p[1][1] # "PassiveObserve"
    <3>1. \A p : p \in rev[4] <=> \E r \in outbox : Active(r) /\ r.op = 0 /\ p = <<r.key, r.state>>
      BY <2>4 DEF ActiveWorkParts
    <3>2. ActiveOf(outbox, "PassiveObserve", 0)
            = {r \in outbox : Active(r) /\ r.kind = "PassiveObserve" /\ r.op = 0}
      BY DEF ActiveOf, OwnerOf
    <3>3. \A r \in outbox : <<r.key, r.state>>[1] = r.key /\ r.key[1] = r.kind
      BY KeysTell
    <3>4. ASSUME ActiveOf(outbox, "PassiveObserve", 0) = {}, NEW p \in rev[4], p[1][1] = "PassiveObserve"
          PROVE  FALSE
      <4>1. PICK r \in outbox : Active(r) /\ r.op = 0 /\ p = <<r.key, r.state>>
        BY <3>1, <3>4
      <4>2. r.kind = "PassiveObserve"
        BY <3>3, <3>4, <4>1
      <4>3. QED
        BY <3>2, <3>4, <4>1, <4>2
    <3>5. ASSUME \A p \in rev[4] : p[1][1] # "PassiveObserve", NEW r \in ActiveOf(outbox, "PassiveObserve", 0)
          PROVE  FALSE
      <4>1. r \in outbox /\ Active(r) /\ r.kind = "PassiveObserve" /\ r.op = 0
        BY <3>2
      <4>2. PICK p : p = <<r.key, r.state>>
        OBVIOUS
      <4>3. p \in rev[4] /\ p[1] = r.key
        BY <3>1, <4>1, <4>2
      <4>4. p[1][1] = "PassiveObserve"
        BY <3>3, <4>1, <4>3
      <4>5. QED
        BY <3>5, <4>3, <4>4
    <3>6. QED
      BY <3>4, <3>5
  <2>6. AllowedBy(request, rev) <=>
          /\ rev[1].state # "Deleted" /\ rev[5] /\ rev[2].finished
          /\ \A p \in rev[4] : p[1][1] # "PassiveObserve"
    BY <2>1 DEF AllowedBy
  <2>7. QED
    BY <2>2, <2>3, <2>4, <2>5, <2>6 DEF PlanResourcePassiveObserve
<1>3. CASE \E r \in Dead : request = [action |-> "recover", target |-> r.key]
  <2>1. PICK r \in Dead : request = [action |-> "recover", target |-> r.key]
    BY <1>3
  <2>2. request.action = "recover" /\ request.target = r.key /\ r \in outbox
    BY <2>1 DEF Dead
  <2>3. TargetOf(request) = r /\ r.key[1] = r.kind /\ r.key[2] = r.op
    BY <2>2, TargetIs, KeysTell
  <2>4. Plan(request) = PlanDeadWorkRecovery(r) /\ Revision(request) = WorkRevision(r)
    BY <2>2, <2>3 DEF Plan, Revision
  <2>5. PICK rev : rev = WorkRevision(r)
    OBVIOUS
  <2>6. AllowedBy(request, rev) <=>
         /\ rev[2] = "Dead"
         /\ IF rev[1][2] # 0
            THEN /\ ~rev[9] /\ rev[3] /\ ~rev[5] /\ ~rev[8] /\ rev[10]
                 /\ rev[1][1] \in {"Dispatch", "Observe"} => rev[7] \in {"Unknown", "Accepted"}
            ELSE /\ ~rev[6] /\ rev[5] /\ rev[4] # "Deleted"
                 /\ rev[1][1] = "PassiveObserve" => rev[7]
    BY <2>2 DEF AllowedBy
  <2>7. CASE r.op # 0
    <3>1. /\ rev[1] = r.key /\ rev[2] = r.state /\ (rev[3] <=> op.number = r.op)
          /\ (rev[5] <=> op.finished) /\ rev[7] = exec.state /\ (rev[8] <=> Superseded(r))
          /\ (rev[9] <=> Equivalent(r) # {}) /\ (rev[10] <=> registered)
      BY <2>5, <2>7 DEF WorkRevision
    <3>2. QED
      BY <2>3, <2>4, <2>5, <2>6, <2>7, <3>1 DEF PlanDeadWorkRecovery, ObservableForObserve
  <2>8. CASE r.op = 0
    <3>1. /\ rev[1] = r.key /\ rev[2] = r.state /\ rev[4] = resource.state
          /\ (rev[5] <=> op.finished) /\ (rev[6] <=> Equivalent(r) # {}) /\ (rev[7] <=> registered)
      BY <2>5, <2>8 DEF WorkRevision
    <3>2. QED
      BY <2>3, <2>4, <2>5, <2>6, <2>8, <3>1 DEF PlanDeadWorkRecovery
  <2>9. QED
    BY <2>7, <2>8
<1>4. QED
  BY <1>1, <1>2, <1>3 DEF Asked

\* The operator reads a diagnostic.
LEMMA ShowKeeps ==
  ASSUME RInv, NEW request, Asked(request), Show(request)
  PROVE  RInv'
<1>1. /\ ledger' = ledger /\ op' = op /\ exec' = exec /\ resource' = resource
      /\ outbox' = outbox /\ due' = due /\ woken' = woken /\ registered' = registered
      /\ toggles' = toggles
  BY DEF Show, observer
<1>2. /\ shown'.request = request /\ shown'.revision = Revision(request)
      /\ shown'.allowed <=> Plan(request)
  BY DEF Show
<1>3. shown'.allowed <=> AllowedBy(request, Revision(request))
  BY <1>1, <1>2, RevisionDecides
<1>4. shown'.allowed <=> AllowedBy(shown'.request, shown'.revision)
  BY <1>2, <1>3
<1>5. ShownGood'
  BY <1>1, <1>4 DEF ShownGood
<1>6. QED
  BY <1>1, <1>5 DEF RInv, LedgerGood

\* The set of provisioners changes.
LEMMA ToggleKeeps ==
  ASSUME RInv, ToggleRegistration
  PROVE  RInv'
<1>1. /\ ledger' = ledger /\ shown' = shown /\ op' = op /\ exec' = exec /\ resource' = resource
      /\ outbox' = outbox /\ due' = due /\ woken' = woken
      /\ registered' = ~registered /\ toggles' = toggles + 1 /\ toggles < MaxToggles
  BY DEF ToggleRegistration, operator
<1>2. toggles' \in 0..MaxToggles
  <2>1. MaxToggles \in Nat /\ toggles \in 0..MaxToggles
    BY BoundsAssumption DEF RInv
  <2>2. QED
    BY <1>1, <2>1
<1>3. registered' \in BOOLEAN
  BY <1>1
<1>4. QED
  BY <1>1, <1>2, <1>3 DEF RInv, LedgerGood, ShownGood, NothingShown

\* The kinds of work that a plan allows, and where they fit into the chain.
LEMMA PlannedWork ==
  ASSUME RInv, NEW request, Asked(request), Plan(request), NEW m, m = CreatedWork(request)
  PROVE  \/ /\ m = ObserveMessage(op.number, exec.next, exec.version + 1)
            /\ ~op.finished /\ exec.state \in {"Unknown", "Accepted"}
            /\ \A t \in outbox : ~(Active(t) /\ t.kind = "Observe" /\ t.op = op.number)
         \/ \E kind \in {"Drive", "PassiveObserve", "WakeDependents"} : m = OperatorMessage(kind)
<1>1. CASE request = [action |-> "observe", target |-> NoRow]
  <2>1. request.action = "observe"
    BY <1>1
  <2>2. m = ObserveMessage(op.number, exec.next, exec.version + 1) /\ PlanOperationObserve
    BY <2>1 DEF Plan, CreatedWork, NextObserveMessage
  <2>3. QED
    BY <2>2 DEF PlanOperationObserve, ObservableForObserve, ActiveOf, OwnerOf
<1>2. CASE request = [action |-> "passive", target |-> NoRow]
  <2>1. request.action = "passive"
    BY <1>2
  <2>2. m = OperatorMessage("PassiveObserve")
    BY <2>1 DEF CreatedWork
  <2>3. QED
    BY <2>2
<1>3. CASE \E r \in Dead : request = [action |-> "recover", target |-> r.key]
  <2>1. PICK r \in Dead : request = [action |-> "recover", target |-> r.key]
    BY <1>3
  <2>2. request.action = "recover" /\ request.target = r.key /\ r \in outbox
    BY <2>1 DEF Dead
  <2>3. TargetOf(request) = r
    BY <2>2, TargetIs
  <2>4. PlanDeadWorkRecovery(r)
    BY <2>2, <2>3 DEF Plan
  <2>5. m = IF EquivalentKind(r) = "Observe" THEN NextObserveMessage ELSE OperatorMessage(EquivalentKind(r))
    BY <2>2, <2>3 DEF CreatedWork
  <2>6. r.kind \in Kinds /\ (r.op = 0 <=> r.kind \in {"PassiveObserve", "WakeDependents"})
    BY <2>2, StateTypes DEF RInv, ChainGood, RowsGood, Rows
  <2>7. CASE r.kind \in {"Dispatch", "Observe"}
    <3>1. r.op # 0 /\ EquivalentKind(r) = "Observe"
      BY <2>6, <2>7 DEF EquivalentKind
    <3>2. /\ ~op.finished /\ r.op = op.number /\ exec.state \in {"Unknown", "Accepted"}
          /\ ActiveOf(outbox, "Observe", r.op) = {}
      BY <2>4, <2>7, <3>1 DEF PlanDeadWorkRecovery, ObservableForObserve, Equivalent
    <3>3. m = ObserveMessage(op.number, exec.next, exec.version + 1)
      BY <2>5, <3>1 DEF NextObserveMessage
    <3>4. QED
      BY <3>2, <3>3 DEF ActiveOf, OwnerOf
  <2>8. CASE r.kind \notin {"Dispatch", "Observe"}
    <3>1. EquivalentKind(r) = r.kind /\ r.kind \in {"Drive", "PassiveObserve", "WakeDependents"}
      BY <2>6, <2>8 DEF EquivalentKind, Kinds
    <3>2. QED
      BY <2>5, <3>1
  <2>9. QED
    BY <2>7, <2>8
<1>4. QED
  BY <1>1, <1>2, <1>3 DEF Asked

\* What an accepted action records.
LEMMA LedgerGrows ==
  ASSUME RInv, NEW a, a.action = Cardinality(ledger) + 1, ledger' = ledger \cup {a},
         Cardinality(ledger) < MaxActions
  PROVE  LedgerGood' /\ Cardinality(ledger') = Cardinality(ledger) + 1
<1>1. /\ IsFiniteSet(ledger) /\ Cardinality(ledger) \in Nat
      /\ \A b \in ledger : b.action \in 1..Cardinality(ledger)
  BY StateTypes DEF RInv, LedgerGood
<1>2. a \notin ledger
  BY <1>1
<1>3. /\ IsFiniteSet(ledger') /\ Cardinality(ledger') = Cardinality(ledger) + 1
  BY <1>1, <1>2, FS_AddElement
<1>4. Cardinality(ledger') <= MaxActions
  <2>1. MaxActions \in Nat
    BY BoundsAssumption
  <2>2. QED
    BY <1>1, <1>3, <2>1
<1>5. \A b \in ledger' : b.action \in 1..Cardinality(ledger')
  <2>1. ASSUME NEW b \in ledger PROVE b.action \in 1..(Cardinality(ledger) + 1)
    BY <1>1
  <2>2. a.action \in 1..(Cardinality(ledger) + 1)
    BY <1>1
  <2>3. QED
    BY <1>3, <2>1, <2>2
<1>6. QED
  BY <1>3, <1>4, <1>5 DEF LedgerGood

\* The work of an accepted action is new, and fits into the chain.
LEMMA ActedChain ==
  ASSUME RInv, NEW request, Asked(request), Plan(request), NEW m, m = CreatedWork(request),
         ~Conflicts(outbox, m), NEW e, e = IF m.kind = "Observe" THEN NextObserve(exec) ELSE exec,
         NEW q, q = Enqueued(outbox, m)
  PROVE  /\ ChainGood(q, op, e, resource.version, Cardinality(ledger) + 1, due, woken)
         /\ m \in q /\ m \notin outbox
<1>1. CASE /\ m = ObserveMessage(op.number, exec.next, exec.version + 1)
           /\ ~op.finished /\ exec.state \in {"Unknown", "Accepted"}
           /\ \A t \in outbox : ~(Active(t) /\ t.kind = "Observe" /\ t.op = op.number)
  <2>1. m.kind = "Observe"
    BY <1>1 DEF ObserveMessage, Row
  <2>2. e = NextObserve(exec)
    BY <2>1
  <2>3. /\ e \in Executions /\ e.state = exec.state /\ e.version = exec.version + 1
        /\ e.attempt = exec.attempt /\ e.next = exec.next + 1
    <3>1. exec \in Executions /\ exec.version + 1 \in Nat /\ exec.next + 1 \in Nat \ {0}
      BY StateTypes
    <3>2. QED
      BY <2>2, <3>1 DEF NextObserve, Executions
  <2>4. QED
    BY <1>1, <2>3, StateTypes, ObserveAskedChain
<1>2. ASSUME NEW kind \in {"Drive", "PassiveObserve", "WakeDependents"}, m = OperatorMessage(kind)
      PROVE  /\ ChainGood(q, op, e, resource.version, Cardinality(ledger) + 1, due, woken)
             /\ m \in q /\ m \notin outbox
  <2>1. PICK n \in Nat : n = Cardinality(ledger)
    BY StateTypes
  <2>2. /\ m.key = <<kind, m.op, n + 1, "Operator">> /\ m.kind = kind /\ m.op = OwnerOf(kind, op.number)
        /\ m.expected = IF kind = "Drive" THEN op.version ELSE resource.version
        /\ m.sequence = 0 /\ m.state = "Pending"
    BY <1>2, <2>1 DEF OperatorMessage, Row
  <2>3. m = [key |-> m.key, kind |-> m.kind, op |-> m.op, expected |-> m.expected,
             sequence |-> m.sequence, state |-> m.state]
    BY <1>2 DEF OperatorMessage, Row
  <2>4. /\ op.number \in Nat /\ op.number > 0 /\ op.version \in Nat /\ resource.version \in Nat
    BY StateTypes
  <2>5. m \in Rows
    <3>1. m.op \in Nat /\ m.expected \in Nat /\ m.sequence \in Nat
      BY <2>2, <2>4 DEF OwnerOf
    <3>2. /\ m.key \in Identities /\ m.kind \in Kinds /\ m.state \in RowStates
      BY <2>2, <3>1 DEF Identities, Kinds, RowStates
    <3>3. QED
      BY <2>3, <3>1, <3>2 DEF Rows
  <2>6. /\ m.op <= op.number /\ (m.op = 0 <=> m.kind \in {"PassiveObserve", "WakeDependents"})
        /\ m.op = 0 \/ (m.kind = "Drive" /\ m.expected = op.version)
    BY <2>2, <2>4 DEF OwnerOf
  <2>7. n + 1 \in 1..(n + 1) /\ n + 1 \in Nat /\ n + 1 >= n
    OBVIOUS
  <2>8. MessageGood(m, op, exec, resource.version, n + 1)
    BY <2>2, <2>5, <2>6, <2>7 DEF MessageGood, KeyGood
  <2>9. e = exec
    BY <2>2
  <2>10. ChainGood(outbox, op, exec, resource.version, n, due, woken)
    BY <2>1, StateTypes
  <2>11. ChainGood(q, op, e, resource.version, n + 1, due, woken)
    BY <2>4, <2>6, <2>7, <2>8, <2>9, <2>10, BesideChain
  <2>12. \A t \in outbox : t.key # m.key
    <3>1. RowsGood(outbox, op, exec, resource.version, n)
      BY <2>10 DEF ChainGood
    <3>2. QED
      BY <2>2, <3>1, FreshOperator
  <2>13. m \in q /\ m \notin outbox
    BY <2>12 DEF Enqueued, Spent
  <2>14. QED
    BY <2>1, <2>11, <2>13
<1>3. QED
  BY <1>1, <1>2, PlannedWork

\* An action of the operator.
ActionIsSound ==
  \A a \in ledger' \ ledger :
    /\ \A b \in ledger : b.key # a.key
    /\ \E r \in outbox' \ outbox : r.key = a.work
    /\ shown # NothingShown => shown.allowed

\* It is accepted for good, and only as it was shown.
LEMMA MutationKeeps ==
  ASSUME RInv, NEW k, NEW request, Asked(request), RunOperatorMutation(k, request)
  PROVE  RInv' /\ ActionIsSound
<1>1. PICK m : m = CreatedWork(request)
  OBVIOUS
<1>2. PICK e : e = IF m.kind = "Observe" THEN NextObserve(exec) ELSE exec
  OBVIOUS
<1>3. PICK q : q = Enqueued(outbox, m)
  OBVIOUS
<1>4. PICK a : a = [key |-> k, action |-> Cardinality(ledger) + 1, work |-> m.key]
  OBVIOUS
<1>5. /\ Plan(request) /\ ~Conflicts(outbox, m) /\ Bound(k) = {} /\ Cardinality(ledger) < MaxActions
      /\ shown = NothingShown \/ Matches(request)
      /\ shown' = NothingShown /\ outbox' = q /\ exec' = e /\ ledger' = ledger \cup {a}
      /\ op' = op /\ resource' = resource /\ due' = due /\ woken' = woken
      /\ registered' = registered /\ toggles' = toggles
  BY <1>1, <1>2, <1>3, <1>4 DEF RunOperatorMutation, observer
<1>6. /\ ChainGood(q, op, e, resource.version, Cardinality(ledger) + 1, due, woken)
      /\ m \in q /\ m \notin outbox
  BY <1>1, <1>2, <1>3, <1>5, ActedChain
<1>7. a.key = k /\ a.action = Cardinality(ledger) + 1 /\ a.work = m.key
  BY <1>4
<1>8. LedgerGood' /\ Cardinality(ledger') = Cardinality(ledger) + 1
  BY <1>5, <1>7, LedgerGrows
<1>9. RInv'
  <2>1. ChainGood(outbox, op, exec, resource.version, Cardinality(ledger), due, woken)'
    BY <1>5, <1>6, <1>8
  <2>2. ShownGood'
    BY <1>5 DEF ShownGood, NothingShown
  <2>3. QED
    BY <1>5, <1>8, <2>1, <2>2 DEF RInv
<1>10. \A b \in ledger : b.key # a.key
  BY <1>5, <1>7 DEF Bound
<1>11. \E r \in outbox' \ outbox : r.key = a.work
  BY <1>5, <1>6, <1>7
<1>12. shown # NothingShown => shown.allowed
  <2>1. SUFFICES ASSUME shown # NothingShown PROVE shown.allowed
    OBVIOUS
  <2>2. /\ (shown.allowed <=> AllowedBy(shown.request, shown.revision))
        /\ shown.request = request /\ shown.revision = Revision(request)
    BY <1>5, <2>1 DEF RInv, ShownGood, Matches
  <2>3. QED
    BY <1>5, <2>2, RevisionDecides
<1>13. QED
  BY <1>5, <1>9, <1>10, <1>11, <1>12 DEF ActionIsSound

-----------------------------------------------------------------------------
(* The invariant. *)

\* A resource at rest has no work.
LEMMA InitGood ==
  Init => RInv
<1> SUFFICES ASSUME Init PROVE RInv
  OBVIOUS
<1>1. Cardinality(ledger) = 0 /\ IsFiniteSet(ledger)
  BY FS_EmptySet DEF Init
<1>2. MaxActions \in Nat /\ MaxToggles \in Nat /\ MaxOps \in Nat /\ MaxOps > 0
  BY BoundsAssumption
<1>3. op \in Operations /\ op.finished /\ op.phase = 2
  BY <1>2 DEF Init, Operations, Ops
<1>4. exec \in Executions /\ exec.state = "Done"
  BY DEF Init, Executions, ExecutionStates
<1>5. resource \in Resources /\ resource.version = 1
  BY DEF Init, Resources
<1>6. outbox = {} /\ due = 0 /\ woken = 0 /\ registered = TRUE /\ ledger = {} /\ toggles = 0
      /\ shown = NothingShown
  BY DEF Init
<1>7. PairGood(op, exec)
  BY <1>3, <1>4 DEF PairGood
<1>8. RowsGood(outbox, op, exec, resource.version, Cardinality(ledger))
  BY <1>6 DEF RowsGood
<1>9. Current(outbox, op, exec) /\ Carried(outbox, op, exec)
  BY <1>3, <1>6 DEF Current, Carried
<1>10. WakesGood(outbox, resource.version, due, woken)
  BY <1>5, <1>6 DEF WakesGood
<1>11. LedgerGood /\ ShownGood
  BY <1>1, <1>2, <1>6 DEF LedgerGood, ShownGood
<1>12. toggles \in 0..MaxToggles /\ registered \in BOOLEAN
  BY <1>2, <1>6
<1>13. QED
  BY <1>5, <1>7, <1>8, <1>9, <1>10, <1>11, <1>12 DEF RInv, ChainGood

\* A message is handled or quarantined.
LEMMA WorkKeeps ==
  ASSUME RInv, NEW r \in outbox, Work(r) \/ Quarantine(r)
  PROVE  RInv' /\ ledger' = ledger
<1>1. CASE Drive(r)
  BY <1>1, DriveKeeps DEF Drive, operator
<1>2. CASE PrepareDispatch(r)
  BY <1>2, PrepareDispatchKeeps DEF PrepareDispatch, operator
<1>3. CASE SubmitReturns(r)
  BY <1>3, SubmitReturnsKeeps DEF SubmitReturns, operator
<1>4. CASE SubmitNotAttempted(r)
  BY <1>4, SubmitNotAttemptedKeeps DEF SubmitNotAttempted, operator
<1>5. CASE Observe(r)
  <2>1. ledger' = ledger
    BY <1>5 DEF Observe, Finish, operator
  <2>2. QED
    BY <1>5, <2>1, ObserveKeeps
<1>6. CASE PassiveObserve(r)
  BY <1>6, PassiveObserveKeeps DEF PassiveObserve, operator
<1>7. CASE WakeDependents(r)
  BY <1>7, WakeDependentsKeeps DEF WakeDependents, operator
<1>8. CASE Quarantine(r)
  BY <1>8, QuarantineKeeps DEF Quarantine, operator
<1>9. QED
  BY <1>1, <1>2, <1>3, <1>4, <1>5, <1>6, <1>7, <1>8 DEF Work

\* Nothing changes.
LEMMA StutterKeeps ==
  ASSUME RInv, UNCHANGED vars
  PROVE  RInv' /\ ledger' = ledger
<1>1. /\ op' = op /\ exec' = exec /\ resource' = resource /\ outbox' = outbox /\ due' = due
      /\ woken' = woken /\ registered' = registered /\ ledger' = ledger /\ shown' = shown
      /\ toggles' = toggles
  BY DEF vars
<1>2. QED
  BY <1>1 DEF RInv, LedgerGood, ShownGood, NothingShown

\* Every step keeps the invariant, and accepts only sound actions.
LEMMA NextKeeps ==
  ASSUME RInv, [Next]_vars
  PROVE  RInv' /\ ActionIsSound
<1>1. ledger' = ledger => ActionIsSound
  BY DEF ActionIsSound
<1>2. ASSUME NEW r \in outbox, Work(r) \/ Quarantine(r)
      PROVE  RInv' /\ ActionIsSound
  BY <1>1, <1>2, WorkKeeps
<1>3. CASE NextOperation
  <2>1. ledger' = ledger
    BY <1>3 DEF NextOperation, operator
  <2>2. QED
    BY <1>1, <1>3, <2>1, NextOperationKeeps
<1>4. CASE SchedulePassiveObservations
  <2>1. /\ outbox' = Enqueued(outbox, PassiveObserveMessage(0, resource.version))
        /\ UNCHANGED <<op, exec, resource, due, woken, observer, operator>>
    BY <1>4 DEF SchedulePassiveObservations
  <2>2. RInv'
    BY <2>1, PassiveEnqueued
  <2>3. ledger' = ledger
    BY <2>1 DEF operator
  <2>4. QED
    BY <1>1, <2>2, <2>3
<1>5. CASE RequestPassiveObservation
  <2>1. /\ outbox' = Enqueued(outbox, PassiveObserveMessage(resource.version, resource.version))
        /\ UNCHANGED <<op, exec, resource, due, woken, observer, operator>>
    BY <1>5 DEF RequestPassiveObservation
  <2>2. resource.version \in Nat
    BY StateTypes
  <2>3. RInv'
    BY <2>1, <2>2, PassiveEnqueued
  <2>4. ledger' = ledger
    BY <2>1 DEF operator
  <2>5. QED
    BY <1>1, <2>3, <2>4
<1>6. CASE ToggleRegistration
  <2>1. ledger' = ledger
    BY <1>6 DEF ToggleRegistration, operator
  <2>2. QED
    BY <1>1, <1>6, <2>1, ToggleKeeps
<1>7. ASSUME NEW request, Asked(request), Show(request)
      PROVE  RInv' /\ ActionIsSound
  <2>1. ledger' = ledger
    BY <1>7 DEF Show
  <2>2. QED
    BY <1>1, <1>7, <2>1, ShowKeeps
<1>8. CASE OperationOperatorDiagnostics
  BY <1>7, <1>8 DEF OperationOperatorDiagnostics, Asked
<1>9. CASE ResourceOperatorDiagnostics
  BY <1>7, <1>9 DEF ResourceOperatorDiagnostics, Asked
<1>10. ASSUME NEW r \in Dead, WorkOperatorDiagnostics(r)
       PROVE  RInv' /\ ActionIsSound
  BY <1>7, <1>10 DEF WorkOperatorDiagnostics, Asked
<1>11. ASSUME NEW k \in Keys, TriggerOperationObservation(k)
       PROVE  RInv' /\ ActionIsSound
  BY <1>11, MutationKeeps DEF TriggerOperationObservation, Asked
<1>12. ASSUME NEW k \in Keys, TriggerResourcePassiveObservation(k)
       PROVE  RInv' /\ ActionIsSound
  BY <1>12, MutationKeeps DEF TriggerResourcePassiveObservation, Asked
<1>13. ASSUME NEW k \in Keys, NEW r \in Dead, RecoverDeadWork(k, r)
       PROVE  RInv' /\ ActionIsSound
  BY <1>13, MutationKeeps DEF RecoverDeadWork, Asked
<1>14. CASE UNCHANGED vars
  BY <1>1, <1>14, StutterKeeps
<1>15. QED
  BY <1>2, <1>3, <1>4, <1>5, <1>6, <1>8, <1>9, <1>10, <1>11, <1>12, <1>13, <1>14 DEF Next

\* The invariant of the chain, of the wakes and of the revisions.
LEMMA Invariance ==
  Spec => []RInv
<1>1. Init => RInv
  BY InitGood
<1>2. RInv /\ [Next]_vars => RInv'
  BY NextKeeps
<1>3. QED
  BY <1>1, <1>2, PTL DEF Spec

-----------------------------------------------------------------------------
(* The results. *)

\* The types, and what the outbox table enforces.
LEMMA Types ==
  RInv => TypeOK
<1> SUFFICES ASSUME RInv PROVE TypeOK
  OBVIOUS
<1>1. /\ op.number \in Ops /\ op.phase \in 0..2 /\ op.version \in Nat /\ op.finished \in BOOLEAN
  BY StateTypes DEF Operations
<1>2. /\ exec.state \in ExecutionStates /\ exec.version \in Nat
      /\ exec.attempt \in Nat /\ exec.next \in Nat \ {0}
  BY StateTypes DEF Executions
<1>3. resource.version \in Nat /\ resource.state \in {"Busy", "Ready", "Deleted"}
  BY StateTypes DEF Resources
<1>4. RowsGood(outbox, op, exec, resource.version, Cardinality(ledger))
  BY DEF RInv, ChainGood
<1>5. ASSUME NEW r \in outbox
      PROVE  /\ r.kind \in Kinds /\ r.op \in 0..MaxOps /\ r.expected \in Nat /\ r.sequence \in Nat
             /\ r.state \in {"Pending", "Leased", "Completed", "Dead"}
  <2>1. r \in Rows /\ r.op <= op.number
    BY <1>4 DEF RowsGood
  <2>2. r.op \in Nat
    BY <2>1 DEF Rows
  <2>3. r.op \in 0..MaxOps
    BY <1>1, <2>1, <2>2, BoundsAssumption DEF Ops
  <2>4. QED
    BY <2>1, <2>3 DEF Rows, RowStates
<1>6. /\ \A r, s \in outbox : r.key = s.key => r = s
      /\ \A r, s \in outbox : Active(r) /\ Active(s) /\ r.kind = s.kind /\ r.op = s.op => r = s
  BY <1>4 DEF RowsGood
<1>7. due \in Nat /\ woken \in Nat
  BY DEF RInv, ChainGood, WakesGood
<1>8. registered \in BOOLEAN /\ Cardinality(ledger) <= MaxActions /\ toggles \in 0..MaxToggles
  BY DEF RInv, LedgerGood
<1>9. QED
  BY <1>1, <1>2, <1>3, <1>5, <1>6, <1>7, <1>8 DEF TypeOK

\* Work that waits for a worker is current when the worker gets it, for every
\* interleaving of the handlers, the quarantine and the operator's recoveries.
THEOREM ActiveWorkIsCurrent ==
  Spec => []ActiveIsCurrent
<1>1. RInv => ActiveIsCurrent
  <2> SUFFICES ASSUME RInv PROVE ActiveIsCurrent
    OBVIOUS
  <2>1. ASSUME NEW r \in outbox, Active(r), r.op = op.number, ~op.finished
        PROVE  CASE r.kind = "Drive"   -> r.expected = op.version
                 [] r.kind = "Observe" -> r.expected = exec.version /\ r.sequence + 1 = exec.next
                 [] OTHER -> /\ r.sequence = exec.attempt
                             /\ r.expected = IF r.state = "Leased" THEN exec.version - 1
                                                                   ELSE exec.version
    <3>1. RowCurrent(r, op, exec)
      BY <2>1 DEF RInv, ChainGood, Current
    <3>2. r.expected \in Nat /\ exec.version \in Nat
      BY StateTypes DEF Rows
    <3>3. r.expected + 1 = exec.version => r.expected = exec.version - 1
      BY <3>2
    <3>4. QED
      BY <3>1, <3>3 DEF RowCurrent
  <2>2. TypeOK
    BY Types
  <2>3. QED
    BY <2>1, <2>2 DEF ActiveIsCurrent
<1>2. QED
  BY <1>1, Invariance, PTL

\* An operation that nothing carries on has a dead row that the planner recovers.
LEMMA OperationNotStranded ==
  ASSUME RInv, ~op.finished, registered, {r \in outbox : Active(r) /\ r.op = op.number} = {}
  PROVE  \E r \in Dead : /\ r.op = op.number
                         /\ PlanDeadWorkRecovery(r) \/ (r.kind = "Dispatch" /\ exec.state = "Pending")
<1>1. PICK r \in outbox : Carries(r, op, exec)
  BY DEF RInv, ChainGood, Carried
<1>2. r.op = op.number /\ r.state # "Completed" /\ ~Active(r)
  BY <1>1 DEF Carries
<1>3. r \in Rows /\ r.op # 0
  BY <1>2, StateTypes
<1>4. r.state = "Dead" /\ r \in Dead
  BY <1>2, <1>3 DEF Rows, RowStates, Active, Dead
<1>5. Equivalent(r) = {}
  <2>1. ASSUME NEW t \in Equivalent(r) PROVE FALSE
    <3>1. t \in outbox /\ Active(t) /\ t.op = OwnerOf(EquivalentKind(r), r.op)
      BY <2>1 DEF Equivalent, ActiveOf
    <3>2. r.kind \in {"Drive", "Dispatch", "Observe"}
      BY <1>1 DEF Carries
    <3>3. t.op = op.number
      BY <1>2, <3>1, <3>2 DEF OwnerOf, EquivalentKind
    <3>4. QED
      BY <3>1, <3>3
  <2>2. QED
    BY <2>1
<1>6. CASE r.kind = "Drive"
  <2>1. PlanDeadWorkRecovery(r)
    BY <1>2, <1>3, <1>4, <1>5, <1>6 DEF PlanDeadWorkRecovery, Superseded
  <2>2. QED
    BY <1>2, <1>4, <2>1
<1>7. CASE r.kind = "Dispatch"
  <2>1. exec.state = "Pending"
    BY <1>1, <1>4, <1>7 DEF Carries
  <2>2. QED
    BY <1>2, <1>4, <1>7, <2>1
<1>8. CASE r.kind = "Observe"
  <2>1. r.sequence + 1 = exec.next /\ exec.state \in {"Unknown", "Accepted"}
    BY <1>1, <1>8 DEF Carries
  <2>2. r.sequence \in Nat /\ r.sequence > 0
    <3>1. KeyGood(r, op, exec, resource.version, Cardinality(ledger))
      BY DEF RInv, ChainGood, RowsGood
    <3>2. QED
      BY <1>3, <1>8, <3>1 DEF KeyGood, Rows
  <2>3. ~Superseded(r)
    BY <1>8, <2>1, <2>2 DEF Superseded
  <2>4. PlanDeadWorkRecovery(r)
    BY <1>2, <1>3, <1>4, <1>5, <2>1, <2>3 DEF PlanDeadWorkRecovery, ObservableForObserve
  <2>5. QED
    BY <1>2, <1>4, <2>4
<1>9. QED
  BY <1>1, <1>6, <1>7, <1>8 DEF Carries

\* Dependents whom nothing will wake have a dead wake that the planner recovers.
LEMMA DependentsNotStranded ==
  ASSUME RInv, woken < due, op.finished, resource.state # "Deleted",
         ActiveOf(outbox, "WakeDependents", 0) = {}
  PROVE  \E r \in Dead : r.kind = "WakeDependents" /\ PlanDeadWorkRecovery(r)
<1>1. PICK r \in outbox : r.kind = "WakeDependents" /\ r.state # "Completed"
  BY DEF RInv, ChainGood, WakesGood
<1>2. r \in Rows /\ r.op = 0
  BY <1>1, StateTypes DEF RInv, ChainGood, RowsGood
<1>3. ~Active(r)
  BY <1>1, <1>2 DEF ActiveOf, OwnerOf
<1>4. r.state = "Dead" /\ r \in Dead
  BY <1>1, <1>2, <1>3 DEF Rows, RowStates, Active, Dead
<1>5. Equivalent(r) = {}
  BY <1>1, <1>2 DEF Equivalent, EquivalentKind
<1>6. PlanDeadWorkRecovery(r)
  BY <1>1, <1>2, <1>4, <1>5 DEF PlanDeadWorkRecovery
<1>7. QED
  BY <1>1, <1>4, <1>6

\* Quarantine strands nothing: the planner always has a row to set a stopped
\* operation, or the wake of its dependents, going again.
THEOREM QuarantineIsRecoverable ==
  Spec => []NothingStranded
<1>1. RInv => NothingStranded
  BY OperationNotStranded, DependentsNotStranded DEF NothingStranded
<1>2. QED
  BY <1>1, Invariance, PTL

\* An accepted operator action has its key alone, has made a row that was not
\* there, and was allowed in the diagnostics that its If-Match names.
THEOREM ActionsAreSound ==
  Spec => AcceptedActionIsSound
<1>1. RInv /\ [Next]_vars =>
        [\A a \in ledger' \ ledger :
           /\ \A b \in ledger : b.key # a.key
           /\ \E r \in outbox' \ outbox : r.key = a.work
           /\ shown # NothingShown => shown.allowed]_vars
  BY NextKeeps DEF ActionIsSound
<1>2. QED
  BY <1>1, Invariance, PTL DEF Spec, AcceptedActionIsSound
=============================================================================
