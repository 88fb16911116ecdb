--------------------------- MODULE OpenTofuProofs ---------------------------
(***************************************************************************)
(* Proofs about OpenTofu for any number of workers, operations and faults: *)
(* applies are safe, the bound state and the outputs can be trusted, and   *)
(* the provisioner implements ProvisionerContract.                         *)
(*                                                                         *)
(* The argument: only the call that holds the lease of the open message    *)
(* writes the journal (Fence), and whoever holds it has held it since its  *)
(* claim, so what an owner has read in the journal is still there.  An     *)
(* apply is started only by the call that moved the journal out of         *)
(* Prepared, which happens once; a rejection leaves the journal at         *)
(* Prepared for good, and a success is read off a marker that only a       *)
(* complete apply writes.                                                  *)
(***************************************************************************)
EXTENDS OpenTofu, FiniteSetTheorems, TLAPS

\* The lease is the caller's, and so are operation and kind of the message.
OwnerAgrees(w, c) ==
  Owns(w) /\ c.step # "idle" => c.op = current /\ c.kind = message.kind

\* The steps of the two kinds of calls, and what was checked on the way.
StepAgrees(c) ==
  /\ c.step # "idle" => c.op \in 1..current
  /\ c.step = "idle" => c.op = 0 /\ c.phase = "None"
  /\ c.step \in {"prepare", "bind", "plan", "show", "journal", "apply", "await", "broken", "exited"} =>
       c.kind = "Dispatch"
  /\ c.step \in {"load", "loadBinding", "repull", "uncertain"} => c.kind = "Observe"
  /\ c.step \in {"init", "plan", "show", "journal", "apply"} => c.copy = "Registered"
  /\ c.kind = "Dispatch" /\ c.step \in {"apply", "await", "broken", "exited", "verify", "outputs",
                                        "pull", "update", "converge"} => c.uncertain

\* A call that may start the apply is the first, and its operation is open.
MayApply(c) ==
  c.step = "apply" =>
    /\ c.op = current /\ verdict[c.op] = "None"
    /\ tofu[c.op] = "None" /\ journal[c.op] \notin NotStarted

\* What an owner has read in the journal is still there.
OwnerReads(w, c) ==
  Owns(w) =>
    /\ c.kind = "Dispatch" /\ c.step \in {"bind", "copy", "assemble", "init", "plan", "show", "journal"} =>
         journal[c.op] = "Prepared"
    /\ c.step = "answer" /\ c.answer = "Rejected" => journal[c.op] \in NotStarted

\* Success rests on a complete apply.
Verified(c) ==
  \/ c.step \in {"outputs", "repull", "update", "uncertain", "converge"}
  \/ c.step = "pull" /\ c.kind = "Dispatch"
  \/ c.step = "answer" /\ c.answer = "Succeeded"

SuccessIsFull(c) == Verified(c) => tofu[c.op] = "Full"

\* What a call remembers of the journal and the binding.
Remembers(c) ==
  /\ c.phase = "ObservedConverged" => journal[c.op] = "ObservedConverged"
  /\ c.binding.version <= binding.version
  /\ c.binding.version = binding.version => c.binding.state = binding.state
  /\ c.step = "update" => StateCompatible(c.binding.state, c.pulled)
  /\ c.outputs = "Available" => c.producer # 0 /\ Generation[c.producer] = Generation[c.op]

CallOK(w, c) ==
  /\ OwnerAgrees(w, c)
  /\ StepAgrees(c)
  /\ MayApply(c)
  /\ OwnerReads(w, c)
  /\ SuccessIsFull(c)
  /\ Remembers(c)

\* At most one call may start the apply of an operation.
OneStarter ==
  \A v, w \in Workers :
    At(v, "apply") /\ At(w, "apply") /\ worker[v].op = worker[w].op => v = w

\* The message is open as long as there is no verdict; later operations have
\* not begun.
MessageAgrees ==
  /\ message.open <=> verdict[current] = "None"
  /\ \A o \in Ops : o > current => verdict[o] = "None" /\ journal[o] = "None"

\* The journal is ahead of the apply.
JournalAhead == \A o \in Ops : tofu[o] # "None" => journal[o] \notin NotStarted

VerdictsTrue ==
  \A o \in Ops :
    /\ verdict[o] = "Rejected" => journal[o] \in NotStarted
    /\ verdict[o] = "Succeeded" => tofu[o] = "Full"

\* The marker names an operation that was applied in full.
MarkersTrue ==
  \A s \in past \cup {state} : s.marker # 0 => tofu[s.marker] = "Full"

AppliesCounted == \A o \in Ops : applies[o] = IF tofu[o] = "None" THEN 0 ELSE 1

BindingAgrees == binding.version = 0 => binding = NoBinding

OInv ==
  /\ TypeOK /\ IsFiniteSet(past)
  /\ MessageAgrees /\ JournalAhead /\ VerdictsTrue /\ MarkersTrue /\ AppliesCounted /\ BindingAgrees
  /\ OneStarter
  /\ SettledNeverApplies
  /\ ApplyWorkspaceKept
  /\ AppliedSourceIsRegistered
  /\ \A w \in Workers : CallOK(w, worker[w])

-----------------------------------------------------------------------------
(* Shapes of steps. *)

\* What the invariant says beside the calls.
Shared ==
  /\ IsFiniteSet(past)
  /\ MessageAgrees /\ JournalAhead /\ VerdictsTrue /\ MarkersTrue /\ AppliesCounted /\ BindingAgrees
  /\ SettledNeverApplies
  /\ AppliedSourceIsRegistered

\* What a call knows stays true as long as the journal, the processes and the
\* binding only go forward and its own lease is not given to it anew.
LEMMA OthersOK ==
  ASSUME NEW v, NEW c \in Calls, CallOK(v, c), TypeOK, TypeOK', current <= current',
         Owns(v)' => Owns(v) /\ message'.kind = message.kind /\ journal' = journal /\ current' = current,
         \A o \in Ops : journal[o] \notin NotStarted => journal'[o] \notin NotStarted,
         \A o \in Ops : journal[o] = "ObservedConverged" => journal'[o] = "ObservedConverged",
         \A o \in Ops : tofu[o] = "Full" => tofu'[o] = "Full",
         c.step = "apply" => current' = current /\ tofu'[c.op] = "None" /\ verdict'[c.op] = "None",
         binding' = binding \/ binding.version < binding'.version
  PROVE  CallOK(v, c)'
<1>1. /\ current \in Nat /\ current' \in Nat /\ current' \in Ops
      /\ binding.version \in Nat /\ binding'.version \in Nat /\ c.binding.version \in Nat
      /\ message.kind \in {"Dispatch", "Observe"}
  BY OpenTofuAssumption DEF TypeOK, Ops, Bindings, Calls, Messages
<1>2. c.step # "idle" => c.op \in Ops /\ c.op \in 1..current'
  <2>1. c.step # "idle" => c.op \in 1..current
    BY DEF CallOK, StepAgrees
  <2>2. MaxOps \in Nat
    BY OpenTofuAssumption
  <2>3. QED
    BY <1>1, <2>1, <2>2 DEF Ops
<1>3. OwnerAgrees(v, c)'
  BY DEF CallOK, OwnerAgrees
<1>4. StepAgrees(c)'
  BY <1>2 DEF CallOK, StepAgrees
<1>5. MayApply(c)'
  BY <1>2 DEF CallOK, MayApply
<1>6. OwnerReads(v, c)'
  BY DEF CallOK, OwnerReads
<1>7. SuccessIsFull(c)'
  <2>1. Verified(c) => c.step # "idle"
    BY DEF Verified
  <2>2. QED
    BY <1>2, <2>1 DEF CallOK, SuccessIsFull, Verified
<1>8. Remembers(c)'
  <2>1. c.phase = "ObservedConverged" => journal'[c.op] = "ObservedConverged"
    BY <1>2 DEF CallOK, Remembers, StepAgrees
  <2>2. /\ c.binding.version <= binding'.version
        /\ c.binding.version = binding'.version => c.binding.state = binding'.state
    BY <1>1 DEF CallOK, Remembers
  <2>3. QED
    BY <2>1, <2>2 DEF CallOK, Remembers, StateCompatible
<1>9. QED
  BY <1>3, <1>4, <1>5, <1>6, <1>7, <1>8 DEF CallOK

\* The steps in which a dispatch has an apply behind it.
ApplySteps == {"await", "broken", "exited", "verify", "outputs", "pull", "update", "converge"}

\* The invariant after a step, from its parts.
LEMMA Compose ==
  ASSUME TypeOK', Shared', OneStarter', ApplyWorkspaceKept',
         \A w \in Workers : CallOK(w, worker[w])'
  PROVE  OInv'
BY DEF OInv, Shared

\* A workspace with an apply behind it stays known while calls move on.
LEMMA KeptStays ==
  ASSUME OInv, NEW w \in Workers, NEW y \in Calls, worker' = [worker EXCEPT ![w] = y],
         applies' = applies,
         \A o \in Ops : journal[o] = "ObservedConverged" => journal'[o] = "ObservedConverged",
         kept \cup orphans \subseteq kept' \cup orphans',
         Applied(w) /\ worker[w].uncertain =>
           \/ y.op = worker[w].op /\ y.kind = "Dispatch" /\ y.step \in ApplySteps /\ y.uncertain
           \/ worker[w].op \in kept' \cup orphans'
           \/ journal'[worker[w].op] = "ObservedConverged"
  PROVE  ApplyWorkspaceKept'
<1>1. worker \in [Workers -> Calls]
  BY DEF OInv, TypeOK
<1>2. worker'[w] = y /\ \A v \in Workers : v # w => worker'[v] = worker[v]
  BY <1>1
<1>3. SUFFICES ASSUME NEW o \in Ops, applies[o] > 0, journal'[o] # "ObservedConverged", o \notin kept' \cup orphans'
               PROVE  \E v \in Workers : /\ worker'[v].op = o /\ worker'[v].kind = "Dispatch"
                                         /\ worker'[v].step \in ApplySteps /\ worker'[v].uncertain
  BY DEF ApplyWorkspaceKept, Applied, ApplySteps
<1>4. PICK v \in Workers : worker[v].op = o /\ Applied(v) /\ worker[v].uncertain
  BY <1>3 DEF OInv, ApplyWorkspaceKept
<1>5. CASE v = w
  BY <1>2, <1>3, <1>4, <1>5
<1>6. CASE v # w
  BY <1>2, <1>4, <1>6 DEF Applied, ApplySteps
<1>7. QED
  BY <1>5, <1>6

\* The journal is written by the owner of the message only, and never goes back.
JournalMoves(w) ==
  \/ journal' = journal
  \/ /\ Fence(w, TRUE)
     /\ \E to \in Phases :
          /\ journal' = [journal EXCEPT ![current] = to]
          /\ \/ journal[current] \in NotStarted /\ to = "Prepared"
             \/ to \notin NotStarted /\ journal[current] # "ObservedConverged"

\* What the moves of the journal keep.
LEMMA JournalKeeps ==
  ASSUME OInv, NEW w \in Workers, JournalMoves(w)
  PROVE  /\ journal' \in [Ops -> Phases]
         /\ \A o \in Ops : journal[o] \notin NotStarted => journal'[o] \notin NotStarted
         /\ \A o \in Ops : journal[o] = "ObservedConverged" => journal'[o] = "ObservedConverged"
         /\ \A o \in Ops : journal'[o] # journal[o] => o = current /\ verdict[o] = "None" /\ message.open
         /\ journal' # journal => Owns(w)
<1>1. journal \in [Ops -> Phases] /\ current \in Ops /\ (message.open <=> verdict[current] = "None")
  BY DEF OInv, TypeOK, MessageAgrees
<1>2. CASE journal' = journal
  BY <1>1, <1>2
<1>3. CASE journal' # journal
  <2>1. PICK to \in Phases :
          /\ journal' = [journal EXCEPT ![current] = to]
          /\ \/ journal[current] \in NotStarted /\ to = "Prepared"
             \/ to \notin NotStarted /\ journal[current] # "ObservedConverged"
    BY <1>3 DEF JournalMoves
  <2>2. Owns(w) /\ message.open
    BY <1>3 DEF JournalMoves, Fence, Owns
  <2>3. "ObservedConverged" \notin NotStarted
    BY DEF NotStarted
  <2>4. QED
    BY <1>1, <2>1, <2>2, <2>3
<1>4. QED
  BY <1>2, <1>3

\* A call leaves the message, the verdicts and the engine alone.
Leaves ==
  /\ UNCHANGED <<current, message, verdict, state, past, tofu, applies, program, disturbed>>
  /\ base' \in [Ops -> Evidences] /\ faults' \in 0..MaxFaults

BindingMoves ==
  \/ binding' = binding
  \/ binding' \in Bindings /\ binding.version < binding'.version

\* Nobody else may start the apply that call y may start.
OnlyStarter(w, y) ==
  y.step = "apply" => \A v \in Workers : v # w => ~(At(v, "apply") /\ worker[v].op = y.op)

\* The workspace of the apply of call w is still in use by y, on disk, or done with.
WorkspaceStays(w, y) ==
  /\ kept' \subseteq Ops /\ orphans' \subseteq Ops
  /\ kept \cup orphans \subseteq kept' \cup orphans'
  /\ Applied(w) /\ worker[w].uncertain =>
       \/ y.op = worker[w].op /\ y.kind = "Dispatch" /\ y.step \in ApplySteps /\ y.uncertain
       \/ worker[w].op \in kept' \cup orphans'
       \/ journal'[worker[w].op] = "ObservedConverged"

\* A step of one call that at most moves the journal and the binding forward.
LEMMA CallStep ==
  ASSUME OInv, NEW w \in Workers, NEW y \in Calls, worker' = [worker EXCEPT ![w] = y],
         Leaves, JournalMoves(w), BindingMoves, CallOK(w, y)', OnlyStarter(w, y), WorkspaceStays(w, y)
  PROVE  OInv'
<1>1. TypeOK /\ worker \in [Workers -> Calls]
  BY DEF OInv, TypeOK
<1>2. /\ current' = current /\ message' = message /\ verdict' = verdict /\ state' = state /\ past' = past
      /\ tofu' = tofu /\ applies' = applies /\ source' = source /\ built' = built /\ disturbed' = disturbed
      /\ base' \in [Ops -> Evidences] /\ faults' \in 0..MaxFaults
  BY DEF program, Leaves
<1>3. /\ journal' \in [Ops -> Phases]
      /\ \A o \in Ops : journal[o] \notin NotStarted => journal'[o] \notin NotStarted
      /\ \A o \in Ops : journal[o] = "ObservedConverged" => journal'[o] = "ObservedConverged"
      /\ \A o \in Ops : journal'[o] # journal[o] => o = current /\ verdict[o] = "None" /\ message.open
      /\ journal' # journal => Owns(w)
  BY JournalKeeps
<1>4. worker'[w] = y /\ \A v \in Workers : v # w => worker'[v] = worker[v]
  BY <1>1
<1>5. TypeOK'
  BY <1>1, <1>2, <1>3 DEF TypeOK, BindingMoves, WorkspaceStays
<1>6. Shared'
  <2>1. IsFiniteSet(past)' /\ AppliesCounted' /\ SettledNeverApplies' /\ AppliedSourceIsRegistered'
    BY <1>2 DEF OInv, AppliesCounted, SettledNeverApplies, AppliedSourceIsRegistered
  <2>2. MarkersTrue'
    BY <1>2 DEF OInv, MarkersTrue
  <2>3. MessageAgrees'
    <3>1. ASSUME NEW o \in Ops, o > current PROVE journal'[o] = "None" /\ verdict[o] = "None"
      <4>1. o # current
        BY <1>1, <3>1, OpenTofuAssumption DEF TypeOK, Ops
      <4>2. QED
        BY <1>3, <3>1, <4>1 DEF OInv, MessageAgrees
    <3>2. QED
      BY <1>2, <3>1 DEF OInv, MessageAgrees
  <2>4. JournalAhead'
    BY <1>2, <1>3 DEF OInv, JournalAhead
  <2>5. VerdictsTrue'
    <3>1. ASSUME NEW o \in Ops, verdict[o] = "Rejected" PROVE journal'[o] \in NotStarted
      <4>1. journal'[o] = journal[o]
        BY <1>3, <3>1
      <4>2. QED
        BY <3>1, <4>1 DEF OInv, VerdictsTrue
    <3>2. QED
      BY <1>2, <3>1 DEF OInv, VerdictsTrue
  <2>6. BindingAgrees'
    <3>1. CASE binding' = binding
      BY <3>1 DEF OInv, BindingAgrees
    <3>2. CASE binding' \in Bindings /\ binding.version < binding'.version
      <4>1. binding.version \in Nat
        BY <1>1 DEF TypeOK, Bindings
      <4>2. binding'.version # 0
        BY <3>2, <4>1 DEF Bindings
      <4>3. QED
        BY <4>2 DEF BindingAgrees
    <3>3. QED
      BY <3>1, <3>2 DEF BindingMoves
  <2>7. QED
    BY <2>1, <2>2, <2>3, <2>4, <2>5, <2>6 DEF Shared
<1>7. OneStarter'
  BY <1>4 DEF OInv, OneStarter, OnlyStarter, At
<1>8. ApplyWorkspaceKept'
  BY <1>2, <1>3, KeptStays DEF WorkspaceStays
<1>9. ASSUME NEW v \in Workers PROVE CallOK(v, worker[v])'
  <2>1. CASE v = w
    <3>1. worker'[v] = y
      BY <1>4, <2>1
    <3>2. QED
      BY <2>1, <3>1
  <2>2. CASE v # w
    <3>1. PICK c \in Calls : c = worker[v]
      BY <1>1
    <3>2. CallOK(v, c) /\ worker'[v] = c
      BY <1>4, <2>2, <3>1 DEF OInv
    <3>3. current <= current'
      BY <1>1, <1>2, OpenTofuAssumption DEF TypeOK, Ops
    <3>4. Owns(v)' => Owns(v) /\ message'.kind = message.kind /\ journal' = journal /\ current' = current
      BY <1>2, <1>3, <2>2 DEF Owns
    <3>5. c.step = "apply" => current' = current /\ tofu'[c.op] = "None" /\ verdict'[c.op] = "None"
      BY <1>2, <3>2 DEF CallOK, MayApply
    <3>6. CallOK(v, c)'
      BY <1>1, <1>2, <1>3, <1>5, <3>2, <3>3, <3>4, <3>5, OthersOK DEF BindingMoves
    <3>7. QED
      BY <3>2, <3>6
  <2>3. QED
    BY <2>1, <2>2
<1>10. QED
  BY <1>5, <1>6, <1>7, <1>8, <1>9, Compose

\* The fields of a call that returns an answer.
LEMMA AnswerFields ==
  ASSUME NEW c \in Calls, NEW a \in Answers
  PROVE  LET y == [c EXCEPT !.step = "answer", !.answer = a] IN
         /\ y \in Calls /\ y.step = "answer" /\ y.answer = a
         /\ y.kind = c.kind /\ y.op = c.op /\ y.phase = c.phase /\ y.binding = c.binding
         /\ y.pulled = c.pulled /\ y.outputs = c.outputs /\ y.producer = c.producer
         /\ y.copy = c.copy /\ y.uncertain = c.uncertain
BY DEF Calls, Steps, Answers

\* A call that returns without a conclusive answer, or rejects an attempt that
\* the journal says was not started, keeps the workspace of an uncertain apply
\* (workspace.close).
LEMMA ReturnStep ==
  ASSUME OInv, NEW w \in Workers, NEW a \in {"Ambiguous", "NotAttempted", "Rejected"}, Return(w, a),
         ~At(w, "idle"),
         Leaves, binding' = binding, JournalMoves(w),
         a = "Rejected" => journal' = journal /\ (Owns(w) => journal[worker[w].op] \in NotStarted)
  PROVE  OInv'
<1>1. TypeOK /\ worker \in [Workers -> Calls] /\ CallOK(w, worker[w])
  BY DEF OInv, TypeOK
<1>2. PICK c \in Calls : c = worker[w]
  BY <1>1
<1>3. PICK y : y = [c EXCEPT !.step = "answer", !.answer = a]
  OBVIOUS
<1>4. a \in Answers
  BY DEF Answers
<1>5. /\ y \in Calls /\ y.step = "answer" /\ y.answer = a
      /\ y.kind = c.kind /\ y.op = c.op /\ y.phase = c.phase /\ y.binding = c.binding
      /\ y.pulled = c.pulled /\ y.outputs = c.outputs /\ y.producer = c.producer
      /\ y.copy = c.copy /\ y.uncertain = c.uncertain
  BY <1>3, <1>4, AnswerFields
<1>6. worker' = [worker EXCEPT ![w] = y]
  BY <1>1, <1>2, <1>3 DEF Return
<1>7. /\ current' = current /\ message' = message /\ verdict' = verdict /\ tofu' = tofu
  BY DEF Leaves
<1>8. \A o \in Ops : journal[o] = "ObservedConverged" => journal'[o] = "ObservedConverged"
  BY JournalKeeps
<1>9. CallOK(w, c) /\ c.step # "idle"
  BY <1>1, <1>2 DEF At
<1>10. c.op \in Ops
  BY <1>1, <1>9, OpenTofuAssumption DEF CallOK, StepAgrees, TypeOK, Ops
<1>11. CallOK(w, y)'
  <2>1. OwnerAgrees(w, y)' /\ StepAgrees(y)' /\ MayApply(y)'
    BY <1>5, <1>7, <1>9 DEF CallOK, OwnerAgrees, StepAgrees, MayApply, Owns
  <2>2. OwnerReads(w, y)'
    BY <1>2, <1>5, <1>7 DEF OwnerReads, Owns
  <2>3. SuccessIsFull(y)'
    BY <1>5 DEF SuccessIsFull, Verified
  <2>4. Remembers(y)'
    BY <1>5, <1>8, <1>9, <1>10 DEF CallOK, Remembers
  <2>5. QED
    BY <2>1, <2>2, <2>3, <2>4 DEF CallOK
<1>12. WorkspaceStays(w, y)
  BY <1>1, <1>2, <1>10 DEF Return, TypeOK, WorkspaceStays
<1>13. BindingMoves /\ OnlyStarter(w, y)
  BY <1>5 DEF BindingMoves, OnlyStarter
<1>14. QED
  BY <1>5, <1>6, <1>11, <1>12, <1>13, CallStep

\* A call that goes on to its next step without touching anything shared.
LEMMA GoesOn ==
  ASSUME OInv, NEW w \in Workers, NEW y \in Calls, worker' = [worker EXCEPT ![w] = y],
         Leaves, journal' = journal, binding' = binding, UNCHANGED files,
         CallOK(w, y), y.step # "apply",
         Applied(w) => y.op = worker[w].op /\ y.kind = "Dispatch" /\ y.step \in ApplySteps /\ y.uncertain
  PROVE  OInv'
<1>1. JournalMoves(w)
  BY DEF JournalMoves
<1>2. CallOK(w, y)'
  <2>1. current' = current /\ message' = message /\ verdict' = verdict /\ tofu' = tofu
    BY DEF Leaves
  <2>2. OwnerAgrees(w, y)' /\ StepAgrees(y)' /\ MayApply(y)' /\ OwnerReads(w, y)'
    BY <2>1 DEF CallOK, OwnerAgrees, StepAgrees, MayApply, OwnerReads, Owns
  <2>3. SuccessIsFull(y)' /\ Remembers(y)'
    BY <2>1 DEF CallOK, SuccessIsFull, Verified, Remembers, StateCompatible
  <2>4. QED
    BY <2>2, <2>3 DEF CallOK
<1>3. WorkspaceStays(w, y) /\ BindingMoves /\ OnlyStarter(w, y)
  BY DEF files, OInv, TypeOK, WorkspaceStays, BindingMoves, OnlyStarter
<1>4. QED
  BY <1>1, <1>2, <1>3, CallStep


\* What is known of the call that takes a step.
LEMMA CallKnown ==
  ASSUME OInv, NEW w \in Workers
  PROVE  /\ TypeOK /\ worker \in [Workers -> Calls] /\ worker[w] \in Calls
         /\ CallOK(w, worker[w])
         /\ ~At(w, "idle") => worker[w].op \in Ops /\ worker[w].op \in 1..current
         /\ current \in Ops
<1>1. TypeOK /\ worker \in [Workers -> Calls] /\ worker[w] \in Calls /\ CallOK(w, worker[w])
  BY DEF OInv, TypeOK
<1>2. current \in Ops
  BY <1>1 DEF TypeOK
<1>3. ~At(w, "idle") => worker[w].op \in 1..current
  BY <1>1 DEF At, CallOK, StepAgrees
<1>4. QED
  BY <1>1, <1>2, <1>3, OpenTofuAssumption DEF Ops

\* A fault leaves the count of faults within its bound.
LEMMA FaultBound ==
  ASSUME TypeOK, Fault \/ UNCHANGED faults
  PROVE  faults' \in 0..MaxFaults
BY OpenTofuAssumption DEF TypeOK, Fault

\* The fields of a call that goes to another step.
LEMMA StepFields ==
  ASSUME NEW c \in Calls, NEW s \in Steps
  PROVE  LET y == [c EXCEPT !.step = s] IN
         /\ y \in Calls /\ y.step = s
         /\ y.kind = c.kind /\ y.op = c.op /\ y.phase = c.phase /\ y.binding = c.binding
         /\ y.pulled = c.pulled /\ y.outputs = c.outputs /\ y.producer = c.producer
         /\ y.copy = c.copy /\ y.uncertain = c.uncertain /\ y.answer = c.answer
BY DEF Calls

\* The steps a call goes to without writing anything.
Follows(from, to) ==
  \/ from.step = "assemble" /\ to = "init"
  \/ from.step = "init" /\ to = "plan" /\ from.kind = "Dispatch"
  \/ from.step = "init" /\ to = "pull" /\ from.kind = "Observe"
  \/ from.step = "plan" /\ to = "show"
  \/ from.step = "show" /\ to = "journal"
  \/ from.step = "await" /\ to \in {"exited", "broken"}
  \/ from.step = "verify" /\ to = "outputs"
  \/ from.step = "update" /\ to = "uncertain" /\ from.kind = "Observe"
  \/ from.step = "update" /\ to = "converge" /\ from.kind = "Dispatch"
  \/ from.step = "uncertain" /\ to = "converge"

\* What a call knows as it goes on.
LEMMA FollowsOK ==
  ASSUME NEW w, NEW c \in Calls, NEW s \in Steps, NEW y \in Calls, CallOK(w, c), Follows(c, s),
         y.step = s,
         y.kind = c.kind /\ y.op = c.op /\ y.phase = c.phase /\ y.binding = c.binding,
         y.pulled = c.pulled /\ y.outputs = c.outputs /\ y.producer = c.producer,
         y.copy = c.copy /\ y.uncertain = c.uncertain /\ y.answer = c.answer,
         s = "init" => c.copy = "Registered",
         s = "outputs" => tofu[c.op] = "Full"
  PROVE  /\ CallOK(w, y)
         /\ s # "apply"
         /\ c.kind = "Dispatch" /\ c.step \in ApplySteps =>
              y.op = c.op /\ y.kind = "Dispatch" /\ y.step \in ApplySteps /\ y.uncertain
<1>1. OwnerAgrees(w, y)
  BY DEF CallOK, OwnerAgrees, Follows
<1>2. StepAgrees(y)
  BY DEF CallOK, StepAgrees, Follows
<1>3. MayApply(y) /\ s # "apply"
  BY DEF Follows, MayApply
<1>4. OwnerReads(w, y)
  BY DEF CallOK, OwnerReads, Follows
<1>5. SuccessIsFull(y)
  BY DEF CallOK, SuccessIsFull, Verified, Follows
<1>6. Remembers(y)
  BY DEF CallOK, Remembers, Follows
<1>7. c.kind = "Dispatch" /\ c.step \in ApplySteps =>
        y.op = c.op /\ y.kind = "Dispatch" /\ y.step \in ApplySteps /\ y.uncertain
  BY DEF CallOK, StepAgrees, Follows, ApplySteps
<1>8. QED
  BY <1>1, <1>2, <1>3, <1>4, <1>5, <1>6, <1>7 DEF CallOK

\* A step of a call that writes nothing but where it is.
LEMMA GotoStep ==
  ASSUME OInv, NEW w \in Workers, NEW s \in Steps, Goto(w, s), Follows(worker[w], s),
         Leaves, journal' = journal, binding' = binding, UNCHANGED files,
         s = "init" => worker[w].copy = "Registered",
         s = "outputs" => tofu[worker[w].op] = "Full"
  PROVE  OInv'
<1>1. worker \in [Workers -> Calls] /\ CallOK(w, worker[w])
  BY CallKnown
<1>2. PICK c \in Calls : c = worker[w]
  BY <1>1
<1>3. PICK y : y = [c EXCEPT !.step = s]
  OBVIOUS
<1>4. /\ y \in Calls /\ y.step = s
      /\ y.kind = c.kind /\ y.op = c.op /\ y.phase = c.phase /\ y.binding = c.binding
      /\ y.pulled = c.pulled /\ y.outputs = c.outputs /\ y.producer = c.producer
      /\ y.copy = c.copy /\ y.uncertain = c.uncertain /\ y.answer = c.answer
  BY <1>3, StepFields
<1>5. worker' = [worker EXCEPT ![w] = y]
  BY <1>1, <1>2, <1>3 DEF Goto
<1>6. /\ CallOK(w, y) /\ s # "apply"
      /\ c.kind = "Dispatch" /\ c.step \in ApplySteps =>
           y.op = c.op /\ y.kind = "Dispatch" /\ y.step \in ApplySteps /\ y.uncertain
  BY <1>1, <1>2, <1>4, FollowsOK
<1>7. y.step # "apply"
  BY <1>4, <1>6
<1>8. Applied(w) => y.op = worker[w].op /\ y.kind = "Dispatch" /\ y.step \in ApplySteps /\ y.uncertain
  BY <1>2, <1>6 DEF Applied, ApplySteps
<1>9. QED
  BY <1>4, <1>5, <1>6, <1>7, <1>8, GoesOn


\* A call that leaves engine, message and program alone, with or without a fault.
LEMMA LeavesAll ==
  ASSUME OInv, UNCHANGED <<current, message, verdict, engine, program, disturbed>>,
         Fault \/ UNCHANGED faults
  PROVE  Leaves
<1>1. TypeOK /\ base \in [Ops -> Evidences]
  BY DEF OInv, TypeOK
<1>2. faults' \in 0..MaxFaults
  BY <1>1, FaultBound
<1>3. QED
  BY <1>1, <1>2 DEF Leaves, engine

\* A call that returns and writes nothing to the journal.
LEMMA QuietReturn ==
  ASSUME OInv, NEW w \in Workers, NEW a \in {"Ambiguous", "NotAttempted", "Rejected"}, Return(w, a),
         ~At(w, "idle"), Leaves, journal' = journal, binding' = binding,
         a = "Rejected" /\ Owns(w) => journal[worker[w].op] \in NotStarted
  PROVE  OInv'
<1>1. JournalMoves(w)
  BY DEF JournalMoves
<1>2. a = "Rejected" => journal' = journal /\ (Owns(w) => journal[worker[w].op] \in NotStarted)
  OBVIOUS
<1>3. QED
  BY <1>1, <1>2, ReturnStep

\* A preparation that fails: under the lease the attempt is not started.
LEMMA PreparationFails ==
  ASSUME OInv, NEW w \in Workers, Refuse(w) \/ RefuseUnclosed(w) \/ Unavailable(w),
         worker[w].step \in {"copy", "assemble", "init", "plan", "show"},
         Leaves, journal' = journal, binding' = binding
  PROVE  OInv'
<1>1. CallOK(w, worker[w])
  BY CallKnown
<1>2. ~At(w, "idle")
  BY DEF At
<1>3. Owns(w) /\ worker[w].kind = "Dispatch" => journal[worker[w].op] \in NotStarted
  BY <1>1 DEF CallOK, OwnerReads, NotStarted
<1>4. PICK a \in {"Ambiguous", "NotAttempted", "Rejected"} :
        Return(w, a) /\ (a = "Rejected" => worker[w].kind = "Dispatch")
  BY DEF Refuse, RefuseUnclosed, Unavailable
<1>5. QED
  BY <1>2, <1>3, <1>4, QuietReturn

\* The digest of the copy decides whether the workspace is initialised (assemble).
LEMMA AssembleStep ==
  ASSUME OInv, NEW w \in Workers, Assemble(w)
  PROVE  OInv'
<1>1. Leaves /\ journal' = journal /\ binding' = binding
  BY LeavesAll DEF Assemble, evidence
<1>2. CASE Refuse(w) \/ Unavailable(w)
  <2>1. worker[w].step \in {"copy", "assemble", "init", "plan", "show"}
    BY DEF Assemble, At
  <2>2. QED
    BY <1>1, <1>2, <2>1, PreparationFails
<1>3. CASE DigestOfCopy(w) = "Registered" /\ Goto(w, "init") /\ UNCHANGED <<faults, files>>
  <2>1. Follows(worker[w], "init") /\ worker[w].copy = "Registered" /\ "init" \in Steps
    BY <1>3 DEF Assemble, At, Follows, DigestOfCopy, Steps
  <2>2. QED
    BY <1>1, <1>3, <2>1, GotoStep
<1>4. QED
  BY <1>2, <1>3 DEF Assemble

\* tofu init, or a failing preparation.
LEMMA InitStep ==
  ASSUME OInv, NEW w \in Workers, InitWorkspace(w)
  PROVE  OInv'
<1>1. Leaves /\ journal' = journal /\ binding' = binding
  BY LeavesAll DEF InitWorkspace, evidence
<1>2. CASE Refuse(w) \/ RefuseUnclosed(w) \/ Unavailable(w)
  <2>1. worker[w].step \in {"copy", "assemble", "init", "plan", "show"}
    BY DEF InitWorkspace, At
  <2>2. QED
    BY <1>1, <1>2, <2>1, PreparationFails
<1>3. CASE Goto(w, IF worker[w].kind = "Dispatch" THEN "plan" ELSE "pull") /\ UNCHANGED files
  <2>1. worker[w].kind \in {"Dispatch", "Observe"}
    BY CallKnown DEF Calls
  <2>2. PICK s \in {"plan", "pull"} : Goto(w, s) /\ Follows(worker[w], s)
    BY <1>3, <2>1 DEF InitWorkspace, At, Follows
  <2>3. s \in Steps /\ s # "init" /\ s # "outputs"
    BY DEF Steps
  <2>4. QED
    BY <1>1, <1>3, <2>2, <2>3, GotoStep
<1>4. QED
  BY <1>2, <1>3 DEF InitWorkspace

\* The plan is saved with the state it was computed from, or refused.
LEMMA SavePlanStep ==
  ASSUME OInv, NEW w \in Workers, SavePlan(w)
  PROVE  OInv'
<1>1. TypeOK /\ base \in [Ops -> Evidences] /\ Evidence(state) \in Evidences
  BY CallKnown DEF TypeOK, States, Evidence, Evidences
<1>2. Leaves /\ journal' = journal /\ binding' = binding
  <2>1. faults' \in 0..MaxFaults
    BY <1>1, FaultBound DEF SavePlan
  <2>2. base' \in [Ops -> Evidences]
    BY <1>1 DEF SavePlan
  <2>3. QED
    BY <2>1, <2>2 DEF SavePlan, Leaves, evidence
<1>3. CASE Refuse(w) \/ RefuseUnclosed(w) \/ Unavailable(w)
  <2>1. worker[w].step \in {"copy", "assemble", "init", "plan", "show"}
    BY DEF SavePlan, At
  <2>2. QED
    BY <1>2, <1>3, <2>1, PreparationFails
<1>4. CASE Goto(w, "show") /\ UNCHANGED files
  <2>1. Follows(worker[w], "show") /\ "show" \in Steps
    BY DEF SavePlan, At, Follows, Steps
  <2>2. QED
    BY <1>2, <1>4, <2>1, GotoStep
<1>5. QED
  BY <1>3, <1>4 DEF SavePlan

\* show and validatePlan: a plan that is not registered is refused.
LEMMA InspectStep ==
  ASSUME OInv, NEW w \in Workers, InspectPlan(w)
  PROVE  OInv'
<1>1. Leaves /\ journal' = journal /\ binding' = binding
  BY LeavesAll DEF InspectPlan, evidence
<1>2. CASE Refuse(w) \/ RefuseUnclosed(w) \/ Unavailable(w)
  <2>1. worker[w].step \in {"copy", "assemble", "init", "plan", "show"}
    BY DEF InspectPlan, At
  <2>2. QED
    BY <1>1, <1>2, <2>1, PreparationFails
<1>3. CASE Goto(w, "journal") /\ UNCHANGED files
  <2>1. Follows(worker[w], "journal") /\ "journal" \in Steps
    BY DEF InspectPlan, At, Follows, Steps
  <2>2. QED
    BY <1>1, <1>3, <2>1, GotoStep
<1>4. QED
  BY <1>2, <1>3 DEF InspectPlan


\* copySource: the copy is what the source directory holds at that moment.
LEMMA CopyStep ==
  ASSUME OInv, NEW w \in Workers, CopySource(w)
  PROVE  OInv'
<1>1. Leaves /\ journal' = journal /\ binding' = binding /\ UNCHANGED files
  BY LeavesAll DEF CopySource, evidence
<1>2. worker \in [Workers -> Calls] /\ CallOK(w, worker[w]) /\ source \in Sources
  BY CallKnown DEF TypeOK
<1>3. PICK c \in Calls : c = worker[w]
  BY <1>2
<1>4. PICK y : y = [c EXCEPT !.step = "assemble", !.copy = source]
  OBVIOUS
<1>5. /\ y \in Calls /\ y.step = "assemble"
      /\ y.kind = c.kind /\ y.op = c.op /\ y.phase = c.phase /\ y.binding = c.binding
      /\ y.pulled = c.pulled /\ y.outputs = c.outputs /\ y.producer = c.producer
      /\ y.uncertain = c.uncertain
  BY <1>2, <1>4 DEF Calls, Steps
<1>6. worker' = [worker EXCEPT ![w] = y]
  BY <1>2, <1>3, <1>4 DEF CopySource
<1>7. CallOK(w, c) /\ c.step = "copy"
  BY <1>2, <1>3 DEF CopySource, At
<1>8. CallOK(w, y)
  <2>1. OwnerAgrees(w, y) /\ StepAgrees(y) /\ MayApply(y)
    BY <1>5, <1>7 DEF CallOK, OwnerAgrees, StepAgrees, MayApply
  <2>2. OwnerReads(w, y) /\ SuccessIsFull(y)
    BY <1>5, <1>7 DEF CallOK, OwnerReads, SuccessIsFull, Verified
  <2>3. Remembers(y)
    BY <1>5, <1>7 DEF CallOK, Remembers
  <2>4. QED
    BY <2>1, <2>2, <2>3 DEF CallOK
<1>9. ~Applied(w)
  BY <1>3, <1>7 DEF Applied
<1>10. QED
  BY <1>1, <1>5, <1>6, <1>8, <1>9, GoesOn

\* An observation of an attempt that did not get past Prepared rejects it.
LEMMA LoadStep ==
  ASSUME OInv, NEW w \in Workers, LoadAttempt(w)
  PROVE  OInv'
<1>1. Leaves /\ journal' = journal /\ binding' = binding
  BY LeavesAll DEF LoadAttempt, evidence
<1>2. /\ worker \in [Workers -> Calls] /\ CallOK(w, worker[w]) /\ journal \in [Ops -> Phases]
      /\ ~At(w, "idle") /\ worker[w].op \in Ops
  BY CallKnown DEF TypeOK, LoadAttempt, At
<1>3. CASE Return(w, "Ambiguous")
  BY <1>1, <1>2, <1>3, QuietReturn
<1>4. CASE journal[worker[w].op] \in NotStarted /\ Return(w, "Rejected")
  BY <1>1, <1>2, <1>4, QuietReturn
<1>5. CASE /\ worker' = [worker EXCEPT ![w].step = "loadBinding", ![w].phase = journal[worker[w].op]]
           /\ UNCHANGED files
  <2>1. PICK c \in Calls : c = worker[w]
    BY <1>2
  <2>p. PICK p \in Phases : p = journal[c.op]
    BY <1>2, <2>1
  <2>2. PICK y : y = [c EXCEPT !.step = "loadBinding", !.phase = p]
    OBVIOUS
  <2>3. /\ y \in Calls /\ y.step = "loadBinding" /\ y.phase = journal[c.op]
        /\ y.kind = c.kind /\ y.op = c.op /\ y.binding = c.binding
        /\ y.pulled = c.pulled /\ y.outputs = c.outputs /\ y.producer = c.producer
        /\ y.copy = c.copy /\ y.uncertain = c.uncertain
    BY <2>p, <2>2 DEF Calls, Steps
  <2>4. worker' = [worker EXCEPT ![w] = y]
    BY <1>2, <1>5, <2>1, <2>p, <2>2
  <2>5. CallOK(w, c) /\ c.step = "load"
    BY <1>2, <2>1 DEF LoadAttempt, At
  <2>6. CallOK(w, y)
    <3>1. OwnerAgrees(w, y) /\ StepAgrees(y) /\ MayApply(y)
      BY <2>3, <2>5 DEF CallOK, OwnerAgrees, StepAgrees, MayApply
    <3>2. OwnerReads(w, y) /\ SuccessIsFull(y)
      BY <2>3, <2>5 DEF CallOK, OwnerReads, SuccessIsFull, Verified
    <3>3. Remembers(y)
      BY <2>3, <2>5 DEF CallOK, Remembers
    <3>4. QED
      BY <3>1, <3>2, <3>3 DEF CallOK
  <2>7. ~Applied(w) /\ y.step # "apply"
    BY <2>1, <2>3, <2>5 DEF Applied
  <2>8. QED
    BY <1>1, <1>5, <2>3, <2>4, <2>6, <2>7, GoesOn
<1>6. QED
  BY <1>3, <1>4, <1>5 DEF LoadAttempt

\* An observation reads the state binding.
LEMMA LoadBindingStep ==
  ASSUME OInv, NEW w \in Workers, LoadStateBinding(w)
  PROVE  OInv'
<1>1. Leaves /\ journal' = journal /\ binding' = binding
  BY LeavesAll DEF LoadStateBinding, evidence
<1>2. /\ worker \in [Workers -> Calls] /\ CallOK(w, worker[w]) /\ binding \in Bindings
      /\ ~At(w, "idle") /\ worker[w].op \in Ops
  BY CallKnown DEF TypeOK, LoadStateBinding, At
<1>3. CASE Return(w, "Ambiguous")
  BY <1>1, <1>2, <1>3, QuietReturn
<1>4. CASE worker' = [worker EXCEPT ![w].step = "copy", ![w].binding = binding] /\ UNCHANGED files
  <2>1. PICK c \in Calls : c = worker[w]
    BY <1>2
  <2>2. PICK y : y = [c EXCEPT !.step = "copy", !.binding = binding]
    OBVIOUS
  <2>3. /\ y \in Calls /\ y.step = "copy" /\ y.binding = binding
        /\ y.kind = c.kind /\ y.op = c.op /\ y.phase = c.phase
        /\ y.pulled = c.pulled /\ y.outputs = c.outputs /\ y.producer = c.producer
        /\ y.copy = c.copy /\ y.uncertain = c.uncertain
    BY <1>2, <2>2 DEF Calls, Steps
  <2>4. worker' = [worker EXCEPT ![w] = y]
    BY <1>2, <1>4, <2>1, <2>2
  <2>5. CallOK(w, c) /\ c.step = "loadBinding"
    BY <1>2, <2>1 DEF LoadStateBinding, At
  <2>6. CallOK(w, y)
    <3>1. OwnerAgrees(w, y) /\ StepAgrees(y) /\ MayApply(y)
      BY <2>3, <2>5 DEF CallOK, OwnerAgrees, StepAgrees, MayApply
    <3>2. OwnerReads(w, y) /\ SuccessIsFull(y)
      BY <2>3, <2>5 DEF CallOK, OwnerReads, SuccessIsFull, Verified, StepAgrees
    <3>3. Remembers(y)
      BY <1>2, <2>3, <2>5 DEF CallOK, Remembers, Bindings
    <3>4. QED
      BY <3>1, <3>2, <3>3 DEF CallOK
  <2>7. ~Applied(w) /\ y.step # "apply"
    BY <2>1, <2>3, <2>5 DEF Applied
  <2>8. QED
    BY <1>1, <1>4, <2>3, <2>4, <2>6, <2>7, GoesOn
<1>5. QED
  BY <1>3, <1>4 DEF LoadStateBinding

\* verifyConvergence: a converged plan carries the marker of a complete apply.
LEMMA VerifyStep ==
  ASSUME OInv, NEW w \in Workers, VerifyConvergence(w)
  PROVE  OInv'
<1>1. Leaves /\ journal' = journal /\ binding' = binding
  BY LeavesAll DEF VerifyConvergence, evidence
<1>2. ~At(w, "idle") /\ worker[w].op \in Ops
  BY CallKnown DEF VerifyConvergence, At
<1>3. CASE Return(w, "Ambiguous")
  BY <1>1, <1>2, <1>3, QuietReturn
<1>4. CASE ConvergedFor(worker[w].op) /\ Goto(w, "outputs") /\ UNCHANGED files
  <2>1. worker[w].op # 0
    BY <1>2, OpenTofuAssumption DEF Ops
  <2>2. tofu[worker[w].op] = "Full"
    BY <1>4, <2>1 DEF ConvergedFor, OInv, MarkersTrue
  <2>3. Follows(worker[w], "outputs") /\ "outputs" \in Steps
    BY DEF VerifyConvergence, At, Follows, Steps
  <2>4. QED
    BY <1>1, <1>4, <2>2, <2>3, GotoStep
<1>5. QED
  BY <1>3, <1>4 DEF VerifyConvergence


\* Pulling the state: what is pulled is compatible with what was bound.
LEMMA PullStep ==
  ASSUME OInv, NEW w \in Workers, PullState(w)
  PROVE  OInv'
<1>1. Leaves /\ journal' = journal /\ binding' = binding
  BY LeavesAll DEF PullState, evidence
<1>2. /\ worker \in [Workers -> Calls] /\ CallOK(w, worker[w])
      /\ ~At(w, "idle") /\ Evidence(state) \in Evidences
  BY CallKnown DEF TypeOK, PullState, At, States, Evidence, Evidences
<1>3. CASE Return(w, "Ambiguous")
  BY <1>1, <1>2, <1>3, QuietReturn
<1>4. PICK last \in BOOLEAN : last <=> worker[w].kind = "Dispatch" \/ At(w, "repull")
  OBVIOUS
<1>5. PICK s \in Steps : s = IF last THEN "update" ELSE "verify"
  BY DEF Steps
<1>6. PICK now \in Evidences : now = Evidence(state)
  BY <1>2
<1>7. CASE /\ StateCompatible(worker[w].binding.state, now)
           /\ worker' = [worker EXCEPT ![w].pulled = now, ![w].step = s]
           /\ UNCHANGED files
  <2>1. PICK c \in Calls : c = worker[w]
    BY <1>2
  <2>2. PICK y : y = [c EXCEPT !.pulled = now, !.step = s]
    OBVIOUS
  <2>3. /\ y \in Calls /\ y.step = s /\ y.pulled = now
        /\ y.kind = c.kind /\ y.op = c.op /\ y.phase = c.phase /\ y.binding = c.binding
        /\ y.outputs = c.outputs /\ y.producer = c.producer
        /\ y.copy = c.copy /\ y.uncertain = c.uncertain
    BY <2>2 DEF Calls
  <2>4. worker' = [worker EXCEPT ![w] = y]
    BY <1>2, <1>7, <2>1, <2>2
  <2>5. CallOK(w, c) /\ c.step \in {"pull", "repull"} /\ StateCompatible(c.binding.state, now)
    BY <1>2, <1>7, <2>1 DEF PullState, At
  <2>6. s = IF c.kind = "Dispatch" \/ c.step = "repull" THEN "update" ELSE "verify"
    BY <1>4, <1>5, <2>1 DEF At
  <2>7. CallOK(w, y)
    <3>1. OwnerAgrees(w, y) /\ StepAgrees(y) /\ MayApply(y)
      BY <2>3, <2>5, <2>6 DEF CallOK, OwnerAgrees, StepAgrees, MayApply
    <3>2. OwnerReads(w, y) /\ SuccessIsFull(y)
      BY <2>3, <2>5, <2>6 DEF CallOK, OwnerReads, SuccessIsFull, Verified
    <3>3. Remembers(y)
      BY <2>3, <2>5, <2>6 DEF CallOK, Remembers
    <3>4. QED
      BY <3>1, <3>2, <3>3 DEF CallOK
  <2>8. y.step # "apply"
    BY <2>3, <2>6
  <2>9. Applied(w) => y.op = worker[w].op /\ y.kind = "Dispatch" /\ y.step \in ApplySteps /\ y.uncertain
    BY <2>1, <2>3, <2>5, <2>6 DEF Applied, ApplySteps, CallOK, StepAgrees
  <2>10. QED
    BY <1>1, <1>7, <2>3, <2>4, <2>7, <2>8, <2>9, GoesOn
<1>8. QED
  BY <1>3, <1>4, <1>5, <1>6, <1>7 DEF PullState

\* Reading the outputs: those that are available carry the target generation.
LEMMA OutputsStep ==
  ASSUME OInv, NEW w \in Workers, ReadOutputs(w)
  PROVE  OInv'
<1>1. Leaves /\ journal' = journal /\ binding' = binding /\ UNCHANGED files
  BY LeavesAll DEF ReadOutputs, evidence
<1>2. worker \in [Workers -> Calls] /\ CallOK(w, worker[w]) /\ state.marker \in 0..MaxOps
  BY CallKnown DEF TypeOK, States
<1>3. PICK c \in Calls : c = worker[w]
  BY <1>2
<1>4. CallOK(w, c) /\ c.step = "outputs" /\ c.kind \in {"Dispatch", "Observe"}
  BY <1>2, <1>3 DEF ReadOutputs, At, Calls
<1>5. PICK s \in Steps : s = IF c.kind = "Dispatch" THEN "pull" ELSE "repull"
  BY DEF Steps
<1>6. PICK p \in 0..MaxOps, out \in Outputs :
        /\ worker' = [worker EXCEPT ![w].step = s, ![w].producer = p, ![w].outputs = out]
        /\ out = "Available" => p # 0 /\ Generation[p] = Generation[c.op]
  <2>1. CASE worker' = [worker EXCEPT ![w].step = s, ![w].producer = state.marker,
                                      ![w].outputs = DecodeOutputs(worker[w].op)]
    BY <1>2, <1>3, <2>1 DEF DecodeOutputs, Outputs
  <2>2. CASE worker' = [worker EXCEPT ![w].step = s, ![w].outputs = "Unavailable"]
    <3>1. worker[w].producer \in 0..MaxOps /\ "Unavailable" \in Outputs
      BY <1>2 DEF Calls, Outputs
    <3>2. worker' = [worker EXCEPT ![w].step = s, ![w].producer = c.producer, ![w].outputs = "Unavailable"]
      BY <1>2, <1>3, <2>2 DEF Calls
    <3>3. QED
      BY <1>3, <3>1, <3>2
  <2>3. QED
    BY <1>3, <1>5, <2>1, <2>2 DEF ReadOutputs
<1>7. PICK y : y = [c EXCEPT !.step = s, !.producer = p, !.outputs = out]
  OBVIOUS
<1>8. /\ y \in Calls /\ y.step = s /\ y.producer = p /\ y.outputs = out
      /\ y.kind = c.kind /\ y.op = c.op /\ y.phase = c.phase /\ y.binding = c.binding
      /\ y.pulled = c.pulled /\ y.copy = c.copy /\ y.uncertain = c.uncertain
  BY <1>7 DEF Calls
<1>9. worker' = [worker EXCEPT ![w] = y]
  BY <1>2, <1>3, <1>6, <1>7
<1>10. CallOK(w, y)
  <2>1. OwnerAgrees(w, y) /\ StepAgrees(y) /\ MayApply(y)
    BY <1>4, <1>5, <1>8 DEF CallOK, OwnerAgrees, StepAgrees, MayApply
  <2>2. OwnerReads(w, y) /\ SuccessIsFull(y)
    BY <1>4, <1>5, <1>8 DEF CallOK, OwnerReads, SuccessIsFull, Verified
  <2>3. Remembers(y)
    BY <1>4, <1>5, <1>6, <1>8 DEF CallOK, Remembers
  <2>4. QED
    BY <2>1, <2>2, <2>3 DEF CallOK
<1>11. y.step # "apply"
  BY <1>5, <1>8
<1>12. Applied(w) => y.op = worker[w].op /\ y.kind = "Dispatch" /\ y.step \in ApplySteps /\ y.uncertain
  BY <1>3, <1>4, <1>5, <1>8 DEF Applied, ApplySteps, CallOK, StepAgrees
<1>13. QED
  BY <1>1, <1>8, <1>9, <1>10, <1>11, <1>12, GoesOn


\* AdvanceAttempt moves the journal along, under the lease.
LEMMA AdvanceMoves ==
  ASSUME OInv, NEW w \in Workers, NEW from, NEW to, Advances(w, from, to),
         journal' = [journal EXCEPT ![worker[w].op] = to]
  PROVE  /\ JournalMoves(w) /\ Owns(w) /\ worker[w].op = current
         /\ to \in Phases /\ to \notin NotStarted /\ from # "None" /\ journal[worker[w].op] = from
         /\ journal'[worker[w].op] = to
<1>1. worker[w].op = current /\ journal[current] = from /\ Fence(w, TRUE)
  BY DEF Advances, Fence
<1>2. /\ to \in {"ApplyMayStart", "ApplyExited", "ApplyOutcomeUnknown", "ObservedConverged"}
      /\ from \in {"Prepared", "ApplyMayStart", "ApplyExited", "ApplyOutcomeUnknown"}
  BY DEF Advances, CanAdvanceTo
<1>3. to \in Phases /\ to \notin NotStarted
  BY <1>2 DEF Phases, NotStarted
<1>4. journal \in [Ops -> Phases] /\ current \in Ops
  BY DEF OInv, TypeOK
<1>5. JournalMoves(w)
  BY <1>1, <1>2, <1>3 DEF JournalMoves
<1>6. Owns(w)
  BY <1>1 DEF Fence, Owns
<1>7. QED
  BY <1>1, <1>2, <1>3, <1>4, <1>5, <1>6

\* What a call knows after a step of its own that moves the journal.
LEMMA MovedOK ==
  ASSUME OInv, NEW w \in Workers, NEW c \in Calls, NEW y \in Calls, CallOK(w, c), c.step # "idle",
         Leaves, JournalMoves(w), binding' = binding,
         y.kind = c.kind, y.op = c.op, y.binding = c.binding, y.outputs = c.outputs, y.producer = c.producer,
         y.step \notin {"idle", "apply", "update"},
         StepAgrees(y), OwnerReads(w, y)', SuccessIsFull(y),
         y.phase = c.phase \/ (y.phase = "ObservedConverged" => journal'[y.op] = "ObservedConverged")
  PROVE  CallOK(w, y)'
<1>1. current' = current /\ message' = message /\ verdict' = verdict /\ tofu' = tofu
  BY DEF Leaves
<1>2. c.op \in Ops
  BY OpenTofuAssumption DEF OInv, TypeOK, CallOK, StepAgrees, Ops
<1>3. \A o \in Ops : journal[o] = "ObservedConverged" => journal'[o] = "ObservedConverged"
  BY JournalKeeps
<1>4. OwnerAgrees(w, y)' /\ MayApply(y)' /\ StepAgrees(y)'
  BY <1>1 DEF CallOK, OwnerAgrees, MayApply, StepAgrees, Owns
<1>5. SuccessIsFull(y)'
  BY <1>1 DEF SuccessIsFull, Verified
<1>6. Remembers(y)'
  BY <1>2, <1>3 DEF CallOK, Remembers
<1>7. QED
  BY <1>4, <1>5, <1>6 DEF CallOK

\* prepareAttempt: a new attempt, or one that is still only prepared.
LEMMA PrepareStep ==
  ASSUME OInv, NEW w \in Workers, PrepareAttempt(w)
  PROVE  OInv'
<1>1. Leaves /\ binding' = binding
  BY LeavesAll DEF PrepareAttempt
<1>2. /\ worker \in [Workers -> Calls] /\ CallOK(w, worker[w]) /\ journal \in [Ops -> Phases]
      /\ ~At(w, "idle") /\ worker[w].op \in Ops /\ kept \subseteq Ops /\ orphans \subseteq Ops
  BY CallKnown DEF TypeOK, PrepareAttempt, At
<1>3. CASE (Return(w, "Ambiguous") \/ Return(w, "NotAttempted")) /\ journal' = journal
  BY <1>1, <1>2, <1>3, QuietReturn
<1>4. CASE /\ Fence(w, FALSE) /\ journal[worker[w].op] \in {"None", "Prepared"}
           /\ journal' = [journal EXCEPT ![worker[w].op] = "Prepared"]
           /\ Goto(w, "bind") /\ UNCHANGED files
  <2>1. PICK c \in Calls : c = worker[w]
    BY <1>2
  <2>2. PICK y : y = [c EXCEPT !.step = "bind"]
    OBVIOUS
  <2>3. "bind" \in Steps
    BY DEF Steps
  <2>4. /\ y \in Calls /\ y.step = "bind"
        /\ y.kind = c.kind /\ y.op = c.op /\ y.phase = c.phase /\ y.binding = c.binding
        /\ y.pulled = c.pulled /\ y.outputs = c.outputs /\ y.producer = c.producer
        /\ y.copy = c.copy /\ y.uncertain = c.uncertain /\ y.answer = c.answer
    BY <2>2, <2>3, StepFields
  <2>5. worker' = [worker EXCEPT ![w] = y]
    BY <1>2, <1>4, <2>1, <2>2 DEF Goto
  <2>6. CallOK(w, c) /\ c.step = "prepare" /\ c.op \in Ops
    BY <1>2, <2>1 DEF PrepareAttempt, At
  <2>7. JournalMoves(w) /\ journal'[c.op] = "Prepared"
    <3>1. c.op = current /\ Fence(w, TRUE)
      BY <1>4, <2>1 DEF Fence
    <3>2. "Prepared" \in Phases /\ journal[current] \in NotStarted
      BY <1>4, <2>1, <3>1 DEF Phases, NotStarted
    <3>3. QED
      BY <1>2, <1>4, <2>1, <3>1, <3>2 DEF JournalMoves
  <2>8. StepAgrees(y) /\ SuccessIsFull(y)
    BY <2>4, <2>6 DEF CallOK, StepAgrees, SuccessIsFull, Verified
  <2>9. OwnerReads(w, y)'
    BY <2>4, <2>7 DEF OwnerReads
  <2>10. CallOK(w, y)'
    BY <1>1, <2>4, <2>6, <2>7, <2>8, <2>9, MovedOK
  <2>11. BindingMoves /\ OnlyStarter(w, y) /\ WorkspaceStays(w, y)
    BY <1>1, <1>2, <1>4, <2>1, <2>4, <2>6 DEF BindingMoves, OnlyStarter, WorkspaceStays, files, Applied
  <2>12. QED
    BY <1>1, <2>4, <2>5, <2>7, <2>10, <2>11, CallStep
<1>5. QED
  BY <1>3, <1>4 DEF PrepareAttempt

\* ensureBinding creates the binding once and reads it from then on.
LEMMA BindStep ==
  ASSUME OInv, NEW w \in Workers, EnsureBinding(w)
  PROVE  OInv'
<1>1. Leaves /\ journal' = journal
  BY LeavesAll DEF EnsureBinding
<1>2. /\ worker \in [Workers -> Calls] /\ CallOK(w, worker[w]) /\ binding \in Bindings
      /\ ~At(w, "idle") /\ worker[w].op \in Ops /\ kept \subseteq Ops /\ orphans \subseteq Ops
  BY CallKnown DEF TypeOK, EnsureBinding, At
<1>3. CASE (Return(w, "Ambiguous") \/ Return(w, "NotAttempted")) /\ binding' = binding
  BY <1>1, <1>2, <1>3, QuietReturn
<1>4. PICK bound : bound = IF binding.version = 0 THEN [NoBinding EXCEPT !.version = 1] ELSE binding
  OBVIOUS
<1>5. CASE /\ binding' = bound /\ UNCHANGED files
           /\ worker' = [worker EXCEPT ![w].step = "copy", ![w].binding = bound]
  <2>1. bound \in Bindings /\ (bound = binding \/ binding.version < bound.version)
    BY <1>2, <1>4 DEF NoBinding, NoState, Bindings, Evidences
  <2>2. PICK c \in Calls : c = worker[w]
    BY <1>2
  <2>3. PICK y : y = [c EXCEPT !.step = "copy", !.binding = bound]
    OBVIOUS
  <2>4. /\ y \in Calls /\ y.step = "copy" /\ y.binding = bound
        /\ y.kind = c.kind /\ y.op = c.op /\ y.phase = c.phase
        /\ y.pulled = c.pulled /\ y.outputs = c.outputs /\ y.producer = c.producer
        /\ y.copy = c.copy /\ y.uncertain = c.uncertain
    BY <2>1, <2>3 DEF Calls, Steps
  <2>5. worker' = [worker EXCEPT ![w] = y]
    BY <1>2, <1>5, <2>2, <2>3
  <2>6. CallOK(w, c) /\ c.step = "bind"
    BY <1>2, <2>2 DEF EnsureBinding, At
  <2>7. current' = current /\ message' = message /\ verdict' = verdict /\ tofu' = tofu
    BY <1>1 DEF Leaves
  <2>8. CallOK(w, y)'
    <3>1. OwnerAgrees(w, y)' /\ StepAgrees(y)' /\ MayApply(y)'
      BY <2>4, <2>6, <2>7 DEF CallOK, OwnerAgrees, StepAgrees, MayApply, Owns
    <3>2. OwnerReads(w, y)' /\ SuccessIsFull(y)'
      BY <1>1, <2>4, <2>6, <2>7 DEF CallOK, OwnerReads, SuccessIsFull, Verified, Owns
    <3>3. Remembers(y)'
      BY <1>1, <1>5, <2>1, <2>4, <2>6, <2>7 DEF CallOK, Remembers, Bindings
    <3>4. QED
      BY <3>1, <3>2, <3>3 DEF CallOK
  <2>9. BindingMoves /\ OnlyStarter(w, y) /\ WorkspaceStays(w, y)
    BY <1>2, <1>5, <2>1, <2>2, <2>4, <2>6 DEF BindingMoves, OnlyStarter, WorkspaceStays, files, Applied
  <2>10. JournalMoves(w)
    BY <1>1 DEF JournalMoves
  <2>11. QED
    BY <1>1, <2>4, <2>5, <2>8, <2>9, <2>10, CallStep
<1>6. QED
  BY <1>3, <1>4, <1>5 DEF EnsureBinding


\* A journal write that fails, or whose answer is lost, moves the journal along
\* or leaves it alone (AdvanceAttempt).
LEMMA JournalFailsStep ==
  ASSUME OInv, NEW w \in Workers, NEW from, NEW to, JournalFails(w, from, to),
         ~At(w, "idle"), Leaves, binding' = binding
  PROVE  OInv'
<1>1. CASE journal' = journal
  BY <1>1, QuietReturn DEF JournalFails
<1>2. CASE Advances(w, from, to) /\ journal' = [journal EXCEPT ![worker[w].op] = to]
  <2>1. JournalMoves(w)
    BY <1>2, AdvanceMoves
  <2>2. QED
    BY <2>1, ReturnStep DEF JournalFails
<1>3. QED
  BY <1>1, <1>2 DEF JournalFails

\* The point of no return is passed by one call only: the journal is Prepared
\* before and never again (SubmitFenced, AdvanceAttempt).
LEMMA MayStartStep ==
  ASSUME OInv, NEW w \in Workers, JournalMayStart(w)
  PROVE  OInv'
<1>1. Leaves /\ binding' = binding
  BY LeavesAll DEF JournalMayStart, JournalFails
<1>2. /\ worker \in [Workers -> Calls] /\ CallOK(w, worker[w]) /\ journal \in [Ops -> Phases]
      /\ ~At(w, "idle") /\ worker[w].op \in Ops /\ kept \subseteq Ops /\ orphans \subseteq Ops
  BY CallKnown DEF TypeOK, JournalMayStart, At
<1>3. CASE Return(w, "Ambiguous") /\ journal' = journal
  BY <1>1, <1>2, <1>3, QuietReturn
<1>4. CASE JournalFails(w, "Prepared", "ApplyMayStart")
  BY <1>1, <1>2, <1>4, JournalFailsStep
<1>5. CASE /\ Advances(w, "Prepared", "ApplyMayStart")
           /\ journal' = [journal EXCEPT ![worker[w].op] = "ApplyMayStart"]
           /\ worker' = [worker EXCEPT ![w].step = "apply", ![w].uncertain = TRUE]
           /\ UNCHANGED files
  <2>1. /\ JournalMoves(w) /\ Owns(w) /\ worker[w].op = current /\ journal[worker[w].op] = "Prepared"
        /\ journal'[worker[w].op] \notin NotStarted
    BY <1>5, AdvanceMoves
  <2>2. PICK c \in Calls : c = worker[w]
    BY <1>2
  <2>3. PICK y : y = [c EXCEPT !.step = "apply", !.uncertain = TRUE]
    OBVIOUS
  <2>4. /\ y \in Calls /\ y.step = "apply" /\ y.uncertain = TRUE
        /\ y.kind = c.kind /\ y.op = c.op /\ y.phase = c.phase /\ y.binding = c.binding
        /\ y.pulled = c.pulled /\ y.outputs = c.outputs /\ y.producer = c.producer /\ y.copy = c.copy
    BY <2>3 DEF Calls, Steps
  <2>5. worker' = [worker EXCEPT ![w] = y]
    BY <1>2, <1>5, <2>2, <2>3
  <2>6. CallOK(w, c) /\ c.step = "journal" /\ c.op \in Ops
    BY <1>2, <2>2 DEF JournalMayStart, At
  <2>7. current' = current /\ message' = message /\ verdict' = verdict /\ tofu' = tofu
    BY <1>1 DEF Leaves
  <2>8. tofu[c.op] = "None" /\ verdict[c.op] = "None"
    BY <2>1, <2>2, <2>6 DEF OInv, JournalAhead, MessageAgrees, Owns, NotStarted
  <2>9. CallOK(w, y)'
    <3>1. OwnerAgrees(w, y)' /\ StepAgrees(y)'
      BY <2>4, <2>6, <2>7 DEF CallOK, OwnerAgrees, StepAgrees, Owns
    <3>2. MayApply(y)'
      BY <2>1, <2>2, <2>4, <2>7, <2>8 DEF MayApply
    <3>3. OwnerReads(w, y)' /\ SuccessIsFull(y)'
      BY <2>4 DEF OwnerReads, SuccessIsFull, Verified
    <3>4. \A o \in Ops : journal[o] = "ObservedConverged" => journal'[o] = "ObservedConverged"
      BY <2>1, JournalKeeps
    <3>5. Remembers(y)'
      BY <1>1, <2>4, <2>6, <3>4 DEF CallOK, Remembers
    <3>6. QED
      BY <3>1, <3>2, <3>3, <3>5 DEF CallOK
  <2>10. OnlyStarter(w, y)
    <3>1. SUFFICES ASSUME NEW v \in Workers, v # w, At(v, "apply"), worker[v].op = y.op PROVE FALSE
      BY DEF OnlyStarter
    <3>2. journal[worker[v].op] \notin NotStarted
      BY <3>1 DEF OInv, CallOK, MayApply, At
    <3>3. QED
      BY <2>1, <2>2, <2>4, <3>1, <3>2 DEF NotStarted
  <2>11. BindingMoves /\ WorkspaceStays(w, y)
    BY <1>1, <1>2, <1>5, <2>2, <2>6 DEF BindingMoves, WorkspaceStays, files, Applied
  <2>12. QED
    BY <1>1, <2>1, <2>4, <2>5, <2>9, <2>10, <2>11, CallStep
<1>6. QED
  BY <1>3, <1>4, <1>5 DEF JournalMayStart

\* A failed apply is noted as unknown, and its workspace is kept.
LEMMA OutcomeUnknownStep ==
  ASSUME OInv, NEW w \in Workers, JournalOutcomeUnknown(w)
  PROVE  OInv'
<1>1. Leaves /\ binding' = binding
  BY LeavesAll DEF JournalOutcomeUnknown, JournalFails
<1>2. ~At(w, "idle")
  BY DEF JournalOutcomeUnknown, At
<1>3. CASE JournalFails(w, "ApplyMayStart", "ApplyOutcomeUnknown")
  BY <1>1, <1>2, <1>3, JournalFailsStep
<1>4. CASE ~JournalFails(w, "ApplyMayStart", "ApplyOutcomeUnknown")
  <2>1. Return(w, "Ambiguous")
    BY <1>4 DEF JournalOutcomeUnknown
  <2>2. CASE journal' = journal
    BY <1>1, <1>2, <2>1, <2>2, QuietReturn
  <2>3. CASE /\ Advances(w, "ApplyMayStart", "ApplyOutcomeUnknown")
             /\ journal' = [journal EXCEPT ![worker[w].op] = "ApplyOutcomeUnknown"]
    <3>1. JournalMoves(w)
      BY <2>3, AdvanceMoves
    <3>2. QED
      BY <1>1, <1>2, <2>1, <3>1, ReturnStep
  <2>4. QED
    BY <1>4, <2>2, <2>3 DEF JournalOutcomeUnknown
<1>5. QED
  BY <1>3, <1>4

\* A call that journals a phase and goes on.
LEMMA PhaseStep ==
  ASSUME OInv, NEW w \in Workers, NEW s \in {"verify", "converge"}, NEW from, NEW p \in Phases,
         ~At(w, "idle"), worker[w].step \in {"exited", "uncertain"},
         s = "verify" <=> worker[w].step = "exited",
         Advances(w, from, p), journal' = [journal EXCEPT ![worker[w].op] = p],
         worker' = [worker EXCEPT ![w].step = s, ![w].phase = p],
         Leaves, binding' = binding, UNCHANGED files
  PROVE  OInv'
<1>1. /\ worker \in [Workers -> Calls] /\ CallOK(w, worker[w])
      /\ kept \subseteq Ops /\ orphans \subseteq Ops
  BY CallKnown DEF TypeOK
<1>2. PICK c \in Calls : c = worker[w]
  BY <1>1
<1>3. PICK y : y = [c EXCEPT !.step = s, !.phase = p]
  OBVIOUS
<1>4. s \in Steps
  BY DEF Steps
<1>5. /\ y \in Calls /\ y.step = s /\ y.phase = p
      /\ y.kind = c.kind /\ y.op = c.op /\ y.binding = c.binding
      /\ y.pulled = c.pulled /\ y.outputs = c.outputs /\ y.producer = c.producer
      /\ y.copy = c.copy /\ y.uncertain = c.uncertain /\ y.answer = c.answer
  BY <1>3, <1>4 DEF Calls
<1>6. worker' = [worker EXCEPT ![w] = y]
  BY <1>1, <1>2, <1>3
<1>7. CallOK(w, c) /\ c.step \in {"exited", "uncertain"} /\ (s = "verify" <=> c.step = "exited")
  BY <1>1, <1>2
<1>8. JournalMoves(w) /\ journal'[c.op] = p
  BY <1>2, AdvanceMoves
<1>9. StepAgrees(y) /\ SuccessIsFull(y)
  BY <1>5, <1>7 DEF CallOK, StepAgrees, SuccessIsFull, Verified
<1>10. OwnerReads(w, y)'
  BY <1>5 DEF OwnerReads
<1>11. CallOK(w, y)'
  BY <1>5, <1>7, <1>8, <1>9, <1>10, MovedOK
<1>12. WorkspaceStays(w, y)
  BY <1>1, <1>2, <1>5, <1>7 DEF WorkspaceStays, files, Applied, ApplySteps
<1>13. BindingMoves /\ OnlyStarter(w, y)
  BY <1>5 DEF BindingMoves, OnlyStarter
<1>14. QED
  BY <1>5, <1>6, <1>8, <1>11, <1>12, <1>13, CallStep

\* A clean exit is journalled before the state is verified.
LEMMA ExitedStep ==
  ASSUME OInv, NEW w \in Workers, JournalExited(w)
  PROVE  OInv'
<1>1. Leaves /\ binding' = binding
  BY LeavesAll DEF JournalExited, JournalFails
<1>2. ~At(w, "idle") /\ worker[w].step = "exited"
  BY DEF JournalExited, At
<1>3. CASE Return(w, "Ambiguous") /\ journal' = journal
  BY <1>1, <1>2, <1>3, QuietReturn
<1>4. CASE /\ Advances(w, "ApplyMayStart", "ApplyExited")
           /\ journal' = [journal EXCEPT ![worker[w].op] = "ApplyExited"]
           /\ worker' = [worker EXCEPT ![w].step = "verify", ![w].phase = "ApplyExited"]
           /\ UNCHANGED files
  <2>1. "ApplyExited" \in Phases
    BY DEF Phases
  <2>2. QED
    BY <1>1, <1>2, <1>4, <2>1, PhaseStep
<1>5. CASE JournalFails(w, "ApplyMayStart", "ApplyExited")
  BY <1>1, <1>2, <1>5, JournalFailsStep
<1>6. QED
  BY <1>3, <1>4, <1>5 DEF JournalExited

\* A missed exit is journalled before the convergence.
LEMMA MissedExitStep ==
  ASSUME OInv, NEW w \in Workers, NoteMissedExit(w)
  PROVE  OInv'
<1>1. Leaves /\ binding' = binding
  BY LeavesAll DEF NoteMissedExit, JournalFails
<1>2. ~At(w, "idle") /\ worker[w].step = "uncertain"
  BY DEF NoteMissedExit, At
<1>3. CASE Return(w, "Ambiguous") /\ journal' = journal
  BY <1>1, <1>2, <1>3, QuietReturn
<1>4. CASE /\ Advances(w, "ApplyMayStart", "ApplyOutcomeUnknown")
           /\ journal' = [journal EXCEPT ![worker[w].op] = "ApplyOutcomeUnknown"]
           /\ worker' = [worker EXCEPT ![w].step = "converge", ![w].phase = "ApplyOutcomeUnknown"]
           /\ UNCHANGED files
  <2>1. "ApplyOutcomeUnknown" \in Phases
    BY DEF Phases
  <2>2. QED
    BY <1>1, <1>2, <1>4, <2>1, PhaseStep
<1>5. CASE Goto(w, "converge") /\ UNCHANGED <<journal, files>>
  <2>1. Follows(worker[w], "converge") /\ "converge" \in Steps
    BY <1>2 DEF Follows, Steps
  <2>2. QED
    BY <1>1, <1>5, <2>1, GotoStep
<1>6. CASE JournalFails(w, "ApplyMayStart", "ApplyOutcomeUnknown")
  BY <1>1, <1>2, <1>6, JournalFailsStep
<1>7. QED
  BY <1>3, <1>4, <1>5, <1>6 DEF NoteMissedExit


\* UpdateState binds a newer state under the lease, or changes nothing.
LEMMA UpdateStep ==
  ASSUME OInv, NEW w \in Workers, UpdateState(w)
  PROVE  OInv'
<1>1. Leaves /\ journal' = journal
  BY LeavesAll DEF UpdateState
<1>2. /\ worker \in [Workers -> Calls] /\ CallOK(w, worker[w]) /\ binding \in Bindings
      /\ ~At(w, "idle") /\ worker[w].op \in Ops /\ kept \subseteq Ops /\ orphans \subseteq Ops
      /\ worker[w].kind \in {"Dispatch", "Observe"}
  BY CallKnown DEF TypeOK, UpdateState, At, Calls
<1>3. CASE Return(w, "Ambiguous") /\ binding' = binding
  BY <1>1, <1>2, <1>3, QuietReturn
<1>4. CASE worker[w].kind = "Observe" /\ Goto(w, "uncertain") /\ UNCHANGED <<binding, files>>
  <2>1. Follows(worker[w], "uncertain") /\ "uncertain" \in Steps
    BY <1>4 DEF UpdateState, At, Follows, Steps
  <2>2. QED
    BY <1>1, <1>4, <2>1, GotoStep
<1>5. CASE /\ binding' = [version |-> binding.version + 1, state |-> worker[w].pulled]
           /\ Goto(w, IF worker[w].kind = "Dispatch" THEN "converge" ELSE "uncertain")
           /\ UNCHANGED files
  <2>1. PICK c \in Calls : c = worker[w]
    BY <1>2
  <2>2. PICK s \in Steps : s = IF c.kind = "Dispatch" THEN "converge" ELSE "uncertain"
    BY DEF Steps
  <2>3. PICK y : y = [c EXCEPT !.step = s]
    OBVIOUS
  <2>4. /\ y \in Calls /\ y.step = s
        /\ y.kind = c.kind /\ y.op = c.op /\ y.phase = c.phase /\ y.binding = c.binding
        /\ y.pulled = c.pulled /\ y.outputs = c.outputs /\ y.producer = c.producer
        /\ y.copy = c.copy /\ y.uncertain = c.uncertain /\ y.answer = c.answer
    BY <2>3, StepFields
  <2>5. worker' = [worker EXCEPT ![w] = y]
    BY <1>2, <1>5, <2>1, <2>2, <2>3 DEF Goto
  <2>6. CallOK(w, c) /\ c.step = "update" /\ c.kind \in {"Dispatch", "Observe"}
    BY <1>2, <2>1 DEF UpdateState, At
  <2>7. Follows(c, s)
    BY <2>2, <2>6 DEF Follows
  <2>8. s # "init" /\ s # "outputs"
    BY <2>2
  <2>9. /\ CallOK(w, y) /\ s # "apply"
        /\ c.kind = "Dispatch" /\ c.step \in ApplySteps =>
             y.op = c.op /\ y.kind = "Dispatch" /\ y.step \in ApplySteps /\ y.uncertain
    BY <2>4, <2>6, <2>7, <2>8, FollowsOK
  <2>10. /\ binding' \in Bindings /\ binding'.version = binding.version + 1
         /\ binding.version \in Nat /\ c.binding.version \in Nat
    BY <1>2, <1>5, <2>1 DEF Bindings, Calls
  <2>11. current' = current /\ message' = message /\ verdict' = verdict /\ tofu' = tofu
    BY <1>1 DEF Leaves
  <2>12. CallOK(w, y)'
    <3>1. OwnerAgrees(w, y)' /\ StepAgrees(y)' /\ MayApply(y)'
      BY <1>1, <2>9, <2>11 DEF CallOK, OwnerAgrees, StepAgrees, MayApply, Owns
    <3>2. OwnerReads(w, y)' /\ SuccessIsFull(y)'
      BY <1>1, <2>9, <2>11 DEF CallOK, OwnerReads, SuccessIsFull, Verified, Owns
    <3>3. y.binding.version <= binding.version
      BY <2>9 DEF CallOK, Remembers
    <3>4. /\ y.binding.version <= binding'.version
          /\ y.binding.version # binding'.version
      BY <2>4, <2>10, <3>3
    <3>5. Remembers(y)'
      BY <1>1, <2>2, <2>4, <2>9, <3>4 DEF CallOK, Remembers
    <3>6. QED
      BY <3>1, <3>2, <3>5 DEF CallOK
  <2>13. BindingMoves
    BY <2>10 DEF BindingMoves
  <2>14. OnlyStarter(w, y) /\ WorkspaceStays(w, y)
    BY <1>2, <1>5, <2>1, <2>4, <2>9 DEF OnlyStarter, WorkspaceStays, files, Applied, ApplySteps
  <2>15. JournalMoves(w)
    BY <1>1 DEF JournalMoves
  <2>16. QED
    BY <1>1, <2>4, <2>5, <2>12, <2>13, <2>14, <2>15, CallStep
<1>6. QED
  BY <1>3, <1>4, <1>5 DEF UpdateState

\* The last journal entry: after it the workspace need not be kept.
LEMMA ConvergedStep ==
  ASSUME OInv, NEW w \in Workers, JournalConverged(w)
  PROVE  OInv'
<1>1. Leaves /\ binding' = binding
  BY LeavesAll DEF JournalConverged, JournalFails, ReturnCertain
<1>2. /\ worker \in [Workers -> Calls] /\ CallOK(w, worker[w])
      /\ ~At(w, "idle") /\ worker[w].op \in Ops /\ kept \subseteq Ops /\ orphans \subseteq Ops
  BY CallKnown DEF TypeOK, JournalConverged, At
<1>3. CASE Return(w, "Ambiguous") /\ journal' = journal
  BY <1>1, <1>2, <1>3, QuietReturn
<1>4. ASSUME NEW a \in {"Succeeded", "Ambiguous"}, ReturnCertain(w, a),
             \/ worker[w].phase = "ObservedConverged" /\ journal' = journal
             \/ /\ Advances(w, worker[w].phase, "ObservedConverged")
                /\ journal' = [journal EXCEPT ![worker[w].op] = "ObservedConverged"]
      PROVE  OInv'
  <2>1. PICK c \in Calls : c = worker[w]
    BY <1>2
  <2>2. PICK y : y = [c EXCEPT !.step = "answer", !.answer = a, !.uncertain = FALSE]
    OBVIOUS
  <2>3. /\ y \in Calls /\ y.step = "answer" /\ y.answer = a /\ y.uncertain = FALSE
        /\ y.kind = c.kind /\ y.op = c.op /\ y.phase = c.phase /\ y.binding = c.binding
        /\ y.pulled = c.pulled /\ y.outputs = c.outputs /\ y.producer = c.producer /\ y.copy = c.copy
    BY <2>2 DEF Calls, Steps, Answers
  <2>4. worker' = [worker EXCEPT ![w] = y] /\ kept' = kept /\ orphans' = orphans
    BY <1>2, <1>4, <2>1, <2>2 DEF ReturnCertain, files
  <2>5. CallOK(w, c) /\ c.step = "converge" /\ c.op \in Ops
    BY <1>2, <2>1 DEF JournalConverged, At
  <2>6. JournalMoves(w) /\ journal'[c.op] = "ObservedConverged"
    <3>1. CASE journal' = journal /\ c.phase = "ObservedConverged"
      BY <2>5, <3>1 DEF JournalMoves, CallOK, Remembers
    <3>2. CASE /\ Advances(w, worker[w].phase, "ObservedConverged")
               /\ journal' = [journal EXCEPT ![worker[w].op] = "ObservedConverged"]
      <4>1. PICK from : from = worker[w].phase
        OBVIOUS
      <4>2. Advances(w, from, "ObservedConverged")
        BY <3>2, <4>1
      <4>3. QED
        BY <2>1, <3>2, <4>2, AdvanceMoves
    <3>3. QED
      BY <1>4, <2>1, <3>1, <3>2
  <2>7. StepAgrees(y) /\ SuccessIsFull(y)
    BY <2>3, <2>5 DEF CallOK, StepAgrees, SuccessIsFull, Verified
  <2>8. OwnerReads(w, y)'
    BY <2>3 DEF OwnerReads
  <2>9. CallOK(w, y)'
    BY <1>1, <2>3, <2>5, <2>6, <2>7, <2>8, MovedOK
  <2>10. WorkspaceStays(w, y)
    BY <1>2, <2>1, <2>4, <2>6 DEF WorkspaceStays
  <2>11. BindingMoves /\ OnlyStarter(w, y)
    BY <1>1, <2>3 DEF BindingMoves, OnlyStarter
  <2>12. QED
    BY <1>1, <2>3, <2>4, <2>6, <2>9, <2>10, <2>11, CallStep
<1>5. CASE JournalFails(w, worker[w].phase, "ObservedConverged")
  BY <1>1, <1>2, <1>5, JournalFailsStep
<1>6. QED
  BY <1>3, <1>4, <1>5 DEF JournalConverged


-----------------------------------------------------------------------------
(* Steps that leave the journal and the binding alone. *)

\* The steps around the calls, put together from what they change.
LEMMA AroundStep ==
  ASSUME OInv, TypeOK', Shared', ApplyWorkspaceKept', OneStarter',
         current <= current', journal' = journal, binding' = binding,
         \A o \in Ops : tofu[o] = "Full" => tofu'[o] = "Full",
         \A v \in Workers :
           \/ CallOK(v, worker[v])'
           \/ /\ worker'[v] = worker[v]
              /\ Owns(v)' => Owns(v) /\ message'.kind = message.kind /\ current' = current
              /\ At(v, "apply") => /\ current' = current
                                   /\ tofu'[worker[v].op] = "None" /\ verdict'[worker[v].op] = "None"
  PROVE  OInv'
<1>1. ASSUME NEW v \in Workers PROVE CallOK(v, worker[v])'
  <2>1. CASE ~CallOK(v, worker[v])'
    <3>1. TypeOK /\ CallOK(v, worker[v]) /\ worker[v] \in Calls
      BY CallKnown
    <3>2. PICK c \in Calls : c = worker[v]
      BY <3>1
    <3>3. /\ CallOK(v, c) /\ worker'[v] = c
          /\ Owns(v)' => Owns(v) /\ message'.kind = message.kind /\ journal' = journal /\ current' = current
          /\ c.step = "apply" => current' = current /\ tofu'[c.op] = "None" /\ verdict'[c.op] = "None"
      BY <1>1, <2>1, <3>1, <3>2 DEF At
    <3>4. CallOK(v, c)'
      BY <3>1, <3>3, OthersOK
    <3>5. QED
      BY <3>3, <3>4
  <2>2. QED
    BY <2>1
<1>2. QED
  BY <1>1, Compose

\* An idle worker knows nothing.
LEMMA IdleOK ==
  ASSUME NEW w, TypeOK', BindingAgrees'
  PROVE  Idle \in Calls /\ CallOK(w, Idle)'
<1>1. binding'.version \in Nat /\ (binding'.version = 0 => binding' = NoBinding)
  BY DEF TypeOK, Bindings, BindingAgrees
<1>2. /\ Idle.step = "idle" /\ Idle.kind = "Dispatch" /\ Idle.op = 0 /\ Idle.phase = "None"
      /\ Idle.binding = NoBinding /\ Idle.outputs = "None" /\ Idle.copy = "Registered"
      /\ Idle.binding.version = 0 /\ Idle.binding.state = NoBinding.state
  BY DEF Idle, NoBinding
<1>3. Idle \in Calls
  BY OpenTofuAssumption DEF Idle, NoBinding, NoState, Calls, Bindings, Evidences, Steps, Phases, Outputs,
     Sources, Answers
<1>4. OwnerAgrees(w, Idle)' /\ StepAgrees(Idle)' /\ MayApply(Idle)'
  BY <1>2 DEF OwnerAgrees, StepAgrees, MayApply
<1>5. OwnerReads(w, Idle)' /\ SuccessIsFull(Idle)'
  BY <1>2 DEF OwnerReads, SuccessIsFull, Verified
<1>6. Remembers(Idle)'
  BY <1>1, <1>2 DEF Remembers
<1>7. QED
  BY <1>3, <1>4, <1>5, <1>6 DEF CallOK

\* What the invariant says beside the calls stays when nothing of it is written.
LEMMA SharedStays ==
  ASSUME OInv, UNCHANGED <<current, verdict, journal, binding, state, past, tofu, applies, built>>,
         message'.open = message.open
  PROVE  Shared'
<1>1. MessageAgrees' /\ JournalAhead' /\ VerdictsTrue'
  BY DEF OInv, MessageAgrees, JournalAhead, VerdictsTrue
<1>2. MarkersTrue' /\ AppliesCounted' /\ BindingAgrees'
  BY DEF OInv, MarkersTrue, AppliesCounted, BindingAgrees
<1>3. SettledNeverApplies' /\ AppliedSourceIsRegistered' /\ IsFiniteSet(past)'
  BY DEF OInv, SettledNeverApplies, AppliedSourceIsRegistered
<1>4. QED
  BY <1>1, <1>2, <1>3 DEF Shared

\* A worker takes the message: it owns the operation that is current.
LEMMA ClaimStep ==
  ASSUME OInv, NEW w \in Workers, Claim(w)
  PROVE  OInv'
<1>1. /\ TypeOK /\ worker \in [Workers -> Calls] /\ current \in Ops /\ message \in Messages
      /\ BindingAgrees
  BY CallKnown DEF TypeOK, OInv
<1>2. /\ current' = current /\ verdict' = verdict /\ journal' = journal /\ binding' = binding
      /\ state' = state /\ past' = past /\ tofu' = tofu /\ applies' = applies /\ base' = base
      /\ kept' = kept /\ orphans' = orphans /\ source' = source /\ built' = built
      /\ disturbed' = disturbed /\ faults' = faults
  BY DEF Claim, evidence, engine, files, program
<1>3. /\ message' \in Messages /\ message'.open = message.open /\ message'.kind = message.kind
      /\ message'.holder = w
  BY <1>1 DEF Claim, Messages
<1>4. PICK k \in {"Dispatch", "Observe"} : k = message.kind
  BY <1>1 DEF Messages
<1>5. PICK s \in Steps : s = IF k = "Dispatch" THEN "prepare" ELSE "load"
  BY DEF Steps
<1>6. PICK y : y = [Idle EXCEPT !.step = s, !.kind = k, !.op = current]
  OBVIOUS
<1>7. Idle \in Calls /\ binding \in Bindings
  BY <1>1, OpenTofuAssumption DEF TypeOK, Idle, NoBinding, NoState, Calls, Bindings, Evidences, Steps, Phases, Outputs,
     Sources, Answers
<1>8. /\ y \in Calls /\ y.step = s /\ y.kind = k /\ y.op = current
      /\ y.binding = NoBinding /\ y.phase = "None" /\ y.outputs = "None"
  <2>1. current \in 0..MaxOps
    BY <1>1, OpenTofuAssumption DEF Ops
  <2>2. QED
    BY <1>6, <1>7, <2>1 DEF Calls, Idle
<1>9. worker' = [worker EXCEPT ![w] = y]
  BY <1>1, <1>4, <1>5, <1>6 DEF Claim
<1>10. worker'[w] = y /\ \A v \in Workers : v # w => worker'[v] = worker[v]
  BY <1>1, <1>9
<1>11. TypeOK'
  BY <1>1, <1>2, <1>3, <1>8, <1>9 DEF TypeOK
<1>12. Shared'
  BY <1>2, <1>3, SharedStays
<1>13. CallOK(w, y)'
  <2>1. OwnerAgrees(w, y)' /\ MayApply(y)'
    BY <1>2, <1>3, <1>4, <1>5, <1>8 DEF OwnerAgrees, MayApply
  <2>2. current' \in 1..current'
    BY <1>1, <1>2, OpenTofuAssumption DEF Ops
  <2>3. StepAgrees(y)'
    BY <1>2, <1>5, <1>8, <2>2 DEF StepAgrees
  <2>4. OwnerReads(w, y)' /\ SuccessIsFull(y)'
    BY <1>5, <1>8 DEF OwnerReads, SuccessIsFull, Verified
  <2>5. binding.version \in Nat /\ NoBinding.version = 0 /\ (binding.version = 0 => binding = NoBinding)
    BY <1>1, <1>7 DEF Bindings, BindingAgrees, NoBinding
  <2>6. Remembers(y)'
    BY <1>2, <1>5, <1>8, <2>5 DEF Remembers
  <2>7. QED
    BY <2>1, <2>3, <2>4, <2>6 DEF CallOK
<1>14. ApplyWorkspaceKept'
  <2>1. ~Applied(w)
    BY DEF Claim, At, Applied
  <2>2. QED
    BY <1>2, <1>8, <1>9, <2>1, KeptStays
<1>15. OneStarter'
  BY <1>5, <1>8, <1>10 DEF OInv, OneStarter, At
<1>16. ASSUME NEW v \in Workers
       PROVE  \/ CallOK(v, worker[v])'
              \/ /\ worker'[v] = worker[v]
                 /\ Owns(v)' => Owns(v) /\ message'.kind = message.kind /\ current' = current
                 /\ At(v, "apply") => /\ current' = current
                                      /\ tofu'[worker[v].op] = "None" /\ verdict'[worker[v].op] = "None"
  <2>1. CASE v = w
    BY <1>10, <1>13, <2>1
  <2>2. CASE v # w
    <3>1. ~Owns(v)'
      BY <1>3, <2>2 DEF Owns
    <3>2. At(v, "apply") => tofu[worker[v].op] = "None" /\ verdict[worker[v].op] = "None"
      BY DEF OInv, CallOK, MayApply, At
    <3>3. QED
      BY <1>2, <1>10, <2>2, <3>1, <3>2
  <2>3. QED
    BY <2>1, <2>2
<1>17. current <= current'
  BY <1>1, <1>2, OpenTofuAssumption DEF Ops
<1>18. QED
  BY <1>2, <1>11, <1>12, <1>14, <1>15, <1>16, <1>17, AroundStep


\* A call that is over leaves its worker idle.
LEMMA ToIdle ==
  ASSUME OInv, NEW w \in Workers, worker' = [worker EXCEPT ![w] = Idle],
         TypeOK', Shared', current' = current, journal' = journal, binding' = binding, tofu' = tofu,
         applies' = applies, kept \cup orphans \subseteq kept' \cup orphans',
         Applied(w) => worker[w].op \in kept' \cup orphans',
         \A v \in Workers : Owns(v)' => Owns(v) /\ message'.kind = message.kind,
         \A v \in Workers : At(v, "apply") /\ v # w => verdict'[worker[v].op] = "None"
  PROVE  OInv'
<1>1. worker \in [Workers -> Calls] /\ current \in Ops
  BY CallKnown
<1>2. Idle \in Calls /\ CallOK(w, Idle)'
  BY IdleOK DEF Shared
<1>3. worker'[w] = Idle /\ \A v \in Workers : v # w => worker'[v] = worker[v]
  BY <1>1
<1>4. ApplyWorkspaceKept'
  BY <1>2, KeptStays
<1>5. Idle.step = "idle"
  BY DEF Idle
<1>6. OneStarter'
  BY <1>3, <1>5 DEF OInv, OneStarter, At
<1>7. ASSUME NEW v \in Workers
      PROVE  \/ CallOK(v, worker[v])'
             \/ /\ worker'[v] = worker[v]
                /\ Owns(v)' => Owns(v) /\ message'.kind = message.kind /\ current' = current
                /\ At(v, "apply") => /\ current' = current
                                     /\ tofu'[worker[v].op] = "None" /\ verdict'[worker[v].op] = "None"
  <2>1. CASE v = w
    <3>1. worker'[v] = Idle
      BY <1>3, <2>1
    <3>2. QED
      BY <1>2, <2>1, <3>1
  <2>2. CASE v # w
    <3>1. At(v, "apply") => tofu[worker[v].op] = "None"
      BY DEF OInv, CallOK, MayApply, At
    <3>2. QED
      BY <1>3, <2>2, <3>1
  <2>3. QED
    BY <2>1, <2>2
<1>8. current <= current'
  BY <1>1, OpenTofuAssumption DEF Ops
<1>9. \A o \in Ops : tofu[o] = "Full" => tofu'[o] = "Full"
  OBVIOUS
<1>10. QED
  BY <1>4, <1>6, <1>7, <1>8, <1>9, AroundStep

\* The server dies; the workspace of an apply is left in the work root.
LEMMA CrashStep ==
  ASSUME OInv, NEW w \in Workers, Crash(w)
  PROVE  OInv'
<1>1. /\ current' = current /\ verdict' = verdict /\ journal' = journal /\ binding' = binding
      /\ state' = state /\ past' = past /\ tofu' = tofu /\ applies' = applies /\ base' = base
      /\ kept' = kept /\ source' = source /\ built' = built /\ disturbed' = disturbed
      /\ message' = message
  BY DEF Crash, evidence, engine, program
<1>2. TypeOK /\ worker[w].op \in Ops
  BY CallKnown DEF Crash
<1>3. orphans \subseteq orphans' /\ orphans' \subseteq Ops /\ (Applied(w) => worker[w].op \in orphans')
  BY <1>2 DEF Crash, TypeOK
<1>4. Shared'
  BY <1>1, SharedStays
<1>5. faults' \in 0..MaxFaults
  BY <1>2, FaultBound DEF Crash
<1>6. worker' = [worker EXCEPT ![w] = Idle] /\ Idle \in Calls
  BY OpenTofuAssumption DEF Crash, Idle, NoBinding, NoState, Calls, Bindings, Evidences, Steps, Phases, Outputs,
     Sources, Answers
<1>7. TypeOK'
  BY <1>1, <1>2, <1>3, <1>5, <1>6 DEF TypeOK
<1>8. \A v \in Workers : Owns(v)' => Owns(v) /\ message'.kind = message.kind
  BY <1>1 DEF Owns
<1>9. \A v \in Workers : At(v, "apply") /\ v # w => verdict'[worker[v].op] = "None"
  BY <1>1 DEF OInv, CallOK, MayApply, At
<1>10. QED
  BY <1>1, <1>3, <1>4, <1>6, <1>7, <1>8, <1>9, ToIdle

\* The worker records the answer: what it settles stays settled.
LEMMA RecordStep ==
  ASSUME OInv, NEW w \in Workers, Record(w)
  PROVE  OInv'
<1>1. /\ current' = current /\ journal' = journal /\ binding' = binding
      /\ state' = state /\ past' = past /\ tofu' = tofu /\ applies' = applies /\ base' = base
      /\ kept' = kept /\ orphans' = orphans /\ source' = source /\ built' = built
      /\ disturbed' = disturbed /\ faults' = faults
  BY DEF Record, evidence, engine, files, program
<1>2. /\ TypeOK /\ CallOK(w, worker[w]) /\ worker[w] \in Calls /\ worker[w].op \in Ops /\ current \in Ops
      /\ worker[w].step = "answer" /\ message \in Messages
      /\ verdict \in [Ops -> {"None", "Rejected", "Succeeded"}]
  BY CallKnown DEF TypeOK, Record, At
<1>3. worker' = [worker EXCEPT ![w] = Idle] /\ Idle \in Calls /\ ~Applied(w)
  BY <1>2, OpenTofuAssumption DEF Record, Idle, NoBinding, NoState, Calls, Bindings, Evidences, Steps, Phases, Outputs,
     Sources, Answers, Applied
<1>4. \A v \in Workers : At(v, "apply") =>
        /\ worker[v].op \in Ops /\ worker[v].op = current /\ verdict[worker[v].op] = "None"
        /\ tofu[worker[v].op] = "None" /\ journal[worker[v].op] \notin NotStarted
  BY <1>2 DEF OInv, CallOK, MayApply, At
<1>5. CASE verdict' = verdict /\ message'.open = message.open /\ message' \in Messages
           /\ \A v \in Workers : Owns(v)' => Owns(v) /\ message'.kind = message.kind
  <2>1. Shared'
    BY <1>1, <1>5, SharedStays
  <2>2. TypeOK'
    BY <1>1, <1>2, <1>3, <1>5 DEF TypeOK
  <2>3. \A v \in Workers : At(v, "apply") /\ v # w => verdict'[worker[v].op] = "None"
    BY <1>4, <1>5
  <2>4. QED
    BY <1>1, <1>3, <1>5, <2>1, <2>2, <2>3, ToIdle
<1>6. CASE /\ Owns(w) /\ worker[w].answer \in {"Rejected", "Succeeded"}
           /\ message' = [message EXCEPT !.open = FALSE, !.live = FALSE]
           /\ verdict' = [verdict EXCEPT ![worker[w].op] = worker[w].answer]
  <2>1. message' \in Messages /\ message'.open = FALSE
    BY <1>2, <1>6 DEF Messages
  <2>2. worker[w].op = current
    BY <1>2, <1>6 DEF CallOK, OwnerAgrees
  <2>3. PICK a \in {"Rejected", "Succeeded"} : a = worker[w].answer
    BY <1>6
  <2>4. /\ verdict' = [verdict EXCEPT ![current] = a]
        /\ verdict'[current] = a /\ \A o \in Ops : o # current => verdict'[o] = verdict[o]
    BY <1>2, <1>6, <2>2, <2>3
  <2>5. a = "Rejected" => journal[current] \in NotStarted /\ tofu[current] = "None"
    BY <1>2, <1>6, <2>2, <2>3 DEF CallOK, OwnerReads, OInv, JournalAhead
  <2>6. a = "Succeeded" => tofu[current] = "Full"
    BY <1>2, <2>2, <2>3 DEF CallOK, SuccessIsFull, Verified
  <2>7. Shared'
    <3>1. MessageAgrees'
      <4>1. \A o \in Ops : o > current => o # current
        BY <1>2, OpenTofuAssumption DEF Ops
      <4>2. QED
        BY <1>1, <2>1, <2>4, <4>1 DEF OInv, MessageAgrees
    <3>2. VerdictsTrue'
      BY <1>1, <2>4, <2>5, <2>6 DEF OInv, VerdictsTrue
    <3>3. SettledNeverApplies'
      <4>1. SUFFICES ASSUME NEW o \in Ops, tofu[o] \in {"Started", "Locked"}
                     PROVE  o = current /\ verdict'[o] = "None"
        BY <1>1 DEF SettledNeverApplies
      <4>2. o = current
        BY <4>1 DEF OInv, SettledNeverApplies
      <4>3. QED
        BY <2>3, <2>5, <2>6, <4>1, <4>2
    <3>4. JournalAhead' /\ MarkersTrue' /\ AppliesCounted' /\ BindingAgrees'
      BY <1>1 DEF OInv, JournalAhead, MarkersTrue, AppliesCounted, BindingAgrees
    <3>5. AppliedSourceIsRegistered' /\ IsFiniteSet(past)'
      BY <1>1 DEF OInv, AppliedSourceIsRegistered
    <3>6. QED
      BY <3>1, <3>2, <3>3, <3>4, <3>5 DEF Shared
  <2>8. TypeOK'
    BY <1>1, <1>2, <1>3, <2>1, <2>3, <2>4 DEF TypeOK
  <2>9. \A v \in Workers : Owns(v)' => Owns(v) /\ message'.kind = message.kind
    BY <2>1 DEF Owns
  <2>10. \A v \in Workers : At(v, "apply") /\ v # w => verdict'[worker[v].op] = "None"
    BY <1>4, <2>3, <2>5, <2>6
  <2>11. QED
    BY <1>1, <1>3, <2>7, <2>8, <2>9, <2>10, ToIdle
<1>7. CASE ~Owns(w) /\ UNCHANGED <<message, verdict>>
  BY <1>2, <1>5, <1>7 DEF Owns
<1>8. CASE /\ Owns(w) /\ UNCHANGED verdict
           /\ message' = NewMessage("Dispatch") \/ message' = NewMessage("Observe")
  <2>0. PICK k \in {"Dispatch", "Observe"} :
          message' = [kind |-> k, holder |-> NoWorker, live |-> FALSE, open |-> TRUE]
    BY <1>8 DEF NewMessage
  <2>1. message' \in Messages /\ message'.open = TRUE /\ message'.live = FALSE
    BY <2>0 DEF Messages
  <2>2. message'.open = message.open
    BY <1>8, <2>1, <1>2 DEF Owns, Messages
  <2>3. \A v \in Workers : Owns(v)' => Owns(v) /\ message'.kind = message.kind
    BY <2>1 DEF Owns
  <2>4. QED
    BY <1>5, <1>8, <2>1, <2>2, <2>3
<1>9. QED
  <2>1. worker[w].answer \in {"NotAttempted", "Rejected", "Ambiguous", "Succeeded"}
    BY <1>2 DEF Calls, Answers
  <2>2. CASE ~Owns(w)
    BY <1>7, <2>2 DEF Record
  <2>3. CASE Owns(w)
    <3>1. CASE worker[w].answer = "NotAttempted"
      BY <1>8, <2>3, <3>1 DEF Record
    <3>2. CASE worker[w].answer = "Ambiguous"
      BY <1>8, <2>3, <3>2 DEF Record
    <3>3. CASE worker[w].answer \in {"Rejected", "Succeeded"}
      BY <1>6, <2>3, <3>3 DEF Record
    <3>4. QED
      BY <2>1, <3>1, <3>2, <3>3
  <2>4. QED
    BY <2>2, <2>3


\* The steps of the world: no call moves.
LEMMA WorldStep ==
  ASSUME OInv, TypeOK', Shared', worker' = worker, current <= current',
         journal' = journal, binding' = binding, applies' = applies,
         \A o \in Ops : tofu[o] = "Full" => tofu'[o] = "Full",
         kept \cup orphans \subseteq kept' \cup orphans',
         \A v \in Workers : Owns(v)' => Owns(v) /\ message'.kind = message.kind /\ current' = current,
         \A v \in Workers : At(v, "apply") => /\ current' = current
                                              /\ tofu'[worker[v].op] = "None"
                                              /\ verdict'[worker[v].op] = "None"
  PROVE  OInv'
<1>1. OneStarter'
  BY DEF OInv, OneStarter, At
<1>2. ApplyWorkspaceKept'
  BY DEF OInv, ApplyWorkspaceKept, Applied
<1>3. \A v \in Workers :
        \/ CallOK(v, worker[v])'
        \/ /\ worker'[v] = worker[v]
           /\ Owns(v)' => Owns(v) /\ message'.kind = message.kind /\ current' = current
           /\ At(v, "apply") => /\ current' = current
                                /\ tofu'[worker[v].op] = "None" /\ verdict'[worker[v].op] = "None"
  OBVIOUS
<1>4. QED
  BY <1>1, <1>2, <1>3, AroundStep

\* A call that may start the apply sees an open operation without a process.
LEMMA Starters ==
  ASSUME OInv, NEW v \in Workers, At(v, "apply")
  PROVE  /\ worker[v].op \in Ops /\ worker[v].op = current /\ verdict[worker[v].op] = "None"
         /\ tofu[worker[v].op] = "None" /\ journal[worker[v].op] \notin NotStarted
<1>1. CallOK(v, worker[v]) /\ (~At(v, "idle") => worker[v].op \in Ops)
  BY CallKnown
<1>2. QED
  BY <1>1 DEF CallOK, MayApply, At

\* The next operation begins with nothing known of it.
LEMMA NextOperationStep ==
  ASSUME OInv, NextOperation
  PROVE  OInv'
<1>1. /\ verdict' = verdict /\ journal' = journal /\ binding' = binding /\ worker' = worker
      /\ state' = state /\ past' = past /\ tofu' = tofu /\ applies' = applies /\ base' = base
      /\ kept' = kept /\ orphans' = orphans /\ source' = source /\ built' = built
      /\ disturbed' = disturbed /\ faults' = faults
  BY DEF NextOperation, evidence, engine, files, program
<1>2. TypeOK /\ current \in Ops /\ message \in Messages
  BY DEF OInv, TypeOK
<1>3. /\ current' \in Ops /\ current' = current + 1 /\ current < current' /\ current <= current'
      /\ current \in Nat
  BY <1>2, OpenTofuAssumption DEF NextOperation, Ops
<1>4. message' = [kind |-> "Dispatch", holder |-> NoWorker, live |-> FALSE, open |-> TRUE]
  BY DEF NextOperation, NewMessage
<1>5. message' \in Messages /\ message'.open = TRUE /\ message'.live = FALSE
  BY <1>4 DEF Messages
<1>6. verdict[current] # "None"
  BY DEF NextOperation, OInv, MessageAgrees
<1>7. TypeOK'
  BY <1>1, <1>2, <1>3, <1>5 DEF TypeOK
<1>8. Shared'
  <2>1. verdict'[current'] = "None"
    BY <1>1, <1>3 DEF OInv, MessageAgrees
  <2>2. ASSUME NEW o \in Ops, o > current' PROVE verdict[o] = "None" /\ journal[o] = "None"
    <3>1. o > current
      BY <1>3, <2>2, OpenTofuAssumption DEF Ops
    <3>2. QED
      BY <3>1 DEF OInv, MessageAgrees
  <2>3. MessageAgrees'
    BY <1>1, <1>5, <2>1, <2>2 DEF MessageAgrees
  <2>4. SettledNeverApplies'
    <3>1. ASSUME NEW o \in Ops, tofu[o] \in {"Started", "Locked"} PROVE FALSE
      BY <1>6, <3>1 DEF OInv, SettledNeverApplies
    <3>2. QED
      BY <1>1, <3>1 DEF SettledNeverApplies
  <2>5. JournalAhead' /\ VerdictsTrue' /\ MarkersTrue' /\ AppliesCounted' /\ BindingAgrees'
    BY <1>1 DEF OInv, JournalAhead, VerdictsTrue, MarkersTrue, AppliesCounted, BindingAgrees
  <2>6. AppliedSourceIsRegistered' /\ IsFiniteSet(past)'
    BY <1>1 DEF OInv, AppliedSourceIsRegistered
  <2>7. QED
    BY <2>3, <2>4, <2>5, <2>6 DEF Shared
<1>9. \A v \in Workers : ~Owns(v)'
  BY <1>5 DEF Owns
<1>10. \A v \in Workers : ~At(v, "apply")
  BY <1>6, Starters
<1>11. QED
  BY <1>1, <1>3, <1>7, <1>8, <1>9, <1>10, WorldStep

\* A lease runs out: nobody owns the message.
LEMMA LeaseStep ==
  ASSUME OInv, LeaseExpires
  PROVE  OInv'
<1>1. /\ current' = current /\ verdict' = verdict /\ journal' = journal /\ binding' = binding /\ worker' = worker
      /\ state' = state /\ past' = past /\ tofu' = tofu /\ applies' = applies /\ base' = base
      /\ kept' = kept /\ orphans' = orphans /\ source' = source /\ built' = built
      /\ disturbed' = disturbed
  BY DEF LeaseExpires, evidence, engine, files, program
<1>2. TypeOK /\ current \in Ops /\ message \in Messages
  BY DEF OInv, TypeOK
<1>3. message' \in Messages /\ message'.open = message.open /\ message'.live = FALSE
  BY <1>2 DEF LeaseExpires, Messages
<1>4. faults' \in 0..MaxFaults
  BY <1>2, FaultBound DEF LeaseExpires
<1>5. TypeOK' /\ current <= current'
  BY <1>1, <1>2, <1>3, <1>4, OpenTofuAssumption DEF TypeOK, Ops
<1>6. Shared'
  BY <1>1, <1>3, SharedStays
<1>7. \A v \in Workers : ~Owns(v)'
  BY <1>3 DEF Owns
<1>8. \A v \in Workers : At(v, "apply") => /\ current' = current
                                           /\ tofu'[worker[v].op] = "None"
                                           /\ verdict'[worker[v].op] = "None"
  BY <1>1, Starters
<1>9. QED
  BY <1>1, <1>5, <1>6, <1>7, <1>8, WorldStep

\* The scan keeps what a crash left; an edit of the source touches no copy.
LEMMA FilesStep ==
  ASSUME OInv, ScanOrphans \/ EditSource
  PROVE  OInv'
<1>1. /\ current' = current /\ verdict' = verdict /\ journal' = journal /\ binding' = binding /\ worker' = worker
      /\ state' = state /\ past' = past /\ tofu' = tofu /\ applies' = applies /\ base' = base
      /\ built' = built /\ message' = message
  BY DEF ScanOrphans, EditSource, evidence, engine, program
<1>2. TypeOK /\ current \in Ops
  BY DEF OInv, TypeOK
<1>3. /\ kept' \subseteq Ops /\ orphans' \subseteq Ops /\ kept \cup orphans \subseteq kept' \cup orphans'
      /\ source' \in Sources /\ disturbed' \in BOOLEAN
  BY <1>2 DEF ScanOrphans, EditSource, files, program, TypeOK, Sources
<1>4. faults' \in 0..MaxFaults
  BY <1>2, FaultBound DEF ScanOrphans, EditSource
<1>5. TypeOK' /\ current <= current'
  BY <1>1, <1>2, <1>3, <1>4, OpenTofuAssumption DEF TypeOK, Ops
<1>6. Shared'
  BY <1>1, SharedStays
<1>7. \A v \in Workers : Owns(v)' => Owns(v) /\ message'.kind = message.kind /\ current' = current
  BY <1>1 DEF Owns
<1>8. \A v \in Workers : At(v, "apply") => /\ current' = current
                                           /\ tofu'[worker[v].op] = "None"
                                           /\ verdict'[worker[v].op] = "None"
  BY <1>1, Starters
<1>9. QED
  BY <1>1, <1>3, <1>5, <1>6, <1>7, <1>8, WorldStep


-----------------------------------------------------------------------------
(* The engine. *)

\* A process goes on: it neither appears nor vanishes, and stays what it is in
\* the end.
ProcessMoves(o) ==
  /\ tofu' \in [Ops -> TofuStates]
  /\ \A p \in Ops \ {o} : tofu'[p] = tofu[p]
  /\ tofu[o] = "None" <=> tofu'[o] = "None"
  /\ tofu[o] = "Full" => tofu'[o] = "Full"
  /\ tofu'[o] \in {"Started", "Locked"} => tofu[o] \in {"Started", "Locked"}

\* What the invariant says beside the calls stays while a process moves.
LEMMA ProcessShared ==
  ASSUME OInv, NEW o \in Ops, ProcessMoves(o),
         UNCHANGED <<current, message, verdict, journal, binding, applies, built>>,
         MarkersTrue', IsFiniteSet(past)'
  PROVE  /\ Shared'
         /\ \A p \in Ops : tofu[p] = "Full" => tofu'[p] = "Full"
         /\ \A v \in Workers : At(v, "apply") => tofu'[worker[v].op] = "None"
<1>1. \A p \in Ops : /\ tofu[p] = "None" <=> tofu'[p] = "None"
                     /\ tofu[p] = "Full" => tofu'[p] = "Full"
                     /\ tofu'[p] \in {"Started", "Locked"} => tofu[p] \in {"Started", "Locked"}
  BY DEF ProcessMoves
<1>2. MessageAgrees' /\ JournalAhead' /\ VerdictsTrue' /\ BindingAgrees'
  BY <1>1 DEF OInv, MessageAgrees, JournalAhead, VerdictsTrue, BindingAgrees
<1>3. AppliesCounted'
  BY <1>1 DEF OInv, AppliesCounted
<1>4. SettledNeverApplies' /\ AppliedSourceIsRegistered'
  BY <1>1 DEF OInv, SettledNeverApplies, AppliedSourceIsRegistered
<1>5. \A v \in Workers : At(v, "apply") => tofu'[worker[v].op] = "None"
  BY <1>1, Starters
<1>6. QED
  BY <1>1, <1>2, <1>3, <1>4, <1>5 DEF Shared

\* The process takes the state lock, or is refused.
LEMMA TofuLocksStep ==
  ASSUME OInv, NEW o \in Ops, TofuLocks(o)
  PROVE  OInv'
<1>1. /\ current' = current /\ verdict' = verdict /\ journal' = journal /\ binding' = binding /\ worker' = worker
      /\ state' = state /\ past' = past /\ applies' = applies /\ base' = base
      /\ kept' = kept /\ orphans' = orphans /\ source' = source /\ built' = built
      /\ disturbed' = disturbed /\ faults' = faults /\ message' = message
  BY DEF TofuLocks, evidence, engine, files, program
<1>2. TypeOK /\ tofu \in [Ops -> TofuStates] /\ current \in Ops
  BY DEF OInv, TypeOK
<1>3. PICK e \in {"Locked", "Refused"} : tofu' = [tofu EXCEPT ![o] = e] /\ tofu[o] = "Started"
  BY DEF TofuLocks
<1>4. ProcessMoves(o)
  BY <1>2, <1>3 DEF ProcessMoves, TofuStates
<1>5. MarkersTrue' /\ IsFiniteSet(past)'
  <2>1. ASSUME NEW s \in past \cup {state}, s.marker # 0 PROVE tofu'[s.marker] = "Full"
    <3>1. tofu[s.marker] = "Full"
      BY <2>1 DEF OInv, MarkersTrue
    <3>2. s.marker # o
      BY <1>3, <3>1
    <3>3. s.marker \in Ops
      BY <1>2, <2>1, OpenTofuAssumption DEF TypeOK, States, Ops
    <3>4. QED
      BY <1>2, <1>3, <3>1, <3>2, <3>3
  <2>2. QED
    BY <1>1, <2>1 DEF OInv, MarkersTrue
<1>6. /\ Shared'
      /\ \A p \in Ops : tofu[p] = "Full" => tofu'[p] = "Full"
      /\ \A v \in Workers : At(v, "apply") => tofu'[worker[v].op] = "None"
  BY <1>1, <1>4, <1>5, ProcessShared
<1>7. TypeOK' /\ current <= current'
  BY <1>1, <1>2, <1>4, OpenTofuAssumption DEF TypeOK, Ops, ProcessMoves
<1>8. \A v \in Workers : Owns(v)' => Owns(v) /\ message'.kind = message.kind /\ current' = current
  BY <1>1 DEF Owns
<1>9. \A v \in Workers : At(v, "apply") => /\ current' = current
                                           /\ tofu'[worker[v].op] = "None"
                                           /\ verdict'[worker[v].op] = "None"
  BY <1>1, <1>6, Starters
<1>10. QED
  BY <1>1, <1>6, <1>7, <1>8, <1>9, WorldStep

\* Someone restores an older state or changes the workload: the markers are
\* still those of complete applies.
LEMMA DisturbStep ==
  ASSUME OInv, Disturb
  PROVE  OInv'
<1>1. /\ current' = current /\ verdict' = verdict /\ journal' = journal /\ binding' = binding /\ worker' = worker
      /\ tofu' = tofu /\ applies' = applies /\ base' = base
      /\ kept' = kept /\ orphans' = orphans /\ source' = source /\ built' = built
      /\ message' = message
  BY DEF Disturb, evidence, engine, files, program
<1>2. TypeOK /\ state \in States /\ past \subseteq States /\ IsFiniteSet(past) /\ current \in Ops
  BY DEF OInv, TypeOK
<1>3. /\ state' \in States /\ past' \subseteq States /\ IsFiniteSet(past)'
      /\ \A s \in past' \cup {state'} : \E u \in past \cup {state} : s.marker = u.marker
  <2>1. CASE /\ \E s \in past : state' = s
             /\ past' = past \cup {state}
    <3>1. IsFiniteSet(past')
      BY <1>2, <2>1, FS_AddElement
    <3>2. QED
      BY <1>2, <2>1, <3>1
  <2>2. CASE state' = [state EXCEPT !.converged = FALSE] /\ UNCHANGED past
    <3>1. state' \in States /\ state'.marker = state.marker
      BY <1>2, <2>2 DEF States
    <3>2. QED
      BY <1>2, <2>2, <3>1
  <2>3. QED
    BY <2>1, <2>2 DEF Disturb
<1>4. MarkersTrue'
  BY <1>1, <1>3 DEF OInv, MarkersTrue
<1>5. Shared'
  <2>1. MessageAgrees' /\ JournalAhead' /\ VerdictsTrue' /\ BindingAgrees' /\ AppliesCounted'
    BY <1>1 DEF OInv, MessageAgrees, JournalAhead, VerdictsTrue, BindingAgrees, AppliesCounted
  <2>2. SettledNeverApplies' /\ AppliedSourceIsRegistered'
    BY <1>1 DEF OInv, SettledNeverApplies, AppliedSourceIsRegistered
  <2>3. QED
    BY <1>3, <1>4, <2>1, <2>2 DEF Shared
<1>6. faults' \in 0..MaxFaults /\ disturbed' \in BOOLEAN
  BY <1>2, FaultBound DEF Disturb
<1>7. TypeOK' /\ current <= current'
  BY <1>1, <1>2, <1>3, <1>6, OpenTofuAssumption DEF TypeOK, Ops
<1>8. \A v \in Workers : Owns(v)' => Owns(v) /\ message'.kind = message.kind /\ current' = current
  BY <1>1 DEF Owns
<1>9. \A v \in Workers : At(v, "apply") => /\ current' = current
                                           /\ tofu'[worker[v].op] = "None"
                                           /\ verdict'[worker[v].op] = "None"
  BY <1>1, Starters
<1>10. QED
  BY <1>1, <1>5, <1>7, <1>8, <1>9, WorldStep

\* There is a digest that no state so far has.
LEMMA FreshDigestExists ==
  ASSUME OInv PROVE FreshDigest \in Nat
<1>1. IsFiniteSet(past) /\ past \subseteq States /\ state \in States
  BY DEF OInv, TypeOK
<1>2. PICK n \in Nat : n = Cardinality(past)
  BY <1>1, FS_CardinalityType
<1>3. PICK all : all = past \cup {state}
  OBVIOUS
<1>4. IsFiniteSet(all) /\ Cardinality(all) \in Nat /\ Cardinality(all) <= n + 1
  <2>1. IsFiniteSet(all) /\ (Cardinality(all) = n \/ Cardinality(all) = n + 1)
    BY <1>1, <1>2, <1>3, FS_AddElement
  <2>2. QED
    BY <2>1
<1>5. PICK f : f = [s \in all |-> s.digest]
  OBVIOUS
<1>6. PICK D : D = {s.digest : s \in all}
  OBVIOUS
<1>7. f \in Surjection(all, D)
  BY <1>5, <1>6 DEF Surjection
<1>8. IsFiniteSet(D) /\ Cardinality(D) <= Cardinality(all)
  BY <1>4, <1>7, FS_Surjection
<1>9. PICK m \in Nat : m = n + 2
  OBVIOUS
<1>10. IsFiniteSet(1..m) /\ Cardinality(1..m) = m
  <2>1. 1 \in Int /\ m \in Int /\ ~(1 > m) /\ m - 1 + 1 = m
    BY <1>9
  <2>2. QED
    BY <2>1, FS_Interval
<1>11. \E d \in 1..m : d \notin D
  <2>1. SUFFICES ASSUME 1..m \subseteq D PROVE FALSE
    OBVIOUS
  <2>2. Cardinality(1..m) <= Cardinality(D)
    BY <1>8, <2>1, FS_Subset
  <2>3. Cardinality(D) \in Nat
    BY <1>8, FS_CardinalityType
  <2>4. QED
    BY <1>4, <1>8, <1>9, <1>10, <2>2, <2>3
<1>12. Digests = D /\ 1..(Cardinality(past) + 2) = 1..m
  BY <1>2, <1>3, <1>6, <1>9 DEF Digests
<1>13. FreshDigest = CHOOSE d \in 1..m : d \notin D
  BY <1>12 DEF FreshDigest
<1>14. FreshDigest \in 1..m
  BY <1>11, <1>13, Zenon
<1>15. QED
  BY <1>14


\* The process ends under the lock: only a complete apply writes its marker.
LEMMA TofuEndsStep ==
  ASSUME OInv, NEW o \in Ops, TofuEnds(o)
  PROVE  OInv'
<1>1. /\ current' = current /\ verdict' = verdict /\ journal' = journal /\ binding' = binding /\ worker' = worker
      /\ past' = past \cup {state} /\ applies' = applies /\ base' = base
      /\ kept' = kept /\ orphans' = orphans /\ source' = source /\ built' = built
      /\ disturbed' = disturbed /\ faults' = faults /\ message' = message
  BY DEF TofuEnds, evidence, engine, files, program
<1>2. /\ TypeOK /\ tofu \in [Ops -> TofuStates] /\ current \in Ops /\ state \in States
      /\ past \subseteq States /\ IsFiniteSet(past)
  BY DEF OInv, TypeOK
<1>3. PICK full \in BOOLEAN :
        /\ tofu[o] = "Locked"
        /\ tofu' = [tofu EXCEPT ![o] = IF full THEN "Full" ELSE "Partial"]
        /\ state' = [serial |-> state.serial + 1, digest |-> FreshDigest,
                     marker |-> IF full THEN o ELSE state.marker, converged |-> full]
  BY DEF TofuEnds
<1>4. ProcessMoves(o) /\ (full => tofu'[o] = "Full")
  BY <1>2, <1>3 DEF ProcessMoves, TofuStates
<1>5. FreshDigest \in Nat
  BY FreshDigestExists
<1>6. state' \in States /\ state'.marker = IF full THEN o ELSE state.marker
  BY <1>2, <1>3, <1>5, OpenTofuAssumption DEF States, Ops
<1>7. past' \subseteq States /\ IsFiniteSet(past)'
  BY <1>1, <1>2, FS_AddElement
<1>8. MarkersTrue'
  <2>1. ASSUME NEW s \in past \cup {state}, s.marker # 0 PROVE tofu'[s.marker] = "Full"
    <3>1. tofu[s.marker] = "Full" /\ s.marker # o
      BY <1>3, <2>1 DEF OInv, MarkersTrue
    <3>2. s.marker \in Ops
      BY <1>2, <2>1, OpenTofuAssumption DEF States, Ops
    <3>3. QED
      BY <1>4, <3>1, <3>2 DEF ProcessMoves
  <2>2. state'.marker # 0 => tofu'[state'.marker] = "Full"
    BY <1>4, <1>6, <2>1
  <2>3. QED
    BY <1>1, <2>1, <2>2 DEF MarkersTrue
<1>9. /\ Shared'
      /\ \A p \in Ops : tofu[p] = "Full" => tofu'[p] = "Full"
      /\ \A v \in Workers : At(v, "apply") => tofu'[worker[v].op] = "None"
  BY <1>1, <1>4, <1>7, <1>8, ProcessShared
<1>10. TypeOK' /\ current <= current'
  BY <1>1, <1>2, <1>4, <1>6, <1>7, OpenTofuAssumption DEF TypeOK, Ops, ProcessMoves
<1>11. \A v \in Workers : Owns(v)' => Owns(v) /\ message'.kind = message.kind /\ current' = current
  BY <1>1 DEF Owns
<1>12. \A v \in Workers : At(v, "apply") => /\ current' = current
                                            /\ tofu'[worker[v].op] = "None"
                                            /\ verdict'[worker[v].op] = "None"
  BY <1>1, <1>9, Starters
<1>13. QED
  BY <1>1, <1>9, <1>10, <1>11, <1>12, WorldStep

\* The apply is started: for the first time, and from the registered source.
LEMMA StartApplyStep ==
  ASSUME OInv, NEW w \in Workers, StartApply(w)
  PROVE  OInv'
<1>1. /\ current' = current /\ verdict' = verdict /\ journal' = journal /\ binding' = binding
      /\ state' = state /\ past' = past /\ base' = base /\ source' = source
      /\ disturbed' = disturbed /\ message' = message
  BY DEF StartApply, evidence
<1>2. /\ TypeOK /\ CallOK(w, worker[w]) /\ worker \in [Workers -> Calls] /\ At(w, "apply")
      /\ ~At(w, "idle") /\ current \in Ops /\ tofu \in [Ops -> TofuStates] /\ applies \in [Ops -> Nat]
      /\ built \in [Ops -> Sources] /\ kept \subseteq Ops /\ orphans \subseteq Ops
  BY CallKnown DEF StartApply, At, TypeOK
<1>3. faults' \in 0..MaxFaults
  BY <1>2, FaultBound DEF StartApply
<1>4. CASE Return(w, "Ambiguous") /\ UNCHANGED <<tofu, applies, built>>
  <2>1. Leaves
    BY <1>1, <1>2, <1>3, <1>4 DEF Leaves, program, TypeOK
  <2>2. QED
    BY <1>1, <1>2, <1>4, <2>1, QuietReturn
<1>5. PICK o \in Ops : o = worker[w].op /\ o = current
  BY <1>2, Starters
<1>6. verdict[o] = "None" /\ tofu[o] = "None" /\ journal[o] \notin NotStarted
  BY <1>2, <1>5, Starters
<1>7. CASE /\ tofu' = [tofu EXCEPT ![o] = "Started"]
           /\ applies' = [applies EXCEPT ![o] = @ + 1]
           /\ built' = [built EXCEPT ![o] = worker[w].copy]
           /\ Goto(w, "await") /\ UNCHANGED files
  <2>1. PICK c \in Calls : c = worker[w]
    BY <1>2
  <2>2. PICK y : y = [c EXCEPT !.step = "await"]
    OBVIOUS
  <2>3. "await" \in Steps
    BY DEF Steps
  <2>4. /\ y \in Calls /\ y.step = "await"
        /\ y.kind = c.kind /\ y.op = c.op /\ y.phase = c.phase /\ y.binding = c.binding
        /\ y.pulled = c.pulled /\ y.outputs = c.outputs /\ y.producer = c.producer
        /\ y.copy = c.copy /\ y.uncertain = c.uncertain /\ y.answer = c.answer
    BY <2>2, <2>3, StepFields
  <2>5. worker' = [worker EXCEPT ![w] = y]
    BY <1>2, <1>7, <2>1, <2>2 DEF Goto
  <2>6. CallOK(w, c) /\ c.step = "apply" /\ c.op = o
    BY <1>2, <1>5, <2>1 DEF At
  <2>7. c.kind = "Dispatch" /\ c.copy = "Registered" /\ c.uncertain
    BY <2>6 DEF CallOK, StepAgrees
  <2>8. /\ tofu'[o] = "Started" /\ tofu' \in [Ops -> TofuStates]
        /\ \A p \in Ops : p # o => tofu'[p] = tofu[p]
    BY <1>2, <1>7 DEF TofuStates
  <2>9. /\ applies' \in [Ops -> Nat] /\ applies[o] = 0 /\ applies'[o] = 1
        /\ \A p \in Ops : p # o => applies'[p] = applies[p]
    BY <1>2, <1>6, <1>7 DEF OInv, AppliesCounted
  <2>10. built'[o] = "Registered" /\ built' \in [Ops -> Sources] /\ \A p \in Ops : p # o => built'[p] = built[p]
    BY <1>2, <1>7, <2>1, <2>7 DEF Sources
  <2>11. kept' = kept /\ orphans' = orphans
    BY <1>7 DEF files
  <2>12. worker'[w] = y /\ \A v \in Workers : v # w => worker'[v] = worker[v]
    BY <1>2, <2>5
  <2>13. TypeOK'
    BY <1>1, <1>2, <1>3, <2>4, <2>5, <2>8, <2>9, <2>10, <2>11 DEF TypeOK
  <2>14. Shared'
    <3>1. MessageAgrees' /\ BindingAgrees' /\ IsFiniteSet(past)'
      BY <1>1 DEF OInv, MessageAgrees, BindingAgrees
    <3>2. JournalAhead'
      BY <1>1, <1>6, <2>8 DEF OInv, JournalAhead
    <3>3. VerdictsTrue'
      BY <1>1, <1>6, <2>8 DEF OInv, VerdictsTrue
    <3>4. MarkersTrue'
      <4>1. ASSUME NEW s \in past \cup {state}, s.marker # 0 PROVE tofu'[s.marker] = "Full"
        <5>1. tofu[s.marker] = "Full" /\ s.marker # o
          BY <1>6, <4>1 DEF OInv, MarkersTrue
        <5>2. s.marker \in Ops
          BY <1>2, <4>1, OpenTofuAssumption DEF TypeOK, States, Ops
        <5>3. QED
          BY <2>8, <5>1, <5>2
      <4>2. QED
        BY <1>1, <4>1 DEF MarkersTrue
    <3>5. AppliesCounted'
      BY <2>8, <2>9 DEF OInv, AppliesCounted
    <3>6. SettledNeverApplies'
      BY <1>1, <1>5, <1>6, <2>8 DEF OInv, SettledNeverApplies
    <3>7. AppliedSourceIsRegistered'
      BY <2>10 DEF OInv, AppliedSourceIsRegistered
    <3>8. QED
      BY <3>1, <3>2, <3>3, <3>4, <3>5, <3>6, <3>7 DEF Shared
  <2>15. ASSUME NEW v \in Workers, At(v, "apply") PROVE v = w
    <3>1. worker[v].op = current
      BY <2>15, Starters
    <3>2. QED
      BY <1>2, <1>5, <2>15, <3>1 DEF OInv, OneStarter
  <2>16. OneStarter'
    BY <2>4, <2>12, <2>15 DEF OneStarter, At
  <2>17. ApplyWorkspaceKept'
    <3>1. SUFFICES ASSUME NEW p \in Ops, applies'[p] > 0, journal[p] # "ObservedConverged",
                          p \notin kept \cup orphans
                   PROVE  \E v \in Workers : /\ worker'[v].op = p /\ worker'[v].kind = "Dispatch"
                                             /\ worker'[v].step \in ApplySteps /\ worker'[v].uncertain
      BY <1>1, <2>11 DEF ApplyWorkspaceKept, Applied, ApplySteps
    <3>2. CASE p = o
      BY <2>4, <2>6, <2>7, <2>12, <3>2 DEF ApplySteps
    <3>3. CASE p # o
      <4>1. PICK v \in Workers : worker[v].op = p /\ Applied(v) /\ worker[v].uncertain
        BY <2>9, <3>1, <3>3 DEF OInv, ApplyWorkspaceKept
      <4>2. v # w
        BY <1>2, <4>1 DEF Applied, At
      <4>3. QED
        BY <2>12, <4>1, <4>2 DEF Applied, ApplySteps
    <3>4. QED
      BY <3>2, <3>3
  <2>18. CallOK(w, y)'
    <3>1. OwnerAgrees(w, y)' /\ StepAgrees(y)' /\ MayApply(y)'
      BY <1>1, <2>4, <2>6, <2>7 DEF CallOK, OwnerAgrees, StepAgrees, MayApply, Owns
    <3>2. OwnerReads(w, y)' /\ SuccessIsFull(y)'
      BY <2>4 DEF OwnerReads, SuccessIsFull, Verified
    <3>3. Remembers(y)'
      BY <1>1, <2>4, <2>6 DEF CallOK, Remembers
    <3>4. QED
      BY <3>1, <3>2, <3>3 DEF CallOK
  <2>19. ASSUME NEW v \in Workers
         PROVE  \/ CallOK(v, worker[v])'
                \/ /\ worker'[v] = worker[v]
                   /\ Owns(v)' => Owns(v) /\ message'.kind = message.kind /\ current' = current
                   /\ At(v, "apply") => /\ current' = current
                                        /\ tofu'[worker[v].op] = "None" /\ verdict'[worker[v].op] = "None"
    <3>1. CASE v = w
      BY <2>12, <2>18, <3>1
    <3>2. CASE v # w
      <4>1. ~At(v, "apply")
        BY <2>15, <3>2
      <4>2. QED
        BY <1>1, <2>12, <3>2, <4>1 DEF Owns
    <3>3. QED
      BY <3>1, <3>2
  <2>20. \A p \in Ops : tofu[p] = "Full" => tofu'[p] = "Full"
    BY <1>6, <2>8
  <2>21. current <= current'
    BY <1>1, <1>2, OpenTofuAssumption DEF Ops
  <2>22. QED
    BY <1>1, <2>13, <2>14, <2>16, <2>17, <2>19, <2>20, <2>21, AroundStep
<1>8. QED
  BY <1>4, <1>5, <1>7 DEF StartApply

\* The command returns, or is cancelled and its process group brought down.
LEMMA ApplyReturnsStep ==
  ASSUME OInv, NEW w \in Workers, ApplyReturns(w)
  PROVE  OInv'
<1>1. /\ current' = current /\ verdict' = verdict /\ journal' = journal /\ binding' = binding
      /\ past' = past /\ applies' = applies /\ base' = base /\ source' = source /\ built' = built
      /\ kept' = kept /\ orphans' = orphans
      /\ disturbed' = disturbed /\ message' = message
  BY DEF ApplyReturns, evidence, files, program
<1>2. /\ TypeOK /\ CallOK(w, worker[w]) /\ worker \in [Workers -> Calls] /\ At(w, "await")
      /\ worker[w].op \in Ops /\ current \in Ops /\ tofu \in [Ops -> TofuStates] /\ state \in States
  BY CallKnown DEF ApplyReturns, At, TypeOK
<1>3. faults' \in 0..MaxFaults
  BY <1>2, FaultBound DEF ApplyReturns
<1>4. CASE (Goto(w, "exited") \/ Goto(w, "broken")) /\ UNCHANGED <<state, tofu>>
  <2>1. Leaves /\ UNCHANGED files
    BY <1>1, <1>2, <1>3, <1>4 DEF Leaves, program, files, TypeOK
  <2>2. PICK s \in {"exited", "broken"} : Goto(w, s)
    BY <1>4
  <2>3. Follows(worker[w], s) /\ s \in Steps /\ s # "init" /\ s # "outputs"
    BY <1>2 DEF Follows, At, Steps
  <2>4. QED
    BY <1>1, <2>1, <2>2, <2>3, GotoStep
<1>5. PICK o \in Ops : o = worker[w].op
  BY <1>2
<1>6. CASE /\ tofu' = [tofu EXCEPT ![o] = Interrupted(@)]
           /\ state' = [state EXCEPT !.converged = @ /\ tofu[o] # "Locked"]
           /\ Goto(w, "broken")
  <2>1. PICK c \in Calls : c = worker[w]
    BY <1>2
  <2>2. PICK y : y = [c EXCEPT !.step = "broken"]
    OBVIOUS
  <2>3. "broken" \in Steps
    BY DEF Steps
  <2>4. /\ y \in Calls /\ y.step = "broken"
        /\ y.kind = c.kind /\ y.op = c.op /\ y.phase = c.phase /\ y.binding = c.binding
        /\ y.pulled = c.pulled /\ y.outputs = c.outputs /\ y.producer = c.producer
        /\ y.copy = c.copy /\ y.uncertain = c.uncertain /\ y.answer = c.answer
    BY <2>2, <2>3, StepFields
  <2>5. worker' = [worker EXCEPT ![w] = y]
    BY <1>2, <1>6, <2>1, <2>2 DEF Goto
  <2>6. CallOK(w, c) /\ c.step = "await"
    BY <1>2, <2>1 DEF At
  <2>7. Follows(c, "broken")
    BY <2>6 DEF Follows
  <2>8. /\ CallOK(w, y)
        /\ c.kind = "Dispatch" /\ c.step \in ApplySteps =>
             y.op = c.op /\ y.kind = "Dispatch" /\ y.step \in ApplySteps /\ y.uncertain
    BY <2>3, <2>4, <2>6, <2>7, FollowsOK
  <2>9. PICK was \in TofuStates : was = tofu[o]
    BY <1>2
  <2>10. /\ Interrupted(was) \in TofuStates
         /\ Interrupted(was) = "None" <=> was = "None"
         /\ was = "Full" => Interrupted(was) = "Full"
         /\ Interrupted(was) \in {"Started", "Locked"} => was \in {"Started", "Locked"}
    <3>1. CASE was = "Started"
      BY <3>1 DEF Interrupted, TofuStates
    <3>2. CASE was = "Locked"
      BY <3>2 DEF Interrupted, TofuStates
    <3>3. CASE was # "Started" /\ was # "Locked"
      BY <3>3 DEF Interrupted, TofuStates
    <3>4. QED
      BY <3>1, <3>2, <3>3
  <2>11. tofu'[o] = Interrupted(was) /\ tofu' \in [Ops -> TofuStates] /\ \A p \in Ops \ {o} : tofu'[p] = tofu[p]
    BY <1>2, <1>6, <2>9, <2>10
  <2>12. ProcessMoves(o)
    BY <2>9, <2>10, <2>11 DEF ProcessMoves
  <2>13. state' \in States /\ state'.marker = state.marker
    BY <1>2, <1>6 DEF States
  <2>14. \A p \in Ops : tofu[p] = "Full" => tofu'[p] = "Full"
    BY <2>12 DEF ProcessMoves
  <2>15. MarkersTrue' /\ IsFiniteSet(past)'
    <3>1. ASSUME NEW s \in past \cup {state}, s.marker # 0 PROVE tofu'[s.marker] = "Full"
      <4>1. tofu[s.marker] = "Full"
        BY <3>1 DEF OInv, MarkersTrue
      <4>2. s.marker \in Ops
        BY <1>2, <3>1, OpenTofuAssumption DEF TypeOK, States, Ops
      <4>3. QED
        BY <2>14, <4>1, <4>2
    <3>2. QED
      BY <1>1, <2>13, <3>1 DEF OInv, MarkersTrue
  <2>16. Shared' /\ \A v \in Workers : At(v, "apply") => tofu'[worker[v].op] = "None"
    BY <1>1, <2>12, <2>15, ProcessShared
  <2>17. TypeOK'
    BY <1>1, <1>2, <1>3, <2>4, <2>5, <2>11, <2>13 DEF TypeOK
  <2>18. worker'[w] = y /\ \A v \in Workers : v # w => worker'[v] = worker[v]
    BY <1>2, <2>5
  <2>19. ApplyWorkspaceKept'
    <3>1. /\ kept \cup orphans \subseteq kept' \cup orphans'
          /\ \A p \in Ops : journal[p] = "ObservedConverged" => journal'[p] = "ObservedConverged"
      BY <1>1
    <3>2. Applied(w) /\ worker[w].uncertain =>
            y.op = worker[w].op /\ y.kind = "Dispatch" /\ y.step \in ApplySteps /\ y.uncertain
      BY <2>1, <2>8 DEF Applied, ApplySteps
    <3>3. QED
      BY <1>1, <2>4, <2>5, <3>1, <3>2, KeptStays
  <2>20. OneStarter'
    BY <2>4, <2>18 DEF OInv, OneStarter, At
  <2>21. CallOK(w, y)'
    <3>1. OwnerAgrees(w, y)' /\ StepAgrees(y)' /\ MayApply(y)'
      BY <1>1, <2>4, <2>8 DEF CallOK, OwnerAgrees, StepAgrees, MayApply, Owns
    <3>2. OwnerReads(w, y)' /\ SuccessIsFull(y)'
      BY <2>4 DEF OwnerReads, SuccessIsFull, Verified
    <3>3. Remembers(y)'
      BY <1>1, <2>4, <2>8 DEF CallOK, Remembers
    <3>4. QED
      BY <3>1, <3>2, <3>3 DEF CallOK
  <2>22. ASSUME NEW v \in Workers
         PROVE  \/ CallOK(v, worker[v])'
                \/ /\ worker'[v] = worker[v]
                   /\ Owns(v)' => Owns(v) /\ message'.kind = message.kind /\ current' = current
                   /\ At(v, "apply") => /\ current' = current
                                        /\ tofu'[worker[v].op] = "None" /\ verdict'[worker[v].op] = "None"
    <3>1. CASE v = w
      BY <2>18, <2>21, <3>1
    <3>2. CASE v # w
      <4>1. At(v, "apply") => verdict[worker[v].op] = "None"
        BY Starters
      <4>2. QED
        BY <1>1, <2>16, <2>18, <3>2, <4>1 DEF Owns
    <3>3. QED
      BY <3>1, <3>2
  <2>23. current <= current'
    BY <1>1, <1>2, OpenTofuAssumption DEF Ops
  <2>24. QED
    BY <1>1, <2>14, <2>16, <2>17, <2>19, <2>20, <2>22, <2>23, AroundStep
<1>7. QED
  BY <1>4, <1>5, <1>6 DEF ApplyReturns


-----------------------------------------------------------------------------
(* The invariant. *)

\* The first operation has not begun.
LEMMA Initially == Init => OInv
<1> SUFFICES ASSUME Init PROVE OInv
  OBVIOUS
<1>1. message = [kind |-> "Dispatch", holder |-> NoWorker, live |-> FALSE, open |-> TRUE]
  BY DEF Init, NewMessage
<1>2. message \in Messages /\ message.open = TRUE /\ message.live = FALSE
  BY <1>1 DEF Messages
<1>3. state \in States /\ state.marker = 0 /\ past = {}
  BY OpenTofuAssumption DEF Init, EmptyState, States
<1>4. binding \in Bindings /\ binding = NoBinding /\ NoState \in Evidences
  BY DEF Init, NoBinding, NoState, Bindings, Evidences
<1>5. Idle \in Calls
  BY OpenTofuAssumption DEF Idle, NoBinding, NoState, Calls, Bindings, Evidences, Steps, Phases, Outputs,
     Sources, Answers
<1>6. /\ Idle.step = "idle" /\ Idle.kind = "Dispatch" /\ Idle.op = 0 /\ Idle.phase = "None"
      /\ Idle.binding = NoBinding /\ Idle.outputs = "None" /\ NoBinding.version = 0
  BY DEF Idle, NoBinding
<1>7. current \in Ops /\ faults \in 0..MaxFaults
  BY OpenTofuAssumption DEF Init, Ops
<1>8. TypeOK
  BY <1>2, <1>3, <1>4, <1>5, <1>7 DEF Init, TypeOK, Phases, TofuStates, Sources
<1>9. IsFiniteSet(past)
  BY <1>3, FS_EmptySet
<1>10. MessageAgrees /\ JournalAhead /\ VerdictsTrue /\ AppliesCounted /\ BindingAgrees
  BY <1>2, <1>4, <1>7 DEF Init, MessageAgrees, JournalAhead, VerdictsTrue, AppliesCounted, BindingAgrees
<1>11. MarkersTrue
  BY <1>3 DEF MarkersTrue
<1>12. SettledNeverApplies /\ ApplyWorkspaceKept /\ AppliedSourceIsRegistered
  BY <1>7 DEF Init, SettledNeverApplies, ApplyWorkspaceKept, AppliedSourceIsRegistered
<1>13. \A w \in Workers : worker[w] = Idle
  BY DEF Init
<1>14. OneStarter
  BY <1>6, <1>13 DEF OneStarter, At
<1>15. ASSUME NEW w \in Workers PROVE CallOK(w, worker[w])
  <2>1. OwnerAgrees(w, Idle) /\ StepAgrees(Idle) /\ MayApply(Idle)
    BY <1>6 DEF OwnerAgrees, StepAgrees, MayApply
  <2>2. OwnerReads(w, Idle) /\ SuccessIsFull(Idle)
    BY <1>6 DEF OwnerReads, SuccessIsFull, Verified
  <2>3. Remembers(Idle)
    BY <1>4, <1>6 DEF Remembers
  <2>4. QED
    BY <1>13, <2>1, <2>2, <2>3 DEF CallOK
<1>16. QED
  BY <1>8, <1>9, <1>10, <1>11, <1>12, <1>14, <1>15 DEF OInv

\* A stuttering step changes nothing that the invariant is about.
LEMMA StutterStep ==
  ASSUME OInv, UNCHANGED vars PROVE OInv'
<1>1. /\ current' = current /\ verdict' = verdict /\ journal' = journal /\ binding' = binding /\ worker' = worker
      /\ state' = state /\ past' = past /\ tofu' = tofu /\ applies' = applies /\ base' = base
      /\ kept' = kept /\ orphans' = orphans /\ source' = source /\ built' = built
      /\ disturbed' = disturbed /\ faults' = faults /\ message' = message
  BY DEF vars
<1>2. TypeOK /\ current \in Ops
  BY DEF OInv, TypeOK
<1>3. TypeOK' /\ current <= current'
  BY <1>1, <1>2, OpenTofuAssumption DEF TypeOK, Ops
<1>4. Shared'
  BY <1>1, SharedStays
<1>5. \A v \in Workers : Owns(v)' => Owns(v) /\ message'.kind = message.kind /\ current' = current
  BY <1>1 DEF Owns
<1>6. \A v \in Workers : At(v, "apply") => /\ current' = current
                                           /\ tofu'[worker[v].op] = "None"
                                           /\ verdict'[worker[v].op] = "None"
  BY <1>1, Starters
<1>7. QED
  BY <1>1, <1>3, <1>4, <1>5, <1>6, WorldStep

\* Every step of the provisioner, its worker and its environment preserves the
\* invariant.
LEMMA Inductive == OInv /\ [Next]_vars => OInv'
<1> SUFFICES ASSUME OInv, [Next]_vars PROVE OInv'
  OBVIOUS
<1>1. ASSUME NEW w \in Workers, Call(w) PROVE OInv'
  <2>1. CASE Claim(w) \/ Record(w) \/ PrepareAttempt(w) \/ EnsureBinding(w) \/ JournalMayStart(w)
    BY <2>1, ClaimStep, RecordStep, PrepareStep, BindStep, MayStartStep
  <2>2. CASE CopySource(w) \/ Assemble(w) \/ InitWorkspace(w) \/ SavePlan(w) \/ InspectPlan(w)
    BY <2>2, CopyStep, AssembleStep, InitStep, SavePlanStep, InspectStep
  <2>3. CASE StartApply(w) \/ ApplyReturns(w) \/ JournalOutcomeUnknown(w) \/ JournalExited(w)
    BY <2>3, StartApplyStep, ApplyReturnsStep, OutcomeUnknownStep, ExitedStep
  <2>4. CASE LoadAttempt(w) \/ LoadStateBinding(w) \/ VerifyConvergence(w) \/ ReadOutputs(w)
    BY <2>4, LoadStep, LoadBindingStep, VerifyStep, OutputsStep
  <2>5. CASE PullState(w) \/ UpdateState(w) \/ NoteMissedExit(w) \/ JournalConverged(w)
    BY <2>5, PullStep, UpdateStep, MissedExitStep, ConvergedStep
  <2>6. QED
    BY <1>1, <2>1, <2>2, <2>3, <2>4, <2>5 DEF Call
<1>2. ASSUME NEW w \in Workers, Crash(w) PROVE OInv'
  BY <1>2, CrashStep
<1>3. ASSUME NEW o \in Ops, Process(o) PROVE OInv'
  BY <1>3, TofuLocksStep, TofuEndsStep DEF Process
<1>4. QED
  BY <1>1, <1>2, <1>3, NextOperationStep, DisturbStep, FilesStep, LeaseStep, StutterStep DEF Next

\* The invariant holds always.
LEMMA Invariant == Spec => []OInv
BY Initially, Inductive, PTL DEF Spec

\* Whoever crashes, is paused or edits the program, and however often an
\* attempt is redelivered: its apply is started at most once, from the
\* registered source, never beside or after its verdict, and what it left on
\* disk is there until the journal is conclusive (SubmitFenced, observe,
\* copySource, workspace.close, scanOrphanWorkspaces).
THEOREM SafeApplies == Spec => []AppliesAreSafe
<1>1. OInv => AppliesAreSafe
  <2> SUFFICES ASSUME OInv PROVE AppliesAreSafe
    OBVIOUS
  <2>1. AppliedOnce
    BY DEF OInv, AppliesCounted, AppliedOnce
  <2>2. QED
    BY <2>1 DEF OInv, AppliesAreSafe
<1>2. QED
  BY <1>1, Invariant, PTL

-----------------------------------------------------------------------------
(* The bound state. *)

\* The binding is written by UpdateState, to a state that is newer than the
\* one that is bound, and by ensureBinding, which binds no state.
LEMMA BindingGrows ==
  ASSUME OInv, [Next]_vars
  PROVE  binding'.state # binding.state => binding'.state.serial > binding.state.serial
<1>1. CASE binding' = binding
  BY <1>1
<1>2. ASSUME NEW w \in Workers, EnsureBinding(w)
      PROVE  binding'.state = binding.state \/ binding' = binding
  <2>1. binding' = binding \/ (binding.version = 0 /\ binding' = [NoBinding EXCEPT !.version = 1])
    BY <1>2 DEF EnsureBinding
  <2>2. CASE binding.version = 0 /\ binding' = [NoBinding EXCEPT !.version = 1]
    BY <2>2 DEF OInv, BindingAgrees, NoBinding
  <2>3. QED
    BY <2>1, <2>2
<1>3. ASSUME NEW w \in Workers, UpdateState(w)
      PROVE  binding'.state # binding.state => binding'.state.serial > binding.state.serial
  <2>1. CASE binding' # binding
    <3>1. PICK c \in Calls : c = worker[w] /\ CallOK(w, c)
      BY CallKnown
    <3>2. /\ c.step = "update" /\ binding.version = c.binding.version
          /\ binding' = [version |-> binding.version + 1, state |-> c.pulled]
      BY <1>3, <2>1, <3>1 DEF UpdateState, At
    <3>3. binding'.state = c.pulled /\ c.binding.state = binding.state
      BY <3>1, <3>2 DEF CallOK, Remembers
    <3>4. StateCompatible(binding.state, c.pulled)
      BY <3>1, <3>2, <3>3 DEF CallOK, Remembers
    <3>5. c.pulled \in Evidences /\ binding.state \in Evidences
      BY DEF OInv, TypeOK, Calls, Bindings
    <3>6. c.pulled.serial = binding.state.serial => c.pulled = binding.state
      BY <3>4, <3>5 DEF StateCompatible, Evidences
    <3>7. QED
      BY <3>3, <3>4, <3>5, <3>6 DEF StateCompatible, Evidences
  <2>2. QED
    BY <1>1, <2>1
<1>4. ASSUME NEW w \in Workers, Call(w), ~EnsureBinding(w), ~UpdateState(w) PROVE binding' = binding
  <2>1. CASE Claim(w) \/ Record(w) \/ PrepareAttempt(w) \/ JournalMayStart(w)
    BY <2>1 DEF Claim, Record, PrepareAttempt, JournalMayStart, evidence
  <2>2. CASE CopySource(w) \/ Assemble(w) \/ InitWorkspace(w) \/ SavePlan(w) \/ InspectPlan(w)
    BY <2>2 DEF CopySource, Assemble, InitWorkspace, SavePlan, InspectPlan, evidence
  <2>3. CASE StartApply(w) \/ ApplyReturns(w) \/ JournalOutcomeUnknown(w) \/ JournalExited(w)
    BY <2>3 DEF StartApply, ApplyReturns, JournalOutcomeUnknown, JournalExited, evidence
  <2>4. CASE LoadAttempt(w) \/ LoadStateBinding(w) \/ VerifyConvergence(w) \/ ReadOutputs(w)
    BY <2>4 DEF LoadAttempt, LoadStateBinding, VerifyConvergence, ReadOutputs, evidence
  <2>5. CASE PullState(w) \/ NoteMissedExit(w) \/ JournalConverged(w)
    BY <2>5 DEF PullState, NoteMissedExit, JournalConverged, evidence
  <2>6. QED
    BY <1>4, <2>1, <2>2, <2>3, <2>4, <2>5 DEF Call
<1>5. CASE \/ \E w \in Workers : Crash(w)
           \/ \E o \in Ops : Process(o)
           \/ NextOperation \/ Disturb \/ EditSource \/ ScanOrphans \/ LeaseExpires \/ UNCHANGED vars
  BY <1>1, <1>5 DEF Crash, Process, TofuLocks, TofuEnds, NextOperation, Disturb, EditSource, ScanOrphans,
                    LeaseExpires, vars, evidence
<1>6. QED
  BY <1>1, <1>2, <1>3, <1>4, <1>5 DEF Next

\* The control state that is bound never goes back, also when the backend is
\* rolled back under concurrent calls, and a successful call hands out only
\* outputs of its own target generation (stateCompatible, UpdateState,
\* decodeOutputs).
THEOREM BoundStateIsTrusted == Spec => StateIsTrusted
<1>1. OInv => OutputsBelong
  BY DEF OInv, CallOK, Remembers, OutputsBelong
<1>2. OInv /\ [Next]_vars =>
        (binding'.state # binding.state => binding'.state.serial > binding.state.serial)
  BY BindingGrows
<1>3. OInv' => OutputsBelong'
  BY <1>1, PTL
<1>4. OInv /\ OInv' /\ [Next]_vars =>
        [/\ binding'.state # binding.state => binding'.state.serial > binding.state.serial
         /\ OutputsBelong']_vars
  BY <1>2, <1>3
<1>5. QED
  BY <1>4, Invariant, PTL DEF Spec, StateIsTrusted


-----------------------------------------------------------------------------
(* The refinement. *)

\* A process that moves to a state with another view moves the view.
LEMMA WorkMoves ==
  ASSUME TypeOK, TypeOK', NEW o \in Ops, NEW e, NEW view, tofu' = [tofu EXCEPT ![o] = e],
         Work'[o] = view
  PROVE  Work' = [Work EXCEPT ![o] = view]
<1>1. \A p \in Ops \ {o} : Work'[p] = Work[p]
  BY DEF TypeOK, Work
<1>2. QED
  BY <1>1 DEF Work

\* A step that neither moves a process nor records an answer is a stutter.
LEMMA Stutters ==
  ASSUME tofu' = tofu, verdict' = verdict
  PROVE  UNCHANGED Contract!contract
BY DEF Contract!contract, Work

\* Starting the apply is the contract's Launch.
LEMMA StartImplements ==
  ASSUME OInv, OInv', NEW w \in Workers, StartApply(w)
  PROVE  [Contract!Next]_(Contract!contract)
<1>1. verdict' = verdict /\ At(w, "apply")
  BY DEF StartApply
<1>2. PICK o \in Ops : o = worker[w].op /\ verdict[o] = "None" /\ tofu[o] = "None"
  BY <1>1, Starters
<1>3. CASE tofu' = tofu
  BY <1>1, <1>3, Stutters
<1>4. CASE tofu' = [tofu EXCEPT ![o] = "Started"]
  <2>1. TypeOK /\ TypeOK' /\ tofu'[o] = "Started"
    BY <1>4 DEF OInv, TypeOK
  <2>2. Work[o] = "None" /\ Work'[o] = "Running"
    BY <1>2, <2>1 DEF Work
  <2>3. Work' = [Work EXCEPT ![o] = "Running"]
    BY <1>4, <2>1, <2>2, WorkMoves
  <2>4. Contract!Launch(o)
    BY <1>1, <1>2, <2>2, <2>3 DEF Contract!Launch
  <2>5. QED
    BY <2>4 DEF Contract!Next
<1>5. QED
  BY <1>2, <1>3, <1>4 DEF StartApply

\* A process that ends, is refused or is killed is the contract's Finish; one
\* that goes on under the lock is a stutter.
LEMMA EndImplements ==
  ASSUME OInv, OInv', NEW o \in Ops, NEW e \in TofuStates, verdict' = verdict,
         tofu[o] \in {"Started", "Locked"}, e \in {"Locked", "Full", "Partial", "Refused"},
         tofu' = [tofu EXCEPT ![o] = e]
  PROVE  [Contract!Next]_(Contract!contract)
<1>1. TypeOK /\ TypeOK' /\ tofu'[o] = e
  BY DEF OInv, TypeOK
<1>2. PICK view : view = IF e = "Locked" THEN "Running" ELSE IF e = "Full" THEN "Done" ELSE "Broken"
  OBVIOUS
<1>3. Work[o] = "Running" /\ Work'[o] = view
  BY <1>1, <1>2 DEF Work
<1>4. Work' = [Work EXCEPT ![o] = view]
  BY <1>1, <1>3, WorkMoves
<1>5. CASE view = "Running"
  <2>1. Work' = Work
    BY <1>3, <1>4, <1>5 DEF Work
  <2>2. QED
    BY <2>1 DEF Contract!contract
<1>6. CASE view \in {"Done", "Broken"}
  <2>1. Contract!Finish(o)
    BY <1>3, <1>4, <1>6 DEF Contract!Finish
  <2>2. QED
    BY <2>1 DEF Contract!Next
<1>7. QED
  BY <1>2, <1>5, <1>6

\* Recording a conclusive answer is the contract's Conclude.
LEMMA RecordImplements ==
  ASSUME OInv, NEW w \in Workers, Record(w)
  PROVE  [Contract!Next]_(Contract!contract)
<1>1. tofu' = tofu /\ worker[w].step = "answer"
  BY DEF Record, At, engine
<1>2. CASE verdict' = verdict
  BY <1>1, <1>2, Stutters
<1>3. CASE verdict' # verdict
  <2>1. /\ TypeOK /\ CallOK(w, worker[w]) /\ worker[w] \in Calls /\ worker[w].op \in Ops
    BY <1>1, CallKnown DEF At
  <2>2. /\ Owns(w) /\ worker[w].answer # "NotAttempted" /\ worker[w].answer # "Ambiguous"
        /\ verdict' = [verdict EXCEPT ![worker[w].op] = worker[w].answer]
    BY <1>3 DEF Record
  <2>3. PICK a \in {"Rejected", "Succeeded"} : a = worker[w].answer
    BY <2>1, <2>2 DEF Calls, Answers
  <2>4. PICK o \in Ops : o = worker[w].op
    BY <2>1
  <2>5. o = current /\ verdict[o] = "None"
    BY <1>1, <2>1, <2>2, <2>4 DEF CallOK, OwnerAgrees, OInv, MessageAgrees, Owns
  <2>6. a = "Rejected" => tofu[o] = "None"
    BY <1>1, <2>1, <2>2, <2>3, <2>4 DEF CallOK, OwnerReads, OInv, JournalAhead
  <2>7. a = "Succeeded" => tofu[o] = "Full"
    BY <1>1, <2>1, <2>3, <2>4 DEF CallOK, SuccessIsFull, Verified
  <2>8. a \in Contract!Conclusion(Work[o])
    BY <2>6, <2>7 DEF Work, Contract!Conclusion
  <2>9. Work' = Work
    BY <1>1 DEF Work
  <2>10. Contract!Conclude(o)
    BY <2>2, <2>3, <2>4, <2>5, <2>8, <2>9 DEF Contract!Conclude
  <2>11. QED
    BY <2>10 DEF Contract!Next
<1>4. QED
  BY <1>2, <1>3

\* The command that returns leaves the process as it is or has it killed.
LEMMA ReturnImplements ==
  ASSUME OInv, OInv', NEW w \in Workers, ApplyReturns(w)
  PROVE  [Contract!Next]_(Contract!contract)
<1>1. verdict' = verdict /\ ~At(w, "idle")
  BY DEF ApplyReturns, At
<1>2. PICK o \in Ops : o = worker[w].op
  BY <1>1, CallKnown
<1>3. CASE tofu' = tofu
  BY <1>1, <1>3, Stutters
<1>4. CASE tofu' # tofu
  <2>1. tofu \in [Ops -> TofuStates]
    BY DEF OInv, TypeOK
  <2>2. tofu' = [tofu EXCEPT ![o] = Interrupted(tofu[o])]
    BY <1>2, <1>4 DEF ApplyReturns
  <2>3. Interrupted(tofu[o]) # tofu[o]
    BY <1>4, <2>1, <2>2
  <2>4. tofu[o] \in {"Started", "Locked"}
    BY <2>3 DEF Interrupted
  <2>5. PICK e \in {"Refused", "Partial"} : e = Interrupted(tofu[o])
    BY <2>4 DEF Interrupted
  <2>6. e \in TofuStates
    BY DEF TofuStates
  <2>7. QED
    BY <1>1, <2>2, <2>4, <2>5, <2>6, EndImplements
<1>5. QED
  BY <1>3, <1>4

\* Every step of the provisioner is a step of the contract or a stutter.
LEMMA StepImplements ==
  ASSUME OInv, OInv', [Next]_vars PROVE [Contract!Next]_(Contract!contract)
<1>1. CASE UNCHANGED <<tofu, verdict>>
  BY <1>1, Stutters
<1>2. ASSUME NEW o \in Ops, TofuLocks(o) PROVE [Contract!Next]_(Contract!contract)
  <2>1. PICK e \in {"Locked", "Refused"} : tofu' = [tofu EXCEPT ![o] = e] /\ tofu[o] = "Started"
    BY <1>2 DEF TofuLocks
  <2>2. e \in TofuStates /\ verdict' = verdict
    BY <1>2 DEF TofuStates, TofuLocks
  <2>3. QED
    BY <2>1, <2>2, EndImplements
<1>3. ASSUME NEW o \in Ops, TofuEnds(o) PROVE [Contract!Next]_(Contract!contract)
  <2>1. PICK e \in {"Full", "Partial"} : tofu' = [tofu EXCEPT ![o] = e] /\ tofu[o] = "Locked"
    BY <1>3 DEF TofuEnds
  <2>2. e \in TofuStates /\ verdict' = verdict
    BY <1>3 DEF TofuStates, TofuEnds
  <2>3. QED
    BY <2>1, <2>2, EndImplements
<1>4. ASSUME NEW w \in Workers, Call(w) PROVE [Contract!Next]_(Contract!contract)
  <2>1. CASE Claim(w) \/ PrepareAttempt(w) \/ EnsureBinding(w) \/ JournalMayStart(w)
    BY <1>1, <2>1 DEF Claim, PrepareAttempt, EnsureBinding, JournalMayStart, engine
  <2>2. CASE CopySource(w) \/ Assemble(w) \/ InitWorkspace(w) \/ SavePlan(w) \/ InspectPlan(w)
    BY <1>1, <2>2 DEF CopySource, Assemble, InitWorkspace, SavePlan, InspectPlan, engine
  <2>3. CASE JournalOutcomeUnknown(w) \/ JournalExited(w)
    BY <1>1, <2>3 DEF JournalOutcomeUnknown, JournalExited, engine
  <2>4. CASE LoadAttempt(w) \/ LoadStateBinding(w) \/ VerifyConvergence(w) \/ ReadOutputs(w)
    BY <1>1, <2>4 DEF LoadAttempt, LoadStateBinding, VerifyConvergence, ReadOutputs, engine
  <2>5. CASE PullState(w) \/ UpdateState(w) \/ NoteMissedExit(w) \/ JournalConverged(w)
    BY <1>1, <2>5 DEF PullState, UpdateState, NoteMissedExit, JournalConverged, engine
  <2>6. CASE Record(w) \/ StartApply(w) \/ ApplyReturns(w)
    BY <2>6, RecordImplements, StartImplements, ReturnImplements
  <2>7. QED
    BY <1>4, <2>1, <2>2, <2>3, <2>4, <2>5, <2>6 DEF Call
<1>5. CASE \/ \E w \in Workers : Crash(w)
           \/ NextOperation \/ Disturb \/ EditSource \/ ScanOrphans \/ LeaseExpires \/ UNCHANGED vars
  BY <1>1, <1>5 DEF Crash, NextOperation, Disturb, EditSource, ScanOrphans, LeaseExpires, vars, engine
<1>6. QED
  BY <1>2, <1>3, <1>4, <1>5 DEF Next, Process

\* The OpenTofu provisioner keeps the provisioner contract: an operation's
\* apply is started at most once and never after a conclusive answer, a
\* rejected one never applies and a successful one was applied in full,
\* whatever is redelivered, crashes, expires or is rolled back (SubmitFenced,
\* ObserveFenced, AdvanceAttempt).
THEOREM ContractKept == Spec => ImplementsContract
<1>1. Init => Contract!Init
  BY DEF Init, Contract!Init, Work
<1>2. OInv /\ OInv' /\ [Next]_vars => [Contract!Next]_(Contract!contract)
  BY StepImplements
<1>3. QED
  BY <1>1, <1>2, Invariant, PTL DEF Spec, ImplementsContract, Contract!Spec

=============================================================================
