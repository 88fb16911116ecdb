---------------------------- MODULE PulumiProofs ----------------------------
(***************************************************************************)
(* Proofs about Pulumi for any number of servers, operations, pages and    *)
(* faults: calls are isolated from each other, and the provisioner         *)
(* implements ProvisionerContract although it keeps no journal.            *)
(*                                                                         *)
(* The argument: the worker hands out the dispatch of an operation once,   *)
(* so at most one call may start its update (DispatchesAgree, OneDispatch) *)
(* and a submission that was refused before the update leaves nobody who   *)
(* could still start it (RefusedForGood).  The history of the stack says   *)
(* of an operation only what its update did (HistoryTrue), and every       *)
(* answer is read off it (AnswersTrue, VerdictsTrue).                      *)
(***************************************************************************)
EXTENDS Pulumi, SequenceTheorems, FiniteSetTheorems, WellFoundedInduction, TLAPS

\* The call is a submission in progress.
Submits(w) == ~At(w, "idle") /\ worker[w].kind = "Dispatch"

\* The update of the submission has not been started yet.
BeforeLaunch(w) ==
  Submits(w) /\ worker[w].step \in {"mkdir", "lock", "preflight", "select", "launch"}

\* The workspace directory follows the steps of its call.
SpacesAgree ==
  \A w \in Workers :
    /\ worker[w].step \in {"mkdir", "answer"} => space[w] = "None"
    /\ worker[w].step = "lock" => space[w] = "Made"
    /\ worker[w].step = "idle" => space[w] \in {"None", "Left"}
    /\ worker[w].step \notin {"idle", "mkdir", "lock", "answer"} => space[w] = "Locked"
    /\ space[w] \in {"None", "Made"} => w \notin aged

\* Only a call that has ended carries outputs; only submissions run an update.
CallsAgree ==
  \A w \in Workers :
    /\ ~At(w, "answer") => worker[w].outputs = "None"
    /\ worker[w].step \in {"launch", "run", "summary"} => worker[w].kind = "Dispatch"
    /\ ~At(w, "idle") => worker[w].op \in 1..current

\* A conclusive answer closes the message and nothing has come after it.
MessagesAgree ==
  /\ message.open => verdict[current] = "None"
  /\ \A o \in Ops : o > current => verdict[o] = "None" /\ process[o] = "None"

\* A dispatch that nobody was handed has not started anything, and one that
\* was handed to a worker was handed to nobody else.
DispatchesAgree ==
  message.open /\ message.kind = "Dispatch" =>
    /\ message.holder = NoWorker =>
         /\ ~message.live
         /\ process[current] = "None"
    /\ \A w \in Workers : Submits(w) /\ worker[w].op = current => w = message.holder

\* At most one call submits an operation, and its update starts at its launch.
OneDispatch ==
  \A w \in Workers :
    /\ \A v \in Workers : Submits(v) /\ Submits(w) /\ worker[v].op = worker[w].op => v = w
    /\ BeforeLaunch(w) => process[worker[w].op] = "None"

\* An entry of the history tells how the update of its operation ended.
HistoryTrue ==
  \A i \in 1..Len(stack.history) :
    stack.history[i].op # 0 =>
      process[stack.history[i].op] =
        IF stack.history[i].result = "succeeded" THEN "Succeeded" ELSE "Failed"

\* A call that ends with a conclusive answer has it from a preflight before the
\* launch or from the history.
AnswersTrue ==
  \A w \in Workers :
    /\ At(w, "outputs") => process[worker[w].op] = "Succeeded"
    /\ At(w, "answer") =>
         /\ worker[w].answer = "Rejected" => Submits(w) /\ process[worker[w].op] = "None"
         /\ worker[w].answer \in {"Succeeded", "Failed"} => process[worker[w].op] = worker[w].answer

\* What was recorded is how the update ended.
VerdictsTrue ==
  \A o \in Ops : verdict[o] \in {"Succeeded", "Failed"} => process[o] = verdict[o]

\* A rejected operation never started, and no call is left that could start it.
RefusedForGood ==
  \A o \in Ops :
    verdict[o] = "Rejected" =>
      /\ process[o] = "None"
      /\ \A w \in Workers : ~(Submits(w) /\ worker[w].op = o)

IInv ==
  /\ TypeOK
  /\ SpacesAgree
  /\ CallsAgree
  /\ MessagesAgree
  /\ DispatchesAgree
  /\ OneDispatch
  /\ HistoryTrue
  /\ AnswersTrue
  /\ VerdictsTrue
  /\ RefusedForGood
  /\ OutputsBelong

-----------------------------------------------------------------------------
(* Naturals and sequences. *)

\* Every non-empty set of naturals has a least member, here the newest matching
\* entry that run takes from the history.
LEMMA LeastNatural ==
  ASSUME NEW T, T \subseteq Nat, T # {}
  PROVE  \E x \in T : \A y \in T : x <= y
<1> SUFFICES ASSUME NEW R, IsWellFoundedOn(R, Nat), \A x, y \in Nat : x < y => <<x, y>> \in R
             PROVE  \E x \in T : \A y \in T : x <= y
  <2> DEFINE L == OpToRel(<, Nat)
  <2>1. IsWellFoundedOn(L, Nat)
    BY NatLessThanWellFounded, Zenon
  <2>2. \A x, y \in Nat : x < y => <<x, y>> \in L
    BY DEF OpToRel
  <2> HIDE DEF L
  <2>3. QED
    BY <2>1, <2>2, Zenon
<1>1. \E x \in T : \A y \in T : ~ (<<y, x>> \in R)
  <2>1. IsWellFoundedOn(R, Nat) /\ T \subseteq Nat /\ T # {}
    OBVIOUS
  <2>2. QED
    BY ONLY <2>1, WFMin
<1>2. PICK x \in T : \A y \in T : ~ (<<y, x>> \in R)
  BY <1>1
<1>3. ASSUME NEW y \in T PROVE x <= y
  <2>1. y \in Nat /\ x \in Nat
    OBVIOUS
  <2>2. ~ (y < x)
    BY <1>2, <2>1, Zenon
  <2>3. QED
    BY <2>1, <2>2
<1>4. QED
  BY <1>3

\* An entry put in front of the history (the newest one comes first) moves the
\* others back by one.
LEMMA PutInFront ==
  ASSUME NEW e \in Entries, NEW s \in Seq(Entries)
  PROVE  /\ <<e>> \o s \in Seq(Entries)
         /\ Len(<<e>> \o s) = Len(s) + 1
         /\ (<<e>> \o s)[1] = e
         /\ \A i \in 2..(Len(s) + 1) : (<<e>> \o s)[i] = s[i - 1]
<1>1. <<e>> \in Seq(Entries) /\ Len(<<e>>) = 1 /\ <<e>>[1] = e
  OBVIOUS
<1>2. /\ <<e>> \o s \in Seq(Entries) /\ Len(<<e>> \o s) = 1 + Len(s)
      /\ \A i \in 1..(1 + Len(s)) : (<<e>> \o s)[i] = IF i <= 1 THEN <<e>>[i] ELSE s[i - 1]
  BY <1>1, ConcatProperties
<1>3. QED
  BY <1>1, <1>2

\* What an observation reads (one to MaxPages pages) is the front of the
\* history.
LEMMA NewestEntries ==
  ASSUME NEW n \in Nat, stack.history \in Seq(Entries)
  PROVE  /\ DOMAIN Newest(n) \subseteq 1..Len(stack.history)
         /\ \A i \in DOMAIN Newest(n) : Newest(n)[i] = stack.history[i]
<1> DEFINE k == IF Len(stack.history) < n THEN Len(stack.history) ELSE n
<1>1. k \in Nat /\ k <= Len(stack.history)
  OBVIOUS
<1>2. Newest(n) = SubSeq(stack.history, 1, k)
  BY DEF Newest
<1> HIDE DEF k
<1>3. \A i \in 1..k : stack.history[i] \in Entries
  BY <1>1
<1>4. /\ SubSeq(stack.history, 1, k) \in Seq(Entries)
      /\ Len(SubSeq(stack.history, 1, k)) = k
      /\ \A i \in 1..k : SubSeq(stack.history, 1, k)[i] = stack.history[i]
  <2>1. /\ SubSeq(stack.history, 1, k) \in Seq(Entries)
        /\ Len(SubSeq(stack.history, 1, k)) = IF 1 <= k THEN k - 1 + 1 ELSE 0
        /\ \A i \in 1..(k - 1 + 1) : SubSeq(stack.history, 1, k)[i] = stack.history[1 + i - 1]
    BY <1>1, <1>3, SubSeqProperties
  <2>2. QED
    BY <1>1, <2>1
<1>5. QED
  BY <1>1, <1>2, <1>4


-----------------------------------------------------------------------------
(* Steps that hand out no dispatch, start no update and record nothing. *)

AnswerTrue(w) ==
  /\ At(w, "outputs") => process[worker[w].op] = "Succeeded"
  /\ At(w, "answer") =>
       /\ worker[w].answer = "Rejected" => Submits(w) /\ process[worker[w].op] = "None"
       /\ worker[w].answer \in {"Succeeded", "Failed"} => process[worker[w].op] = worker[w].answer

OutputsBelongTo(w) ==
  At(w, "answer") /\ worker[w].answer = "Succeeded" /\ worker[w].outputs = "Available" =>
    /\ worker[w].producer # 0
    /\ Generation[worker[w].producer] = Generation[worker[w].op]

\* A call is left alone, ends, or goes on for the same message.
CallContinues(w) ==
  \/ worker'[w] = worker[w]
  \/ worker'[w].step = "idle" /\ worker'[w].outputs = "None"
  \/ /\ worker[w].step # "idle" /\ worker'[w].step # "idle"
     /\ worker'[w].kind = worker[w].kind /\ worker'[w].op = worker[w].op
     /\ worker'[w].step # "answer" => worker'[w].outputs = "None"
     /\ worker'[w].step \in {"launch", "run", "summary"} => worker[w].kind = "Dispatch"
     /\ BeforeLaunch(w)' => BeforeLaunch(w)
     /\ AnswerTrue(w)' /\ OutputsBelongTo(w)'

\* A message is kept, expires, is closed or becomes an observation.
MessageContinues ==
  /\ message'.open => message.open
  /\ message'.open /\ message'.kind = "Dispatch" =>
       message.kind = "Dispatch" /\ message'.holder = message.holder /\ (message'.live => message.live)

\* Processes only end.
ProcessesContinue ==
  \A o \in Ops : process'[o] = process[o] \/ (process[o] = "Running" /\ process'[o] # "None")

\* Whatever was true of the operations stays true when calls go on or end,
\* leases expire and processes end (the steps of Submit and Observe between
\* the claim, the launch and the record).
LEMMA ContinuesStep ==
  ASSUME IInv, TypeOK', SpacesAgree', HistoryTrue',
         current' = current, verdict' = verdict,
         MessageContinues, ProcessesContinue,
         \A w \in Workers : CallContinues(w)
  PROVE  IInv'
<1> USE DEF IInv
<1>1. \A w \in Workers : Submits(w)' => Submits(w) /\ worker'[w].op = worker[w].op
  BY DEF CallContinues, Submits, At
<1>2. \A w \in Workers : BeforeLaunch(w)' => BeforeLaunch(w)
  BY DEF CallContinues, BeforeLaunch, Submits, At
<1>3. \A w \in Workers : worker[w].step # "idle" => worker[w].op \in Ops
  BY PulumiAssumption DEF CallsAgree, TypeOK, At, Ops
<1>4. CallsAgree'
  <2> SUFFICES ASSUME NEW w \in Workers
               PROVE  /\ worker'[w].step # "answer" => worker'[w].outputs = "None"
                      /\ worker'[w].step \in {"launch", "run", "summary"} => worker'[w].kind = "Dispatch"
                      /\ worker'[w].step # "idle" => worker'[w].op \in 1..current
    BY DEF CallsAgree, At
  <2>1. /\ worker[w].step # "answer" => worker[w].outputs = "None"
        /\ worker[w].step \in {"launch", "run", "summary"} => worker[w].kind = "Dispatch"
        /\ worker[w].step # "idle" => worker[w].op \in 1..current
    BY DEF CallsAgree, At
  <2>2. QED
    BY <2>1 DEF CallContinues
<1>5. MessagesAgree'
  BY DEF MessagesAgree, MessageContinues, ProcessesContinue, TypeOK
<1>6. DispatchesAgree'
  <2>1. process[current] = "None" => process'[current] = "None"
    BY DEF TypeOK, ProcessesContinue
  <2>2. QED
    BY <1>1, <2>1 DEF DispatchesAgree, MessageContinues
<1>7. OneDispatch'
  <2> SUFFICES ASSUME NEW w \in Workers
               PROVE  /\ \A v \in Workers :
                           Submits(v)' /\ Submits(w)' /\ worker'[v].op = worker'[w].op => v = w
                      /\ BeforeLaunch(w)' => process'[worker'[w].op] = "None"
    BY DEF OneDispatch
  <2>1. ASSUME NEW v \in Workers, Submits(v)', Submits(w)', worker'[v].op = worker'[w].op
        PROVE  v = w
    BY <1>1, <2>1 DEF OneDispatch
  <2>2. ASSUME BeforeLaunch(w)' PROVE process'[worker'[w].op] = "None"
    <3>1. BeforeLaunch(w) /\ worker'[w].op = worker[w].op /\ worker[w].op \in Ops
      BY <1>1, <1>2, <1>3, <2>2 DEF BeforeLaunch, Submits, At
    <3>2. QED
      BY <3>1 DEF OneDispatch, ProcessesContinue
  <2>3. QED
    BY <2>1, <2>2
<1>8. AnswersTrue' /\ OutputsBelong'
  <2>1. ASSUME NEW w \in Workers PROVE AnswerTrue(w)' /\ OutputsBelongTo(w)'
    <3>1. CASE worker'[w] = worker[w]
      <4>1. AnswerTrue(w) /\ OutputsBelongTo(w)
        BY DEF AnswersTrue, AnswerTrue, OutputsBelong, OutputsBelongTo
      <4>2. worker[w].step # "idle" =>
              \/ process'[worker[w].op] = process[worker[w].op]
              \/ process[worker[w].op] = "Running"
        BY <1>3 DEF ProcessesContinue
      <4>3. QED
        BY <3>1, <4>1, <4>2 DEF AnswerTrue, OutputsBelongTo, At, Submits
    <3>2. CASE worker'[w] # worker[w]
      BY <3>2 DEF CallContinues, AnswerTrue, OutputsBelongTo, At
    <3>3. QED
      BY <3>1, <3>2
  <2>2. QED
    BY <2>1 DEF AnswersTrue, AnswerTrue, OutputsBelong, OutputsBelongTo
<1>9. VerdictsTrue'
  BY DEF VerdictsTrue, ProcessesContinue
<1>10. RefusedForGood'
  BY <1>1 DEF RefusedForGood, ProcessesContinue
<1>11. QED
  BY <1>4, <1>5, <1>6, <1>7, <1>8, <1>9, <1>10


-----------------------------------------------------------------------------
(* The steps of a call. *)

\* A step of one call for the same message: the others are left alone.
Advance(w) ==
  /\ \A v \in Workers \ {w} : worker'[v] = worker[v]
  /\ CallContinues(w)

\* The history and what it tells stay as they are when an update does not end.
LEMMA HistoryStays ==
  ASSUME IInv, TypeOK', stack'.history = stack.history, ProcessesContinue
  PROVE  HistoryTrue'
<1> USE DEF IInv
<1> SUFFICES ASSUME NEW i \in 1..Len(stack.history), stack.history[i].op # 0
             PROVE  process'[stack.history[i].op] =
                      IF stack.history[i].result = "succeeded" THEN "Succeeded" ELSE "Failed"
  BY DEF HistoryTrue
<1>1. stack.history[i] \in Entries
  BY DEF TypeOK, Stacks
<1>2. stack.history[i].op \in Ops
  BY <1>1, PulumiAssumption DEF Entries, Ops
<1>3. QED
  BY <1>2 DEF HistoryTrue, ProcessesContinue

\* A step of a call that leaves message, verdicts and history alone and keeps
\* its workspace as its step needs it preserves the invariant.
LEMMA AdvanceStep ==
  ASSUME IInv, NEW w \in Workers, Advance(w), TypeOK',
         current' = current, message' = message, verdict' = verdict,
         stack'.history = stack.history, ProcessesContinue,
         \A v \in Workers \ {w} : space'[v] = space[v] /\ (v \in aged' <=> v \in aged),
         /\ worker'[w].step \in {"mkdir", "answer"} => space'[w] = "None"
         /\ worker'[w].step = "lock" => space'[w] = "Made"
         /\ worker'[w].step = "idle" => space'[w] \in {"None", "Left"}
         /\ worker'[w].step \notin {"idle", "mkdir", "lock", "answer"} => space'[w] = "Locked"
         /\ space'[w] \in {"None", "Made"} => w \notin aged'
  PROVE  IInv'
<1>1. SpacesAgree'
  BY DEF IInv, SpacesAgree, Advance
<1>2. HistoryTrue'
  BY HistoryStays
<1>3. MessageContinues
  BY DEF MessageContinues
<1>4. \A v \in Workers : CallContinues(v)
  BY DEF Advance, CallContinues
<1>5. QED
  BY <1>1, <1>2, <1>3, <1>4, ContinuesStep

\* MakeWorkspace: the directory is new.
LEMMA MakeWorkspaceStep ==
  ASSUME IInv, NEW w \in Workers, MakeWorkspace(w) PROVE IInv'
<1> USE DEF IInv
<1>1. /\ worker[w].step = "mkdir" /\ space' = [space EXCEPT ![w] = "Made"]
      /\ worker' = [worker EXCEPT ![w].step = "lock"] /\ aged' = aged
      /\ current' = current /\ message' = message /\ verdict' = verdict /\ stack' = stack
      /\ process' = process /\ launches' = launches /\ faults' = faults
  BY DEF MakeWorkspace, At, Goto
<1>2. /\ worker' \in [Workers -> Calls] /\ space' \in [Workers -> WorkspaceStates]
      /\ worker'[w].step = "lock" /\ worker'[w].kind = worker[w].kind /\ worker'[w].op = worker[w].op
      /\ worker'[w].outputs = worker[w].outputs /\ space'[w] = "Made"
      /\ \A v \in Workers \ {w} : worker'[v] = worker[v] /\ space'[v] = space[v]
  BY <1>1 DEF TypeOK, Calls, Steps, WorkspaceStates
<1>3. TypeOK'
  BY <1>1, <1>2 DEF TypeOK
<1>4. Advance(w)
  BY <1>1, <1>2 DEF Advance, CallContinues, CallsAgree, BeforeLaunch, Submits, At, AnswerTrue,
                    OutputsBelongTo
<1>5. w \notin aged
  BY <1>1 DEF SpacesAgree
<1>6. ProcessesContinue
  BY <1>1 DEF ProcessesContinue
<1>7. QED
  BY <1>1, <1>2, <1>3, <1>4, <1>5, <1>6, AdvanceStep


\* LockWorkspace: what was made is locked.
LEMMA LockWorkspaceStep ==
  ASSUME IInv, NEW w \in Workers, LockWorkspace(w) PROVE IInv'
<1> USE DEF IInv
<1>1. /\ worker[w].step = "lock" /\ space' = [space EXCEPT ![w] = "Locked"]
      /\ worker' = [worker EXCEPT ![w].step = "preflight"] /\ aged' = aged
      /\ current' = current /\ message' = message /\ verdict' = verdict /\ stack' = stack
      /\ process' = process /\ launches' = launches /\ faults' = faults
  BY DEF LockWorkspace, At, Goto
<1>2. /\ worker' \in [Workers -> Calls] /\ space' \in [Workers -> WorkspaceStates]
      /\ worker'[w].step = "preflight" /\ worker'[w].kind = worker[w].kind
      /\ worker'[w].op = worker[w].op
      /\ worker'[w].outputs = worker[w].outputs /\ space'[w] = "Locked"
      /\ \A v \in Workers \ {w} : worker'[v] = worker[v] /\ space'[v] = space[v]
  BY <1>1 DEF TypeOK, Calls, Steps, WorkspaceStates
<1>3. TypeOK'
  BY <1>1, <1>2 DEF TypeOK
<1>4. Advance(w)
  BY <1>1, <1>2 DEF Advance, CallContinues, CallsAgree, BeforeLaunch, Submits, At, AnswerTrue,
                    OutputsBelongTo
<1>5. ProcessesContinue
  BY <1>1 DEF ProcessesContinue
<1>6. QED
  BY <1>1, <1>2, <1>3, <1>4, <1>5, AdvanceStep

InWorkspace == {"preflight", "select", "launch", "run", "summary", "observe", "outputs"}

\* A call goes on inside its workspace.
LEMMA GotoStep ==
  ASSUME IInv, NEW w \in Workers, NEW s \in InWorkspace, Goto(w, s),
         worker[w].step \in InWorkspace,
         s \in {"launch", "run", "summary"} => worker[w].kind = "Dispatch",
         s \in {"preflight", "select", "launch"} =>
           worker[w].step \in {"preflight", "select", "launch"},
         s = "outputs" => process'[worker[w].op] = "Succeeded",
         UNCHANGED <<current, message, verdict, launches, directories>>,
         stack' \in Stacks, stack'.history = stack.history,
         process' \in [Ops -> ProcessStates], ProcessesContinue,
         faults' \in 0..MaxFaults
  PROVE  IInv'
<1> USE DEF IInv, InWorkspace
<1>1. /\ worker' = [worker EXCEPT ![w].step = s] /\ space' = space /\ aged' = aged
      /\ current' = current /\ message' = message /\ verdict' = verdict /\ launches' = launches
  BY DEF Goto, directories
<1>2. /\ worker' \in [Workers -> Calls]
      /\ worker'[w].step = s /\ worker'[w].kind = worker[w].kind /\ worker'[w].op = worker[w].op
      /\ worker'[w].outputs = worker[w].outputs
      /\ \A v \in Workers \ {w} : worker'[v] = worker[v] /\ space'[v] = space[v]
  BY <1>1 DEF TypeOK, Calls, Steps
<1>3. TypeOK'
  BY <1>1, <1>2 DEF TypeOK
<1>4. Advance(w)
  <2>1. worker[w].outputs = "None"
    BY DEF CallsAgree, At
  <2>2. BeforeLaunch(w)' => BeforeLaunch(w)
    BY <1>2 DEF BeforeLaunch, Submits, At
  <2>3. AnswerTrue(w)' /\ OutputsBelongTo(w)'
    BY <1>2 DEF AnswerTrue, OutputsBelongTo, At
  <2>4. QED
    BY <1>2, <2>1, <2>2, <2>3 DEF Advance, CallContinues
<1>5. space[w] = "Locked"
  BY DEF SpacesAgree
<1>6. QED
  BY <1>1, <1>2, <1>3, <1>4, <1>5, AdvanceStep

\* A call returns: its answer is unknown, a rejection before the launch, or
\* what is known of its update.
LEMMA ReturnStep ==
  ASSUME IInv, NEW w \in Workers, NEW answer \in Answers, Return(w, answer),
         worker[w].step \in InWorkspace,
         answer = "Rejected" => BeforeLaunch(w),
         answer \in {"Succeeded", "Failed"} => process[worker[w].op] = answer,
         UNCHANGED <<current, message, verdict, stack, process, launches>>,
         faults' \in 0..MaxFaults
  PROVE  IInv'
<1> USE DEF IInv, InWorkspace
<1>1. /\ worker' = [worker EXCEPT ![w].step = "answer", ![w].answer = answer]
      /\ space' = [space EXCEPT ![w] = "None"] /\ aged' = aged \ {w}
      /\ current' = current /\ message' = message /\ verdict' = verdict /\ stack' = stack
      /\ process' = process /\ launches' = launches
  BY DEF Return
<1>2. /\ worker' \in [Workers -> Calls] /\ space' \in [Workers -> WorkspaceStates]
      /\ worker'[w].step = "answer" /\ worker'[w].answer = answer
      /\ worker'[w].kind = worker[w].kind /\ worker'[w].op = worker[w].op
      /\ worker'[w].outputs = worker[w].outputs /\ space'[w] = "None"
      /\ \A v \in Workers \ {w} : worker'[v] = worker[v] /\ space'[v] = space[v]
  <2>1. worker \in [Workers -> Calls] /\ "answer" \in Steps
    BY DEF TypeOK, Steps
  <2>2. /\ worker' \in [Workers -> Calls]
        /\ worker'[w].step = "answer" /\ worker'[w].answer = answer
        /\ worker'[w].kind = worker[w].kind /\ worker'[w].op = worker[w].op
        /\ worker'[w].outputs = worker[w].outputs
        /\ \A v \in Workers \ {w} : worker'[v] = worker[v]
    BY <1>1, <2>1 DEF Calls
  <2>3. /\ space' \in [Workers -> WorkspaceStates] /\ space'[w] = "None"
        /\ \A v \in Workers \ {w} : space'[v] = space[v]
    BY <1>1 DEF TypeOK, WorkspaceStates
  <2>4. QED
    BY <2>2, <2>3
<1>3. TypeOK'
  BY <1>1, <1>2 DEF TypeOK
<1>4. Advance(w)
  <2>1. worker[w].outputs = "None"
    BY DEF CallsAgree, At
  <2>2. answer = "Rejected" => worker[w].kind = "Dispatch" /\ process[worker[w].op] = "None"
    BY DEF BeforeLaunch, Submits, OneDispatch
  <2>3. AnswerTrue(w)' /\ OutputsBelongTo(w)' /\ ~BeforeLaunch(w)'
    BY <1>1, <1>2, <2>1, <2>2 DEF AnswerTrue, OutputsBelongTo, At, Submits, BeforeLaunch
  <2>4. QED
    BY <1>2, <2>1, <2>3 DEF Advance, CallContinues
<1>5. ProcessesContinue
  BY <1>1 DEF ProcessesContinue
<1>6. QED
  BY <1>1, <1>2, <1>3, <1>4, <1>5, AdvanceStep

\* Refuse is a rejection only of a submission whose update has not started.
LEMMA RefuseStep ==
  ASSUME IInv, NEW w \in Workers, Refuse(w), worker[w].step \in {"preflight", "select"},
         UNCHANGED <<current, message, verdict, stack, process, launches>>,
         faults' \in 0..MaxFaults
  PROVE  IInv'
<1> DEFINE answer == IF worker[w].kind = "Dispatch" THEN "Rejected" ELSE "Unknown"
<1>1. answer \in Answers /\ Return(w, answer)
  BY DEF Refuse, Answers
<1>2. answer = "Rejected" => BeforeLaunch(w)
  BY DEF BeforeLaunch, Submits, At
<1>3. answer \notin {"Succeeded", "Failed"} /\ worker[w].step \in InWorkspace
  BY DEF InWorkspace
<1> HIDE DEF answer
<1>4. QED
  BY <1>1, <1>2, <1>3, ReturnStep


\* Faults are counted up to their bound.
LEMMA FaultBound ==
  ASSUME TypeOK, Fault \/ UNCHANGED faults PROVE faults' \in 0..MaxFaults
BY PulumiAssumption DEF TypeOK, Fault

\* The calls to the automation API that only read leave the processes alone.
LEMMA SameProcesses ==
  ASSUME TypeOK, process' = process
  PROVE  process' \in [Ops -> ProcessStates] /\ ProcessesContinue
BY DEF TypeOK, ProcessesContinue

\* Preflight goes on, or refuses before the update.
LEMMA PreflightStep ==
  ASSUME IInv, NEW w \in Workers, Preflight(w) PROVE IInv'
<1>1. worker[w].step = "preflight" /\ UNCHANGED <<current, message, verdict, stack, process, launches>>
  BY DEF Preflight, At
<1>2. TypeOK /\ stack' \in Stacks /\ stack'.history = stack.history /\ process' = process
  BY <1>1 DEF IInv, TypeOK
<1>3. CASE Goto(w, "select") /\ UNCHANGED <<directories, faults>>
  <2>1. faults' \in 0..MaxFaults
    BY <1>2, <1>3, FaultBound
  <2>2. QED
    BY <1>1, <1>2, <1>3, <2>1, SameProcesses, GotoStep DEF InWorkspace
<1>4. CASE Fault /\ Refuse(w)
  BY <1>1, <1>2, <1>4, FaultBound, RefuseStep
<1>5. QED
  BY <1>3, <1>4 DEF Preflight

\* Selecting or creating the stack leaves its history alone.
LEMMA SelectStackStep ==
  ASSUME IInv, NEW w \in Workers, SelectStack(w) PROVE IInv'
<1> DEFINE creates == worker[w].kind = "Dispatch" /\ Creates(w)
           s == IF worker[w].kind = "Dispatch" THEN "launch" ELSE "observe"
<1>1. worker[w].step = "select" /\ UNCHANGED <<current, message, verdict, process, launches>>
  BY DEF SelectStack, At
<1>2. TypeOK /\ stack \in Stacks
  BY DEF IInv, TypeOK
<1>3. CASE /\ stack.exists \/ creates
           /\ stack' = [stack EXCEPT !.exists = TRUE]
           /\ Goto(w, s)
           /\ UNCHANGED <<directories, faults>>
  <2>1. faults' \in 0..MaxFaults
    BY <1>2, <1>3, FaultBound
  <2>2. stack' \in Stacks /\ stack'.history = stack.history
    BY <1>2, <1>3 DEF Stacks
  <2>3. s \in InWorkspace /\ (s = "launch" => worker[w].kind = "Dispatch") /\ s \in {"launch", "observe"}
    BY DEF InWorkspace
  <2> HIDE DEF s
  <2>4. QED
    BY <1>1, <1>2, <1>3, <2>1, <2>2, <2>3, SameProcesses, GotoStep DEF InWorkspace
<1>4. CASE Refuse(w) /\ (Fault \/ UNCHANGED faults) /\ UNCHANGED stack
  BY <1>1, <1>2, <1>4, FaultBound, RefuseStep
<1>5. QED
  BY <1>3, <1>4 DEF SelectStack

\* The command returns or is given up; a process that was still running is
\* lost.
LEMMA CommandReturnsStep ==
  ASSUME IInv, NEW w \in Workers, CommandReturns(w) PROVE IInv'
<1> DEFINE o == worker[w].op
<1>1. /\ worker[w].step = "run" /\ UNCHANGED <<current, message, verdict, stack, launches, directories>>
      /\ TypeOK /\ stack' \in Stacks /\ stack'.history = stack.history
  BY DEF CommandReturns, At, IInv, TypeOK
<1>2. worker[w].kind = "Dispatch" /\ worker[w].step \in InWorkspace
  BY <1>1 DEF IInv, CallsAgree, InWorkspace
<1>3. CASE Goto(w, "summary") /\ UNCHANGED <<process, faults>>
  <2>1. faults' \in 0..MaxFaults
    BY <1>1, <1>3, FaultBound
  <2>2. QED
    BY <1>1, <1>2, <1>3, <2>1, SameProcesses, GotoStep DEF InWorkspace
<1>4. CASE Goto(w, "observe") /\ UNCHANGED <<process, faults>>
  <2>1. faults' \in 0..MaxFaults
    BY <1>1, <1>4, FaultBound
  <2>2. QED
    BY <1>1, <1>2, <1>4, <2>1, SameProcesses, GotoStep DEF InWorkspace
<1>5. CASE /\ Fault /\ Goto(w, "observe")
           /\ process' = [process EXCEPT ![o] = IF @ = "Running" THEN "Lost" ELSE @]
  <2>1. faults' \in 0..MaxFaults
    BY <1>1, <1>5, FaultBound
  <2>2. process' \in [Ops -> ProcessStates] /\ ProcessesContinue
    BY <1>1, <1>5 DEF TypeOK, ProcessStates, ProcessesContinue
  <2>3. QED
    BY <1>1, <1>2, <1>5, <2>1, <2>2, GotoStep DEF InWorkspace
<1>6. QED
  BY <1>3, <1>4, <1>5 DEF CommandReturns

\* An entry of an operation tells how its update ended.
LEMMA EntryTrue ==
  ASSUME IInv, NEW w \in Workers, ~At(w, "idle"),
         NEW i \in 1..Len(stack.history), stack.history[i].op = worker[w].op
  PROVE  /\ FromSummary(stack.history[i]) \in {"Succeeded", "Failed"}
         /\ process[worker[w].op] = FromSummary(stack.history[i])
<1>1. worker[w].op # 0
  BY DEF IInv, CallsAgree
<1>2. QED
  BY <1>1 DEF IInv, HistoryTrue, FromSummary

\* observeStack finds out nothing, or how the operation's update ended.
LEMMA ObservedTrue ==
  ASSUME IInv, NEW w \in Workers, ~At(w, "idle")
  PROVE  /\ Observed(worker[w].op) \in {"Unknown", "Succeeded", "Failed"}
         /\ Observed(worker[w].op) # "Unknown" => process[worker[w].op] = Observed(worker[w].op)
<1> DEFINE n == PageSize * MaxPages
           hits == Matches(Newest(n), worker[w].op)
           i == CHOOSE k \in hits : TRUE
<1>1. n \in Nat /\ stack.history \in Seq(Entries)
  BY PulumiAssumption DEF IInv, TypeOK, Stacks
<1>2. CASE Len(stack.history) >= n \/ Cardinality(hits) # 1
  BY <1>2 DEF Observed
<1>3. CASE ~(Len(stack.history) >= n \/ Cardinality(hits) # 1)
  <2>1. Observed(worker[w].op) = FromSummary(stack.history[i])
    BY <1>3 DEF Observed
  <2>2. hits # {}
    <3>1. Cardinality(hits) = 1
      BY <1>3
    <3> HIDE DEF hits
    <3>2. QED
      BY <3>1, FS_EmptySet
  <2>3. i \in hits
    BY <2>2
  <2> HIDE DEF i, n
  <2>4. i \in 1..Len(stack.history) /\ stack.history[i].op = worker[w].op
    BY <1>1, <2>3, NewestEntries DEF Matches
  <2>5. QED
    BY <2>1, <2>4, EntryTrue
<1>4. QED
  BY <1>2, <1>3


\* What observeStack found ends the call, or is followed by its outputs.
LEMMA ConcludeStep ==
  ASSUME IInv, NEW w \in Workers, NEW found \in {"Unknown", "Succeeded", "Failed"},
         Conclude(w, found),
         worker[w].step \in {"summary", "observe"},
         found # "Unknown" => process[worker[w].op] = found,
         UNCHANGED <<current, message, verdict, stack, process, launches, faults>>
  PROVE  IInv'
<1>1. TypeOK /\ stack' \in Stacks /\ stack'.history = stack.history /\ process' = process
  BY DEF IInv, TypeOK
<1>2. faults' \in 0..MaxFaults
  BY <1>1, FaultBound
<1>3. CASE found = "Succeeded"
  <2>1. Goto(w, "outputs") /\ UNCHANGED directories
    BY <1>3 DEF Conclude
  <2>2. QED
    BY <1>1, <1>2, <1>3, <2>1, SameProcesses, GotoStep DEF InWorkspace
<1>4. CASE found # "Succeeded"
  <2>1. Return(w, found) /\ found \in Answers /\ worker[w].step \in InWorkspace
    BY <1>4 DEF Conclude, Answers, InWorkspace
  <2>2. QED
    BY <1>1, <1>2, <1>4, <2>1, ReturnStep
<1>5. QED
  BY <1>3, <1>4

\* observeStack.
LEMMA ObserveStackStep ==
  ASSUME IInv, NEW w \in Workers, ObserveStack(w) PROVE IInv'
<1>1. worker[w].step = "observe" /\ UNCHANGED <<current, message, verdict, stack, process, launches>>
  BY DEF ObserveStack, At
<1>2. CASE Conclude(w, Observed(worker[w].op)) /\ UNCHANGED faults
  <2>1. ~At(w, "idle")
    BY <1>1 DEF At
  <2>2. QED
    BY <1>1, <1>2, <2>1, ObservedTrue, ConcludeStep
<1>3. CASE Fault /\ Return(w, "Unknown")
  <2>1. faults' \in 0..MaxFaults /\ "Unknown" \in Answers /\ worker[w].step \in InWorkspace
    BY <1>1, <1>3, FaultBound DEF IInv, Answers, InWorkspace
  <2>2. QED
    BY <1>1, <1>3, <2>1, ReturnStep
<1>4. QED
  BY <1>2, <1>3 DEF ObserveStack

\* run, after a command that succeeded.
LEMMA ReadSummaryStep ==
  ASSUME IInv, NEW w \in Workers, ReadSummary(w) PROVE IInv'
<1> DEFINE seen == Newest(10)
           hits == Matches(seen, worker[w].op)
           i == CHOOSE k \in hits : \A j \in hits : k <= j
<1>1. /\ worker[w].step = "summary" /\ UNCHANGED <<current, message, verdict, stack, process, launches>>
      /\ TypeOK /\ stack' \in Stacks /\ stack'.history = stack.history /\ process' = process
      /\ stack.history \in Seq(Entries)
  BY DEF ReadSummary, At, IInv, TypeOK, Stacks
<1>2. CASE /\ hits # {}
           /\ Conclude(w, FromSummary(seen[i]))
           /\ UNCHANGED faults
  <2>1. \A k \in hits : k \in 1..Len(stack.history) /\ seen[k] = stack.history[k]
                        /\ seen[k].op = worker[w].op
    BY <1>1, NewestEntries DEF Matches
  <2>2. hits \subseteq Nat
    BY <2>1
  <2>3. i \in hits
    <3> HIDE DEF hits
    <3>1. \E k \in hits : \A j \in hits : k <= j
      BY <1>2, <2>2, LeastNatural
    <3>2. QED
      BY <3>1
  <2> HIDE DEF i
  <2>4. /\ i \in 1..Len(stack.history) /\ stack.history[i].op = worker[w].op
        /\ Conclude(w, FromSummary(stack.history[i]))
    BY <1>2, <2>1, <2>3
  <2>5. ~At(w, "idle")
    BY <1>1 DEF At
  <2>6. /\ FromSummary(stack.history[i]) \in {"Succeeded", "Failed"}
        /\ process[worker[w].op] = FromSummary(stack.history[i])
    BY <2>4, <2>5, EntryTrue
  <2>7. QED
    BY <1>1, <1>2, <2>4, <2>6, ConcludeStep
<1>3. CASE Goto(w, "observe") /\ (Fault \/ UNCHANGED faults) /\ UNCHANGED directories
  <2>1. faults' \in 0..MaxFaults
    BY <1>1, <1>3, FaultBound
  <2>2. QED
    BY <1>1, <1>3, <2>1, SameProcesses, GotoStep DEF InWorkspace
<1>4. QED
  BY <1>2, <1>3 DEF ReadSummary

\* attachOutputs: outputs are available only when the envelope carries the
\* operation's own target generation.
LEMMA AttachOutputsStep ==
  ASSUME IInv, NEW w \in Workers, AttachOutputs(w) PROVE IInv'
<1> USE DEF IInv
<1>1. /\ worker[w].step = "outputs" /\ TypeOK
      /\ UNCHANGED <<current, message, verdict, stack, process, launches>>
      /\ process[worker[w].op] = "Succeeded" /\ worker[w].op \in Ops
      /\ faults' \in 0..MaxFaults
  <2>1. worker[w].step = "outputs" /\ (Fault \/ UNCHANGED faults)
        /\ UNCHANGED <<current, message, verdict, stack, process, launches>>
    BY DEF AttachOutputs, At
  <2>2. worker[w].op \in Ops /\ process[worker[w].op] = "Succeeded"
    BY <2>1, PulumiAssumption DEF AnswersTrue, CallsAgree, TypeOK, Ops, At
  <2>3. QED
    BY <2>1, <2>2, FaultBound
<1>2. CASE Return(w, "Unknown")
  <2>1. "Unknown" \in Answers /\ worker[w].step \in InWorkspace
    BY <1>1 DEF Answers, InWorkspace
  <2>2. QED
    BY <1>1, <1>2, <2>1, ReturnStep
<1>3. ASSUME NEW evidence, evidence = DecodeEnvelope(worker[w].op) \/ evidence = "Unavailable",
             worker' = [worker EXCEPT ![w].step = "answer", ![w].answer = "Succeeded",
                                      ![w].outputs = evidence, ![w].producer = stack.producer],
             space' = [space EXCEPT ![w] = "None"], aged' = aged \ {w}
      PROVE  IInv'
  <2>1. /\ evidence \in Outputs
        /\ evidence = "Available" => /\ stack.producer # 0
                                     /\ Generation[stack.producer] = Generation[worker[w].op]
    BY <1>3 DEF DecodeEnvelope, Outputs
  <2>2. /\ worker' \in [Workers -> Calls] /\ space' \in [Workers -> WorkspaceStates]
        /\ worker'[w].step = "answer" /\ worker'[w].answer = "Succeeded"
        /\ worker'[w].kind = worker[w].kind /\ worker'[w].op = worker[w].op
        /\ worker'[w].outputs = evidence /\ worker'[w].producer = stack.producer
        /\ space'[w] = "None"
        /\ \A v \in Workers \ {w} : worker'[v] = worker[v] /\ space'[v] = space[v]
    <3>1. stack.producer \in 0..MaxOps /\ worker[w] \in Calls /\ worker \in [Workers -> Calls]
          /\ space \in [Workers -> WorkspaceStates]
      BY <1>1 DEF TypeOK, Stacks
    <3>2. "answer" \in Steps /\ "Succeeded" \in Answers /\ "None" \in WorkspaceStates
      BY DEF Steps, Answers, WorkspaceStates
    <3>3. QED
      BY <1>3, <2>1, <3>1, <3>2 DEF Calls
  <2>3. TypeOK'
    BY <1>1, <1>3, <2>2 DEF TypeOK
  <2>4. Advance(w)
    <3>1. AnswerTrue(w)' /\ OutputsBelongTo(w)' /\ ~BeforeLaunch(w)'
      BY <1>1, <2>1, <2>2 DEF AnswerTrue, OutputsBelongTo, At, Submits, BeforeLaunch
    <3>2. QED
      BY <1>1, <2>2, <3>1 DEF Advance, CallContinues
  <2>5. ProcessesContinue
    BY <1>1, SameProcesses
  <2>6. QED
    BY <1>1, <1>3, <2>2, <2>3, <2>4, <2>5, AdvanceStep
<1>4. QED
  BY <1>2, <1>3 DEF AttachOutputs


-----------------------------------------------------------------------------
(* The claim, the launch and the record. *)

\* A dispatch is handed to one worker, and only while nothing was started.
LEMMA ClaimStep ==
  ASSUME IInv, NEW w \in Workers, Claim(w) PROVE IInv'
<1> USE DEF IInv
<1>1. /\ worker[w].step = "idle" /\ space[w] = "None" /\ message.open /\ ~message.live
      /\ message.kind = "Dispatch" => message.holder = NoWorker
      /\ message' = [message EXCEPT !.holder = w, !.live = TRUE]
      /\ worker' = [worker EXCEPT ![w] = [Idle EXCEPT !.step = "mkdir", !.kind = message.kind,
                                                      !.op = current]]
      /\ current' = current /\ verdict' = verdict /\ stack' = stack /\ process' = process
      /\ launches' = launches /\ space' = space /\ aged' = aged /\ faults' = faults
  BY DEF Claim, At, directories
<1>2. /\ message' \in Messages /\ message'.open /\ message'.holder = w /\ message'.live
      /\ message'.kind = message.kind /\ message.kind \in {"Dispatch", "Observe"}
  BY <1>1 DEF TypeOK, Messages
<1>3. /\ worker' \in [Workers -> Calls]
      /\ worker'[w].step = "mkdir" /\ worker'[w].kind = message.kind /\ worker'[w].op = current
      /\ worker'[w].outputs = "None"
      /\ \A v \in Workers \ {w} : worker'[v] = worker[v]
  <2>1. current \in 0..MaxOps /\ current \in 1..MaxOps /\ worker \in [Workers -> Calls]
    BY PulumiAssumption DEF TypeOK, Ops
  <2>2. "mkdir" \in Steps /\ "Unknown" \in Answers /\ "None" \in Outputs /\ 0 \in 0..MaxOps
    BY PulumiAssumption DEF Steps, Answers, Outputs
  <2>3. QED
    BY <1>1, <1>2, <2>1, <2>2 DEF Idle, Calls
<1>4. TypeOK'
  BY <1>1, <1>2, <1>3 DEF TypeOK
<1>5. SpacesAgree'
  BY <1>1, <1>3 DEF SpacesAgree
<1>6. CallsAgree'
  <2>1. current \in 1..current
    BY DEF TypeOK, Ops
  <2>2. QED
    BY <1>1, <1>3, <2>1 DEF CallsAgree, At
<1>7. MessagesAgree' /\ HistoryTrue' /\ VerdictsTrue'
  BY <1>1, <1>2 DEF MessagesAgree, HistoryTrue, VerdictsTrue
<1>8. \A v \in Workers \ {w} : /\ Submits(v)' <=> Submits(v)
                               /\ BeforeLaunch(v)' <=> BeforeLaunch(v)
                               /\ worker'[v].op = worker[v].op
  BY <1>3 DEF Submits, BeforeLaunch, At
<1>9. message.kind = "Dispatch" =>
        /\ process[current] = "None"
        /\ \A v \in Workers : ~(Submits(v) /\ worker[v].op = current)
  BY <1>1, PulumiAssumption DEF DispatchesAgree
<1>10. Submits(w)' => message.kind = "Dispatch"
  BY <1>3 DEF Submits
<1>11. DispatchesAgree'
  <2>1. w # NoWorker
    BY PulumiAssumption
  <2>2. QED
    BY <1>1, <1>2, <1>8, <1>9, <2>1 DEF DispatchesAgree
<1>12. OneDispatch'
  <2>1. ASSUME NEW v \in Workers, NEW u \in Workers, Submits(v)', Submits(u)',
               worker'[v].op = worker'[u].op
        PROVE  v = u
    <3>1. CASE v = w \/ u = w
      BY <1>3, <1>8, <1>9, <1>10, <2>1, <3>1
    <3>2. CASE v # w /\ u # w
      BY <1>8, <2>1, <3>2 DEF OneDispatch
    <3>3. QED
      BY <3>1, <3>2
  <2>2. ASSUME NEW v \in Workers, BeforeLaunch(v)' PROVE process'[worker'[v].op] = "None"
    <3>1. CASE v = w
      BY <1>1, <1>3, <1>9, <1>10, <2>2, <3>1 DEF BeforeLaunch
    <3>2. CASE v # w
      BY <1>1, <1>8, <2>2, <3>2 DEF OneDispatch
    <3>3. QED
      BY <3>1, <3>2
  <2>3. QED
    BY <2>1, <2>2 DEF OneDispatch
<1>13. AnswersTrue' /\ OutputsBelong'
  BY <1>1, <1>3 DEF AnswersTrue, OutputsBelong, At, Submits
<1>14. RefusedForGood'
  <2>1. verdict[current] = "None"
    BY <1>1 DEF MessagesAgree
  <2>2. ASSUME NEW o \in Ops, verdict[o] = "Rejected", NEW v \in Workers, Submits(v)',
               worker'[v].op = o
        PROVE  FALSE
    <3>1. v # w
      BY <1>3, <2>1, <2>2
    <3>2. QED
      BY <1>8, <2>2, <3>1 DEF RefusedForGood
  <2>3. QED
    BY <1>1, <2>2 DEF RefusedForGood
<1>15. QED
  BY <1>4, <1>5, <1>6, <1>7, <1>11, <1>12, <1>13, <1>14

\* The facts of a launch: the update is the first of its operation, and no
\* conclusive answer was recorded for it.
LEMMA LaunchFacts ==
  ASSUME IInv, NEW w \in Workers, Launch(w)
  PROVE  /\ Submits(w) /\ worker[w].op \in Ops
         /\ process[worker[w].op] = "None" /\ verdict[worker[w].op] = "None"
<1> USE DEF IInv
<1>1. worker[w].step = "launch" /\ worker[w].kind = "Dispatch"
  BY DEF Launch, At, CallsAgree
<1>2. Submits(w) /\ BeforeLaunch(w) /\ worker[w].op \in Ops
  BY <1>1, PulumiAssumption DEF Submits, BeforeLaunch, At, CallsAgree, TypeOK, Ops
<1>3. process[worker[w].op] = "None"
  BY <1>2 DEF OneDispatch
<1>4. verdict[worker[w].op] # "Rejected"
  BY <1>2 DEF RefusedForGood
<1>5. verdict[worker[w].op] \notin {"Succeeded", "Failed"}
  BY <1>2, <1>3 DEF VerdictsTrue
<1>6. QED
  BY <1>2, <1>3, <1>4, <1>5 DEF TypeOK

\* Up or Destroy starts the update of the operation.
LEMMA LaunchStep ==
  ASSUME IInv, NEW w \in Workers, Launch(w) PROVE IInv'
<1> USE DEF IInv
<1> DEFINE o == worker[w].op
<1>1. /\ worker[w].step = "launch"
      /\ process' = [process EXCEPT ![o] = "Running"]
      /\ launches' = [launches EXCEPT ![o] = @ + 1]
      /\ worker' = [worker EXCEPT ![w].step = "run"]
      /\ current' = current /\ message' = message /\ verdict' = verdict /\ stack' = stack
      /\ space' = space /\ aged' = aged /\ faults' = faults
  BY DEF Launch, At, Goto, directories
<1>2. Submits(w) /\ o \in Ops /\ process[o] = "None" /\ verdict[o] = "None"
  BY LaunchFacts
<1>3. /\ worker' \in [Workers -> Calls]
      /\ worker'[w].step = "run" /\ worker'[w].kind = worker[w].kind /\ worker'[w].op = o
      /\ worker'[w].outputs = worker[w].outputs /\ worker[w].kind = "Dispatch"
      /\ \A v \in Workers \ {w} : worker'[v] = worker[v]
  BY <1>1, <1>2 DEF TypeOK, Calls, Steps, Submits
<1>4. /\ process' \in [Ops -> ProcessStates] /\ process'[o] = "Running"
      /\ \A p \in Ops \ {o} : process'[p] = process[p]
      /\ launches' \in [Ops -> Nat]
  BY <1>1, <1>2 DEF TypeOK, ProcessStates
<1>5. TypeOK'
  BY <1>1, <1>3, <1>4 DEF TypeOK
<1>6. SpacesAgree'
  BY <1>1, <1>3 DEF SpacesAgree
<1>7. CallsAgree'
  BY <1>1, <1>3 DEF CallsAgree, At
<1>8. \A v \in Workers : /\ Submits(v)' <=> Submits(v)
                         /\ worker'[v].op = worker[v].op
                         /\ BeforeLaunch(v)' => BeforeLaunch(v) /\ v # w
  BY <1>1, <1>2, <1>3 DEF Submits, BeforeLaunch, At
<1>9. \A v \in Workers : Submits(v) /\ v # w => worker[v].op # o
  BY <1>2 DEF OneDispatch
<1>10. \A v \in Workers : worker[v].step # "idle" => worker[v].op \in Ops
  BY PulumiAssumption DEF CallsAgree, TypeOK, At, Ops
<1>11. MessagesAgree'
  <2>1. ~(o > current)
    BY <1>2 DEF CallsAgree, Submits, TypeOK, Ops
  <2>2. QED
    BY <1>1, <1>4, <2>1 DEF MessagesAgree
<1>12. DispatchesAgree'
  <2>1. message.open /\ message.kind = "Dispatch" /\ message.holder = NoWorker => o # current
    BY <1>2, PulumiAssumption DEF DispatchesAgree
  <2>2. current \in Ops
    BY DEF TypeOK
  <2>3. QED
    BY <1>1, <1>4, <1>8, <2>1, <2>2 DEF DispatchesAgree
<1>13. OneDispatch'
  <2>1. ASSUME NEW v \in Workers, BeforeLaunch(v)' PROVE process'[worker'[v].op] = "None"
    <3>1. BeforeLaunch(v) /\ Submits(v) /\ v # w /\ worker[v].op \in Ops
      BY <1>8, <1>10, <2>1 DEF BeforeLaunch, Submits, At
    <3>2. QED
      BY <1>4, <1>8, <1>9, <3>1 DEF OneDispatch
  <2>2. QED
    BY <1>8, <2>1 DEF OneDispatch
<1>14. HistoryTrue'
  <2> SUFFICES ASSUME NEW i \in 1..Len(stack.history), stack.history[i].op # 0
               PROVE  process'[stack.history[i].op] =
                        IF stack.history[i].result = "succeeded" THEN "Succeeded" ELSE "Failed"
    BY <1>1 DEF HistoryTrue
  <2>1. stack.history[i].op \in Ops
    <3>1. stack.history[i] \in Entries
      BY DEF TypeOK, Stacks
    <3>2. QED
      BY <3>1, PulumiAssumption DEF Entries, Ops
  <2>2. stack.history[i].op # o
    BY <1>2 DEF HistoryTrue
  <2>3. QED
    BY <1>4, <2>1, <2>2 DEF HistoryTrue
<1>15. AnswersTrue' /\ OutputsBelong'
  <2>1. ASSUME NEW v \in Workers, worker'[v].step \in {"outputs", "answer"}
        PROVE  /\ v # w /\ worker'[v] = worker[v] /\ worker[v].op \in Ops
               /\ worker[v].step = "outputs" => process'[worker[v].op] = process[worker[v].op]
               /\ worker[v].step = "answer" /\ worker[v].answer # "Unknown" =>
                    process'[worker[v].op] = process[worker[v].op]
    <3>1. v # w /\ worker'[v] = worker[v] /\ worker[v].op \in Ops
      BY <1>3, <1>10, <2>1
    <3>2. CASE worker[v].op # o
      BY <1>4, <3>1, <3>2
    <3>3. CASE worker[v].op = o
      <4>1. ~Submits(v)
        BY <1>9, <3>1, <3>3
      <4>2. worker[v].answer \in Answers
        BY DEF TypeOK, Calls
      <4>3. worker[v].step # "outputs" /\ (worker[v].step = "answer" => worker[v].answer = "Unknown")
        BY <1>2, <3>3, <4>1, <4>2 DEF AnswersTrue, Answers, At
      <4>4. QED
        BY <3>1, <4>3
    <3>4. QED
      BY <3>2, <3>3, <3>1
  <2>2. AnswersTrue'
    BY <1>8, <2>1 DEF AnswersTrue, At
  <2>3. OutputsBelong'
    BY <1>1, <2>1 DEF OutputsBelong, At
  <2>4. QED
    BY <2>2, <2>3
<1>16. VerdictsTrue' /\ RefusedForGood'
  BY <1>1, <1>2, <1>4, <1>8 DEF VerdictsTrue, RefusedForGood
<1>17. QED
  BY <1>5, <1>6, <1>7, <1>11, <1>12, <1>13, <1>14, <1>15, <1>16


\* What a call that ended becomes.
LEMMA IdleCall ==
  ASSUME TypeOK, NEW w \in Workers, worker' = [worker EXCEPT ![w] = Idle]
  PROVE  /\ worker' \in [Workers -> Calls] /\ worker'[w].step = "idle" /\ worker'[w].outputs = "None"
         /\ \A v \in Workers \ {w} : worker'[v] = worker[v]
<1>1. Idle \in Calls /\ Idle.step = "idle" /\ Idle.outputs = "None"
  BY PulumiAssumption DEF Idle, Calls, Steps, Answers, Outputs
<1> HIDE DEF Idle
<1>2. QED
  BY <1>1 DEF TypeOK

\* A new message is pending.
LEMMA NewMessageFields ==
  ASSUME NEW kind \in {"Dispatch", "Observe"}
  PROVE  /\ NewMessage(kind) \in Messages
         /\ NewMessage(kind).kind = kind /\ NewMessage(kind).holder = NoWorker
         /\ ~NewMessage(kind).live /\ NewMessage(kind).open
BY DEF NewMessage, Messages

\* The answer is recorded under the lease of the current message only.
LEMMA RecordStep ==
  ASSUME IInv, NEW w \in Workers, Record(w) PROVE IInv'
<1> USE DEF IInv
<1>1. /\ worker[w].step = "answer" /\ worker' = [worker EXCEPT ![w] = Idle]
      /\ current' = current /\ stack' = stack /\ process' = process /\ launches' = launches
      /\ space' = space /\ aged' = aged /\ faults' = faults
  BY DEF Record, At, directories
<1>2. /\ worker' \in [Workers -> Calls] /\ worker'[w].step = "idle" /\ worker'[w].outputs = "None"
      /\ \A v \in Workers \ {w} : worker'[v] = worker[v]
  BY <1>1, IdleCall
<1>3. SpacesAgree'
  BY <1>1, <1>2 DEF SpacesAgree
<1>4. ProcessesContinue
  BY <1>1, SameProcesses
<1>5. \A v \in Workers : CallContinues(v)
  BY <1>2 DEF CallContinues
<1>6. CASE MessageContinues /\ message' \in Messages /\ verdict' = verdict
  <2>1. TypeOK'
    BY <1>1, <1>2, <1>6 DEF TypeOK
  <2>2. HistoryTrue'
    BY <1>1, <1>4, <2>1, HistoryStays
  <2>3. QED
    BY <1>1, <1>3, <1>4, <1>5, <1>6, <2>1, <2>2, ContinuesStep
<1>7. CASE message' = message /\ verdict' = verdict
  BY <1>6, <1>7 DEF MessageContinues, TypeOK
<1>8. CASE Owns(w) /\ message' = NewMessage("Observe") /\ verdict' = verdict
  <2>1. message.open /\ message'.kind = "Observe" /\ message' \in Messages
    BY <1>8, NewMessageFields DEF Owns
  <2>2. MessageContinues
    BY <2>1 DEF MessageContinues
  <2>3. QED
    BY <1>6, <1>8, <2>1, <2>2
<1>9. CASE /\ Owns(w) /\ Conclusive(worker[w].answer)
           /\ message' = [message EXCEPT !.open = FALSE, !.live = FALSE]
           /\ verdict' = [verdict EXCEPT ![worker[w].op] = worker[w].answer]
  <2>1. /\ message.open /\ worker[w].op = current /\ current \in Ops
        /\ worker[w].answer \in {"Rejected", "Succeeded", "Failed"}
    BY <1>9 DEF Owns, Conclusive, TypeOK, Calls, Answers
  <2>2. message' \in Messages /\ ~message'.open
    BY <1>9 DEF TypeOK, Messages
  <2>3. /\ verdict' \in [Ops -> {"None", "Rejected", "Succeeded", "Failed"}]
        /\ verdict'[current] = worker[w].answer
        /\ \A o \in Ops \ {current} : verdict'[o] = verdict[o]
    BY <1>9, <2>1 DEF TypeOK
  <2>4. TypeOK'
    BY <1>1, <1>2, <2>2, <2>3 DEF TypeOK
  <2>5. \A v \in Workers : /\ Submits(v)' => Submits(v) /\ v # w /\ worker'[v] = worker[v]
                           /\ BeforeLaunch(v)' => BeforeLaunch(v)
    BY <1>1, <1>2 DEF Submits, BeforeLaunch, At
  <2>6. CallsAgree'
    BY <1>1, <1>2 DEF CallsAgree, At
  <2>7. MessagesAgree' /\ DispatchesAgree'
    <3>1. \A o \in Ops : o > current => o # current
      BY <2>1 DEF Ops
    <3>2. QED
      BY <1>1, <2>2, <2>3, <3>1 DEF MessagesAgree, DispatchesAgree
  <2>8. OneDispatch'
    <3>1. ASSUME NEW v \in Workers, BeforeLaunch(v)' PROVE process'[worker'[v].op] = "None"
      <4>1. worker'[v] = worker[v] /\ BeforeLaunch(v)
        BY <2>5, <3>1 DEF BeforeLaunch
      <4>2. QED
        BY <1>1, <4>1 DEF OneDispatch
    <3>2. QED
      BY <1>1, <2>5, <3>1 DEF OneDispatch
  <2>9. HistoryTrue'
    BY <1>1 DEF HistoryTrue
  <2>10. AnswersTrue' /\ OutputsBelong'
    BY <1>1, <1>2 DEF AnswersTrue, OutputsBelong, At, Submits
  <2>11. VerdictsTrue'
    <3>1. worker[w].answer \in {"Succeeded", "Failed"} => process[current] = worker[w].answer
      BY <1>1, <2>1 DEF AnswersTrue, At
    <3>2. QED
      BY <1>1, <2>3, <3>1 DEF VerdictsTrue
  <2>12. RefusedForGood'
    <3>1. worker[w].answer = "Rejected" => Submits(w) /\ process[current] = "None"
      BY <1>1, <2>1 DEF AnswersTrue, At
    <3>2. worker[w].answer = "Rejected" =>
            \A v \in Workers : ~(Submits(v)' /\ worker'[v].op = current)
      BY <2>1, <2>5, <3>1 DEF OneDispatch
    <3>3. ASSUME NEW o \in Ops, verdict'[o] = "Rejected"
          PROVE  process'[o] = "None" /\ \A v \in Workers : ~(Submits(v)' /\ worker'[v].op = o)
      <4>1. CASE o = current
        BY <1>1, <2>3, <3>1, <3>2, <3>3, <4>1
      <4>2. CASE o # current
        BY <1>1, <2>3, <2>5, <3>3, <4>2 DEF RefusedForGood
      <4>3. QED
        BY <4>1, <4>2
    <3>4. QED
      BY <3>3 DEF RefusedForGood
  <2>13. QED
    BY <1>3, <2>4, <2>6, <2>7, <2>8, <2>9, <2>10, <2>11, <2>12
<1>10. QED
  BY <1>7, <1>8, <1>9 DEF Record

\* The next operation starts with nothing on record.
LEMMA NextOperationStep ==
  ASSUME IInv, NextOperation PROVE IInv'
<1> USE DEF IInv
<1>1. /\ current < MaxOps /\ current' = current + 1 /\ message' = NewMessage("Dispatch")
      /\ verdict' = verdict /\ stack' = stack /\ process' = process /\ launches' = launches
      /\ worker' = worker /\ space' = space /\ aged' = aged /\ faults' = faults
  BY DEF NextOperation, directories
<1>2. /\ message' \in Messages /\ message'.kind = "Dispatch" /\ message'.holder = NoWorker
      /\ ~message'.live /\ message'.open
  BY <1>1, NewMessageFields
<1>3. current \in Nat /\ current' \in Ops /\ current' > current
  BY <1>1, PulumiAssumption DEF TypeOK, Ops
<1>4. TypeOK'
  BY <1>1, <1>2, <1>3 DEF TypeOK
<1>5. verdict[current'] = "None" /\ process[current'] = "None"
  BY <1>3 DEF MessagesAgree
<1>6. MessagesAgree'
  <2>1. \A o \in Ops : o > current' => o > current
    BY <1>1, <1>3 DEF Ops
  <2>2. QED
    BY <1>1, <1>5, <2>1 DEF MessagesAgree
<1>7. \A w \in Workers : worker[w].step # "idle" => worker[w].op \in 1..current
  BY DEF CallsAgree, At
<1>8. DispatchesAgree'
  <2>1. \A w \in Workers : Submits(w) => worker[w].op # current'
    BY <1>3, <1>7 DEF Submits, At
  <2>2. QED
    BY <1>1, <1>2, <1>5, <2>1 DEF DispatchesAgree, Submits, At
<1>9. CallsAgree'
  <2>1. \A w \in Workers : worker[w].step # "idle" => worker[w].op \in 1..current'
    BY <1>1, <1>3, <1>7
  <2>2. QED
    BY <1>1, <2>1 DEF CallsAgree, At
<1>10. SpacesAgree' /\ HistoryTrue' /\ VerdictsTrue'
  BY <1>1 DEF SpacesAgree, HistoryTrue, VerdictsTrue
<1>11. OneDispatch' /\ AnswersTrue' /\ RefusedForGood' /\ OutputsBelong'
  BY <1>1 DEF OneDispatch, AnswersTrue, RefusedForGood, OutputsBelong, Submits, BeforeLaunch, At
<1>12. QED
  BY <1>4, <1>6, <1>8, <1>9, <1>10, <1>11

-----------------------------------------------------------------------------
(* Time, processes and faults. *)

\* Recovery turns an expired dispatch into an observation; a lease that expires
\* only loses its owner (RecoverExpiredDispatch, LeaseExpires).
LEMMA MessageStep ==
  ASSUME IInv, RecoverExpiredDispatch \/ LeaseExpires PROVE IInv'
<1> USE DEF IInv
<1>1. /\ current' = current /\ verdict' = verdict /\ stack' = stack /\ process' = process
      /\ launches' = launches /\ worker' = worker /\ space' = space /\ aged' = aged
      /\ Fault \/ UNCHANGED faults
  BY DEF RecoverExpiredDispatch, LeaseExpires, directories
<1>2. message' \in Messages /\ MessageContinues
  <2>1. CASE RecoverExpiredDispatch
    BY <2>1, NewMessageFields DEF RecoverExpiredDispatch, MessageContinues
  <2>2. CASE LeaseExpires
    BY <2>2 DEF LeaseExpires, MessageContinues, TypeOK, Messages
  <2>3. QED
    BY <2>1, <2>2
<1>3. TypeOK'
  BY <1>1, <1>2, FaultBound DEF TypeOK
<1>4. SpacesAgree' /\ HistoryTrue'
  BY <1>1 DEF SpacesAgree, HistoryTrue
<1>5. ProcessesContinue /\ \A w \in Workers : CallContinues(w)
  BY <1>1 DEF ProcessesContinue, CallContinues
<1>6. QED
  BY <1>1, <1>2, <1>3, <1>4, <1>5, ContinuesStep

\* Time passes for a directory, and a server that starts removes the ones that
\* are old and not locked: never one of a call in progress.
LEMMA DirectoryStep ==
  ASSUME IInv, CleanupStaleWorkspaces \/ \E w \in Workers : Ages(w) PROVE IInv'
<1> USE DEF IInv
<1>1. /\ current' = current /\ message' = message /\ verdict' = verdict /\ stack' = stack
      /\ process' = process /\ launches' = launches /\ worker' = worker /\ faults' = faults
  BY DEF CleanupStaleWorkspaces, Ages
<1>2. space' \in [Workers -> WorkspaceStates] /\ aged' \subseteq Workers /\ SpacesAgree'
  <2>1. CASE CleanupStaleWorkspaces
    <3>1. space' \in [Workers -> WorkspaceStates] /\ aged' \subseteq Workers
      BY <2>1 DEF CleanupStaleWorkspaces, TypeOK, WorkspaceStates
    <3>2. ASSUME NEW w \in Workers
          PROVE  /\ space'[w] = IF space[w] = "Left" /\ w \in aged THEN "None" ELSE space[w]
                 /\ w \in aged' => w \in aged /\ ~(space[w] = "Left" /\ w \in aged)
      <4>1. Stale(w) <=> space[w] = "Left" /\ w \in aged
        BY DEF Stale, SpacesAgree
      <4>2. QED
        BY <2>1, <4>1 DEF CleanupStaleWorkspaces
    <3>3. SpacesAgree'
      BY <1>1, <3>2 DEF SpacesAgree
    <3>4. QED
      BY <3>1, <3>3
  <2>2. CASE \E w \in Workers : Ages(w)
    BY <1>1, <2>2 DEF Ages, TypeOK, SpacesAgree
  <2>3. QED
    BY <2>1, <2>2
<1>3. TypeOK'
  BY <1>1, <1>2 DEF TypeOK
<1>4. HistoryTrue' /\ MessageContinues
  BY <1>1 DEF HistoryTrue, MessageContinues
<1>5. ProcessesContinue /\ \A w \in Workers : CallContinues(w)
  BY <1>1 DEF ProcessesContinue, CallContinues
<1>6. QED
  BY <1>1, <1>2, <1>3, <1>4, <1>5, ContinuesStep

\* A crash ends a call; the directory it leaves is not locked.
LEMMA CrashStep ==
  ASSUME IInv, NEW w \in Workers, Crash(w) PROVE IInv'
<1> USE DEF IInv
<1>1. /\ worker' = [worker EXCEPT ![w] = Idle]
      /\ space' = [space EXCEPT ![w] = IF @ = "None" THEN "None" ELSE "Left"]
      /\ current' = current /\ message' = message /\ verdict' = verdict /\ stack' = stack
      /\ process' = process /\ launches' = launches /\ aged' = aged /\ faults' \in 0..MaxFaults
  BY FaultBound DEF Crash
<1>2. /\ worker' \in [Workers -> Calls] /\ worker'[w].step = "idle" /\ worker'[w].outputs = "None"
      /\ \A v \in Workers \ {w} : worker'[v] = worker[v]
  BY <1>1, IdleCall
<1>3. /\ space' \in [Workers -> WorkspaceStates] /\ space'[w] \in {"None", "Left"}
      /\ space'[w] = "None" => space[w] = "None"
      /\ \A v \in Workers \ {w} : space'[v] = space[v]
  BY <1>1 DEF TypeOK, WorkspaceStates
<1>4. TypeOK'
  BY <1>1, <1>2, <1>3 DEF TypeOK
<1>5. SpacesAgree'
  BY <1>1, <1>2, <1>3 DEF SpacesAgree
<1>6. HistoryTrue' /\ MessageContinues
  BY <1>1 DEF HistoryTrue, MessageContinues
<1>7. ProcessesContinue /\ \A v \in Workers : CallContinues(v)
  BY <1>1, <1>2 DEF ProcessesContinue, CallContinues
<1>8. QED
  BY <1>1, <1>4, <1>5, <1>6, <1>7, ContinuesStep


\* A step of the backend that may add an entry to the history and end
\* processes.
LEMMA BackendStep ==
  ASSUME IInv, TypeOK', HistoryTrue', ProcessesContinue,
         UNCHANGED <<current, message, verdict, launches, worker, directories>>
  PROVE  IInv'
<1>1. /\ current' = current /\ message' = message /\ verdict' = verdict /\ worker' = worker
      /\ space' = space /\ aged' = aged
  BY DEF directories
<1>2. SpacesAgree' /\ MessageContinues /\ \A w \in Workers : CallContinues(w)
  BY <1>1 DEF IInv, SpacesAgree, MessageContinues, CallContinues
<1>3. QED
  BY <1>1, <1>2, ContinuesStep

\* An update that ends enters its own result in the history.
LEMMA ProcessEndsStep ==
  ASSUME IInv, NEW o \in Ops, ProcessEnds(o) PROVE IInv'
<1> USE DEF IInv
<1>1. PICK result \in {"succeeded", "failed"} :
        /\ process' = [process EXCEPT ![o] = IF result = "succeeded" THEN "Succeeded" ELSE "Failed"]
        /\ stack' = [stack EXCEPT !.history = <<[op |-> o, result |-> result]>> \o @,
                                  !.producer = IF result = "succeeded" THEN o ELSE @]
  BY DEF ProcessEnds
<1>2. /\ process[o] = "Running" /\ faults' = faults
      /\ UNCHANGED <<current, message, verdict, launches, worker, directories>>
  BY DEF ProcessEnds
<1> DEFINE e == [op |-> o, result |-> result]
           h == <<e>> \o stack.history
<1>3. stack \in Stacks /\ stack.history \in Seq(Entries) /\ stack.producer \in 0..MaxOps
  BY DEF TypeOK, Stacks
<1>4. e \in Entries /\ o \in 0..MaxOps /\ e.op = o /\ e.result = result
  BY PulumiAssumption DEF Entries, Ops
<1> HIDE DEF e
<1>5. /\ h \in Seq(Entries) /\ Len(h) = Len(stack.history) + 1 /\ h[1] = e
      /\ \A i \in 2..(Len(stack.history) + 1) : h[i] = stack.history[i - 1]
  BY <1>3, <1>4, PutInFront
<1>6. stack' = [stack EXCEPT !.history = h, !.producer = IF result = "succeeded" THEN o ELSE @]
  BY <1>1 DEF e
<1> HIDE DEF h
<1>7. stack' \in Stacks /\ stack'.history = h
  BY <1>3, <1>4, <1>5, <1>6 DEF Stacks
<1>8. /\ process' \in [Ops -> ProcessStates]
      /\ process'[o] = IF result = "succeeded" THEN "Succeeded" ELSE "Failed"
      /\ \A p \in Ops \ {o} : process'[p] = process[p]
  BY <1>1 DEF TypeOK, ProcessStates
<1>9. ProcessesContinue
  BY <1>2, <1>8 DEF ProcessesContinue
<1>10. TypeOK'
  BY <1>2, <1>7, <1>8 DEF TypeOK, directories
<1>11. HistoryTrue'
  <2> SUFFICES ASSUME NEW i \in 1..Len(h), h[i].op # 0
               PROVE  process'[h[i].op] = IF h[i].result = "succeeded" THEN "Succeeded" ELSE "Failed"
    BY <1>7 DEF HistoryTrue
  <2>1. CASE i = 1
    BY <1>4, <1>5, <1>8, <2>1
  <2>2. CASE i # 1
    <3>1. i - 1 \in 1..Len(stack.history) /\ h[i] = stack.history[i - 1]
      BY <1>3, <1>5, <2>2
    <3>2. process[h[i].op] = IF h[i].result = "succeeded" THEN "Succeeded" ELSE "Failed"
      BY <3>1 DEF HistoryTrue
    <3>3. h[i].op \in Ops
      <4>1. stack.history[i - 1] \in Entries
        BY <1>3, <3>1
      <4>2. QED
        BY <3>1, <4>1, PulumiAssumption DEF Entries, Ops
    <3>4. h[i].op # o
      BY <1>2, <3>2
    <3>5. QED
      BY <1>8, <3>2, <3>3, <3>4
  <2>3. QED
    BY <2>1, <2>2
<1>12. QED
  BY <1>2, <1>9, <1>10, <1>11, BackendStep

\* A process dies without an entry.
LEMMA ProcessLostStep ==
  ASSUME IInv, NEW o \in Ops, ProcessLost(o) PROVE IInv'
<1> USE DEF IInv
<1>1. /\ process[o] = "Running" /\ process' = [process EXCEPT ![o] = "Lost"] /\ stack' = stack
      /\ UNCHANGED <<current, message, verdict, launches, worker, directories>>
      /\ faults' \in 0..MaxFaults
  BY FaultBound DEF ProcessLost
<1>2. process' \in [Ops -> ProcessStates] /\ ProcessesContinue
  BY <1>1 DEF TypeOK, ProcessStates, ProcessesContinue
<1>3. TypeOK'
  BY <1>1, <1>2 DEF TypeOK, directories
<1>4. HistoryTrue'
  BY <1>1, <1>2, <1>3, HistoryStays
<1>5. QED
  BY <1>1, <1>2, <1>3, <1>4, BackendStep

\* An update by hand carries no operation.
LEMMA ManualUpdateStep ==
  ASSUME IInv, ManualUpdate PROVE IInv'
<1> USE DEF IInv
<1> DEFINE e == [op |-> 0, result |-> "succeeded"]
           h == <<e>> \o stack.history
<1>1. /\ process' = process /\ faults' \in 0..MaxFaults
      /\ UNCHANGED <<current, message, verdict, launches, worker, directories>>
  BY FaultBound DEF ManualUpdate
<1>2. PICK o \in 0..MaxOps : stack' = [stack EXCEPT !.history = h, !.producer = o]
  <2>1. PICK o \in {0} \cup {p \in Ops : process[p] = "Succeeded"} :
          stack' = [stack EXCEPT !.history = h, !.producer = o]
    BY Zenon DEF ManualUpdate
  <2>2. o \in 0..MaxOps
    BY PulumiAssumption DEF Ops
  <2>3. QED
    BY <2>1, <2>2
<1>3. stack \in Stacks /\ stack.history \in Seq(Entries)
  BY DEF TypeOK, Stacks
<1>4. e \in Entries /\ e.op = 0
  BY PulumiAssumption DEF Entries
<1> HIDE DEF e
<1>5. /\ h \in Seq(Entries) /\ Len(h) = Len(stack.history) + 1 /\ h[1] = e
      /\ \A i \in 2..(Len(stack.history) + 1) : h[i] = stack.history[i - 1]
  BY <1>3, <1>4, PutInFront
<1> HIDE DEF h
<1>6. stack' \in Stacks /\ stack'.history = h
  BY <1>2, <1>3, <1>5 DEF Stacks
<1>7. TypeOK' /\ ProcessesContinue
  BY <1>1, <1>6 DEF TypeOK, directories, ProcessesContinue
<1>8. HistoryTrue'
  <2> SUFFICES ASSUME NEW i \in 1..Len(h), h[i].op # 0
               PROVE  process[h[i].op] = IF h[i].result = "succeeded" THEN "Succeeded" ELSE "Failed"
    BY <1>1, <1>6 DEF HistoryTrue
  <2>1. i # 1
    BY <1>4, <1>5
  <2>2. i - 1 \in 1..Len(stack.history) /\ h[i] = stack.history[i - 1]
    BY <1>3, <1>5, <2>1
  <2>3. QED
    BY <2>2 DEF HistoryTrue
<1>9. QED
  BY <1>1, <1>7, <1>8, BackendStep

-----------------------------------------------------------------------------
(* The invariant. *)

\* The first operation starts on a stack that does not exist.
LEMMA Initially == Init => IInv
<1> SUFFICES ASSUME Init PROVE IInv
  OBVIOUS
<1>1. Idle \in Calls /\ Idle.step = "idle" /\ Idle.outputs = "None"
  BY PulumiAssumption DEF Idle, Calls, Steps, Answers, Outputs
<1>2. /\ message \in Messages /\ message.kind = "Dispatch" /\ message.holder = NoWorker
      /\ ~message.live /\ message.open
  BY NewMessageFields DEF Init
<1>3. stack \in Stacks /\ stack.history = <<>>
  BY PulumiAssumption DEF Init, Stacks
<1>4. \A w \in Workers : worker[w] \in Calls /\ worker[w].step = "idle" /\ worker[w].outputs = "None"
  BY <1>1 DEF Init
<1>5. TypeOK
  <2>1. worker \in [Workers -> Calls] /\ current \in Ops /\ faults \in 0..MaxFaults
    BY <1>1, PulumiAssumption DEF Init, Ops
  <2>2. QED
    BY <1>2, <1>3, <2>1 DEF Init, TypeOK, ProcessStates, WorkspaceStates
<1>6. SpacesAgree /\ CallsAgree /\ MessagesAgree /\ DispatchesAgree /\ OneDispatch
  BY <1>2, <1>4, <1>5 DEF Init, TypeOK, SpacesAgree, CallsAgree, MessagesAgree, DispatchesAgree, OneDispatch,
     Submits, BeforeLaunch, At
<1>7. HistoryTrue /\ AnswersTrue /\ VerdictsTrue /\ RefusedForGood /\ OutputsBelong
  BY <1>3, <1>4, <1>5 DEF Init, HistoryTrue, AnswersTrue, VerdictsTrue, RefusedForGood, OutputsBelong, At
<1>8. QED
  BY <1>5, <1>6, <1>7 DEF IInv

\* Every step of the provisioner, its worker and its environment preserves the
\* invariant.
LEMMA Inductive == IInv /\ [Next]_vars => IInv'
<1> SUFFICES ASSUME IInv, [Next]_vars PROVE IInv'
  OBVIOUS
<1>1. CASE UNCHANGED vars
  <2>1. /\ current' = current /\ message' = message /\ verdict' = verdict /\ stack' = stack
        /\ process' = process /\ launches' = launches /\ worker' = worker
        /\ space' = space /\ aged' = aged /\ faults' = faults
    BY <1>1 DEF vars
  <2>2. TypeOK' /\ HistoryTrue' /\ ProcessesContinue
    BY <2>1 DEF IInv, TypeOK, HistoryTrue, ProcessesContinue
  <2>3. QED
    BY <2>1, <2>2, BackendStep DEF directories
<1>2. ASSUME NEW w \in Workers, Call(w) PROVE IInv'
  BY <1>2, ClaimStep, RecordStep, MakeWorkspaceStep, LockWorkspaceStep, PreflightStep,
     SelectStackStep, LaunchStep, CommandReturnsStep, ReadSummaryStep, ObserveStackStep,
     AttachOutputsStep DEF Call
<1>3. ASSUME NEW w \in Workers, Crash(w) PROVE IInv'
  BY <1>3, CrashStep
<1>4. ASSUME NEW o \in Ops, ProcessEnds(o) \/ ProcessLost(o) PROVE IInv'
  BY <1>4, ProcessEndsStep, ProcessLostStep
<1>5. QED
  BY <1>1, <1>2, <1>3, <1>4, DirectoryStep, MessageStep, NextOperationStep, ManualUpdateStep
     DEF Next

\* The invariant holds always.
LEMMA Invariant == Spec => []IInv
BY Initially, Inductive, PTL DEF Spec

\* However many servers start, crash and clean up, the workspace of a call in
\* progress is kept, and outputs are only handed out to the operation whose
\* target generation they carry (createWorkspace, cleanupStaleWorkspaces,
\* attachOutputs).
THEOREM IsolatedCalls == Spec => []CallsAreIsolated
<1>1. IInv => CallsAreIsolated
  BY DEF IInv, SpacesAgree, CallsAreIsolated, WorkspaceInUseKept
<1>2. QED
  BY <1>1, Invariant, PTL


-----------------------------------------------------------------------------
(* The refinement. *)

\* A step that neither starts nor ends an update nor records an answer is a
\* stutter of the contract.
LEMMA Stutters ==
  ASSUME process' = process, verdict' = verdict
  PROVE  UNCHANGED Contract!contract
BY DEF Contract!contract, Work

\* The launch is the contract's Launch: once, and before any verdict.
LEMMA LaunchImplements ==
  ASSUME IInv, IInv', NEW w \in Workers, Launch(w)
  PROVE  Contract!Launch(worker[w].op)
<1> DEFINE o == worker[w].op
<1>1. o \in Ops /\ process[o] = "None" /\ verdict[o] = "None"
  BY LaunchFacts
<1>2. process' = [process EXCEPT ![o] = "Running"] /\ verdict' = verdict
  BY DEF Launch
<1> HIDE DEF o
<1>3. Work[o] = "None" /\ Work'[o] = "Running" /\ \A p \in Ops \ {o} : Work'[p] = Work[p]
  BY <1>1, <1>2 DEF Work, IInv, TypeOK
<1>4. Work' = [Work EXCEPT ![o] = "Running"]
  BY <1>1, <1>3 DEF Work
<1>5. Contract!Launch(o)
  BY <1>1, <1>2, <1>3, <1>4 DEF Contract!Launch
<1>6. QED
  BY <1>5 DEF o


\* An update that ends or is lost is the contract's Finish.
LEMMA EndImplements ==
  ASSUME IInv, NEW o \in Ops, process[o] = "Running", verdict' = verdict,
         NEW end \in {"Succeeded", "Failed", "Lost"}, process' = [process EXCEPT ![o] = end]
  PROVE  Contract!Finish(o)
<1> DEFINE e == IF end = "Succeeded" THEN "Done" ELSE "Broken"
<1>1. Work[o] = "Running" /\ Work'[o] = e /\ \A p \in Ops \ {o} : Work'[p] = Work[p]
  BY DEF Work, IInv, TypeOK
<1>2. e \in {"Done", "Broken"}
  OBVIOUS
<1> HIDE DEF e
<1>3. Work' = [Work EXCEPT ![o] = e]
  BY <1>1 DEF Work
<1>4. QED
  BY <1>1, <1>2, <1>3 DEF Contract!Finish

\* The first conclusive answer is recorded, and it is what became of the
\* update: the contract's Conclude.
LEMMA RecordImplements ==
  ASSUME IInv, NEW w \in Workers, Record(w)
  PROVE  (Contract!Conclude(worker[w].op) /\ worker[w].op \in Ops) \/ UNCHANGED Contract!contract
<1> USE DEF IInv
<1>1. process' = process /\ worker[w].step = "answer"
  BY DEF Record, At
<1>2. CASE verdict' = verdict
  BY <1>1, <1>2, Stutters
<1>3. CASE /\ Owns(w) /\ Conclusive(worker[w].answer)
           /\ verdict' = [verdict EXCEPT ![worker[w].op] = worker[w].answer]
  <2> DEFINE o == worker[w].op
  <2>1. /\ o \in Ops /\ verdict[o] = "None"
        /\ worker[w].answer \in {"Rejected", "Succeeded", "Failed"}
    BY <1>3 DEF Owns, Conclusive, TypeOK, Calls, Answers, MessagesAgree
  <2>2. /\ worker[w].answer = "Rejected" => process[o] = "None"
        /\ worker[w].answer \in {"Succeeded", "Failed"} => process[o] = worker[w].answer
    BY <1>1 DEF AnswersTrue, At
  <2>3. Work' = Work
    BY <1>1 DEF Work
  <2>4. worker[w].answer \in Contract!Conclusion(Work[o])
    BY <2>1, <2>2 DEF Contract!Conclusion, Work
  <2>5. QED
    BY <1>3, <2>1, <2>3, <2>4 DEF Contract!Conclude
<1>4. QED
  BY <1>2, <1>3 DEF Record

\* Every step of the provisioner is a step of the contract or a stutter.
LEMMA StepImplements ==
  ASSUME IInv, IInv', [Next]_vars PROVE [Contract!Next]_(Contract!contract)
<1>1. CASE UNCHANGED <<process, verdict>>
  BY <1>1, Stutters
<1>2. ASSUME NEW w \in Workers, Launch(w) PROVE Contract!Next
  <2>1. worker[w].op \in Ops /\ Contract!Launch(worker[w].op)
    BY <1>2, LaunchFacts, LaunchImplements
  <2>2. QED
    BY <2>1 DEF Contract!Next
<1>3. ASSUME NEW w \in Workers, Record(w) PROVE [Contract!Next]_(Contract!contract)
  <2>1. (Contract!Conclude(worker[w].op) /\ worker[w].op \in Ops) \/ UNCHANGED Contract!contract
    BY <1>3, RecordImplements
  <2>2. QED
    BY <2>1 DEF Contract!Next
<1>4. ASSUME NEW o \in Ops, process[o] = "Running", verdict' = verdict,
             NEW end \in {"Succeeded", "Failed", "Lost"}, process' = [process EXCEPT ![o] = end]
      PROVE  Contract!Next
  <2>1. Contract!Finish(o)
    BY <1>4, EndImplements
  <2>2. QED
    BY <2>1 DEF Contract!Next
<1>5. ASSUME NEW w \in Workers, CommandReturns(w) PROVE [Contract!Next]_(Contract!contract)
  <2> DEFINE o == worker[w].op
  <2>1. o \in Ops /\ verdict' = verdict
    BY <1>5, PulumiAssumption DEF CommandReturns, At, IInv, CallsAgree, TypeOK, Ops
  <2>2. CASE process' = process
    BY <1>1, <2>1, <2>2
  <2>3. CASE process' # process
    <3>1. process' = [process EXCEPT ![o] = IF @ = "Running" THEN "Lost" ELSE @]
      BY <1>5, <2>3 DEF CommandReturns
    <3>2. process[o] = "Running" /\ process' = [process EXCEPT ![o] = "Lost"]
      BY <2>1, <2>3, <3>1 DEF IInv, TypeOK
    <3>3. QED
      BY <1>4, <2>1, <3>2
  <2>4. QED
    BY <2>2, <2>3
<1>6. ASSUME NEW o \in Ops, ProcessEnds(o) PROVE Contract!Next
  <2>1. PICK result \in {"succeeded", "failed"} :
          process' = [process EXCEPT ![o] = IF result = "succeeded" THEN "Succeeded" ELSE "Failed"]
    BY <1>6 DEF ProcessEnds
  <2> DEFINE end == IF result = "succeeded" THEN "Succeeded" ELSE "Failed"
  <2>2. /\ end \in {"Succeeded", "Failed", "Lost"} /\ process' = [process EXCEPT ![o] = end]
        /\ process[o] = "Running" /\ verdict' = verdict
    BY <1>6, <2>1 DEF ProcessEnds
  <2> HIDE DEF end
  <2>3. QED
    BY <1>4, <2>2
<1>7. ASSUME NEW o \in Ops, ProcessLost(o) PROVE Contract!Next
  BY <1>4, <1>7 DEF ProcessLost
<1>8. ASSUME NEW w \in Workers, Call(w) PROVE [Contract!Next]_(Contract!contract)
  <2>1. CASE \/ Claim(w) \/ MakeWorkspace(w) \/ LockWorkspace(w) \/ Preflight(w) \/ SelectStack(w)
             \/ ReadSummary(w) \/ ObserveStack(w) \/ AttachOutputs(w)
    BY <1>1, <2>1 DEF Claim, MakeWorkspace, LockWorkspace, Preflight, SelectStack, ReadSummary,
                      ObserveStack, AttachOutputs
  <2>2. QED
    BY <1>2, <1>3, <1>5, <1>8, <2>1 DEF Call
<1>9. CASE \/ \E w \in Workers : Crash(w) \/ Ages(w)
           \/ RecoverExpiredDispatch \/ NextOperation \/ CleanupStaleWorkspaces
           \/ ManualUpdate \/ LeaseExpires \/ UNCHANGED vars
  BY <1>1, <1>9 DEF Crash, Ages, RecoverExpiredDispatch, NextOperation, CleanupStaleWorkspaces,
                    ManualUpdate, LeaseExpires, vars
<1>10. QED
  BY <1>6, <1>7, <1>8, <1>9 DEF Next

\* The Pulumi provisioner keeps the provisioner contract: an operation's update
\* is started at most once and never after a conclusive answer, and the first
\* conclusive answer recorded is true for good, although there is no journal,
\* leases are not looked at before the launch and the history is shared with
\* updates made by hand (Submit, Observe, observeStack).
THEOREM ContractKept == Spec => ImplementsContract
<1>1. Init => Contract!Init
  BY DEF Init, Contract!Init, Work
<1>2. IInv /\ IInv' /\ [Next]_vars => [Contract!Next]_(Contract!contract)
  BY StepImplements
<1>3. QED
  BY <1>1, <1>2, Invariant, PTL DEF Spec, ImplementsContract, Contract!Spec

=============================================================================
