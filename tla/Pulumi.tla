------------------------------- MODULE Pulumi -------------------------------
(***************************************************************************)
(* The Pulumi provisioner (internal/provisioning/pulumi) for one resource, *)
(* that is for one stack, and the operations that follow one another on    *)
(* it.  It has no journal: an update is recognised by the correlation      *)
(* message that it leaves in the history of the stack, and the worker      *)
(* never hands an attempt out twice (Execution, CanRedeliver).             *)
(*                                                                         *)
(* Every action is one step of a Submit or Observe call, a step of the     *)
(* pulumi process or a fault.  A history entry is the operation whose      *)
(* message it carries (0: an update made by hand) with its result; the     *)
(* newest entry comes first.  A lease token is the worker that drew it.    *)
(***************************************************************************)
EXTENDS Naturals, Sequences, FiniteSets

CONSTANTS
  Workers,     \* worker loops, each in a server of its own
  MaxOps,      \* bound on the operations of the resource
  Generation,  \* target generation of each operation
  PageSize,    \* HistoryPageSize
  MaxPages,    \* HistoryMaximumPages
  NoWorker,    \* holder of a message that is not leased
  MaxFaults    \* bound on crashes, pauses, failing calls and manual updates

Ops == 1..MaxOps

ASSUME PulumiAssumption ==
  /\ NoWorker \notin Workers
  /\ MaxOps \in Nat \ {0} /\ MaxFaults \in Nat
  /\ PageSize \in Nat \ {0} /\ MaxPages \in Nat \ {0}
  /\ Generation \in [Ops -> Nat]

\* The history entry of an update, once it has ended.
Entries == [op: 0..MaxOps, result: {"succeeded", "failed"}]

ProcessStates == {"None", "Running", "Succeeded", "Failed", "Lost"}

Answers == {"Rejected", "Unknown", "Succeeded", "Failed"}

Outputs == {"None", "Available", "Unavailable", "Invalid"}

WorkspaceStates == {"None", "Made", "Locked", "Left"}

Steps == {"idle", "mkdir", "lock", "preflight", "select", "launch", "run", "summary", "observe",
          "outputs", "answer"}

VARIABLES
  current,  \* the operation being executed
  message,  \* its outbox message
  verdict,  \* conclusive answer recorded for each operation
  stack,    \* the stack: whether it exists, its history and who made its outputs
  process,  \* the pulumi process of each operation
  launches, \* history: how often each operation's update was started
  worker,   \* what each worker loop is doing
  space,    \* workspace directory of each worker's server
  aged,     \* workspaces older than StaleWorkspaceAge
  faults    \* faults used up so far

directories == <<space, aged>>
vars == <<current, message, verdict, stack, process, launches, worker, space, aged, faults>>

Messages == [kind: {"Dispatch", "Observe"}, holder: Workers \cup {NoWorker}, live: BOOLEAN,
             open: BOOLEAN]

Stacks == [exists: BOOLEAN, history: Seq(Entries), producer: 0..MaxOps]

Calls == [step: Steps, kind: {"Dispatch", "Observe"}, op: 0..MaxOps, answer: Answers,
          outputs: Outputs, producer: 0..MaxOps]

TypeOK ==
  /\ current \in Ops
  /\ message \in Messages
  /\ verdict \in [Ops -> {"None", "Rejected", "Succeeded", "Failed"}]
  /\ stack \in Stacks
  /\ process \in [Ops -> ProcessStates]
  /\ launches \in [Ops -> Nat]
  /\ worker \in [Workers -> Calls]
  /\ space \in [Workers -> WorkspaceStates]
  /\ aged \subseteq Workers
  /\ faults \in 0..MaxFaults

Idle == [step |-> "idle", kind |-> "Dispatch", op |-> 0, answer |-> "Unknown",
         outputs |-> "None", producer |-> 0]

NewMessage(kind) == [kind |-> kind, holder |-> NoWorker, live |-> FALSE, open |-> TRUE]

Init ==
  /\ current = 1
  /\ message = NewMessage("Dispatch")
  /\ verdict = [o \in Ops |-> "None"]
  /\ stack = [exists |-> FALSE, history |-> <<>>, producer |-> 0]
  /\ process = [o \in Ops |-> "None"]
  /\ launches = [o \in Ops |-> 0]
  /\ worker = [w \in Workers |-> Idle]
  /\ space = [w \in Workers |-> "None"]
  /\ aged = {}
  /\ faults = 0

Fault == faults < MaxFaults /\ faults' = faults + 1

At(w, step) == worker[w].step = step

Goto(w, step) == worker' = [worker EXCEPT ![w].step = step]

\* A call returns: the deferred cleanup unlocks and removes its workspace.
Return(w, answer) ==
  /\ worker' = [worker EXCEPT ![w].step = "answer", ![w].answer = answer]
  /\ space' = [space EXCEPT ![w] = "None"]
  /\ aged' = aged \ {w}

\* The first operation creates the resource, the others update it.
Creates(w) == worker[w].op = 1

-----------------------------------------------------------------------------
(* The worker around the provisioner; its own protocol is Execution. *)

\* A pending message, or an expired observation, is claimed.  A server has one
\* workspace at a time here: one that it left in a crash is cleaned up first.
Claim(w) ==
  /\ At(w, "idle") /\ space[w] = "None"
  /\ message.open /\ ~message.live
  /\ message.kind = "Dispatch" => message.holder = NoWorker
  /\ message' = [message EXCEPT !.holder = w, !.live = TRUE]
  /\ worker' = [worker EXCEPT ![w] = [Idle EXCEPT !.step = "mkdir", !.kind = message.kind,
                                                  !.op = current]]
  /\ UNCHANGED <<current, verdict, stack, process, launches, directories, faults>>

\* Mutant: an expired dispatch is handed out again.
RedeliverExpiredDispatch ==
  /\ message.open /\ ~message.live /\ message.kind = "Dispatch"
  /\ message.holder # NoWorker
  /\ message' = NewMessage("Dispatch")
  /\ UNCHANGED <<current, verdict, stack, process, launches, worker, directories, faults>>

\* An expired dispatch is recovered as unknown and only observed from then on.
RecoverExpiredDispatch ==
  /\ message.open /\ ~message.live /\ message.kind = "Dispatch"
  /\ message.holder # NoWorker
  /\ message' = NewMessage("Observe")
  /\ UNCHANGED <<current, verdict, stack, process, launches, worker, directories, faults>>

Owns(w) ==
  /\ message.open /\ message.live /\ message.holder = w
  /\ message.kind = worker[w].kind /\ worker[w].op = current

\* An unknown outcome is observed again, the others settle the operation.
Conclusive(answer) == answer # "Unknown"

\* The answer is recorded under the lease, or dropped without it.
Record(w) ==
  /\ At(w, "answer")
  /\ worker' = [worker EXCEPT ![w] = Idle]
  /\ UNCHANGED <<current, stack, process, launches, directories, faults>>
  /\ \/ ~Owns(w) /\ UNCHANGED <<message, verdict>>
     \/ /\ Owns(w) /\ ~Conclusive(worker[w].answer)
        /\ message' = NewMessage("Observe")
        /\ UNCHANGED verdict
     \/ /\ Owns(w) /\ Conclusive(worker[w].answer)
        /\ message' = [message EXCEPT !.open = FALSE, !.live = FALSE]
        /\ verdict' = [verdict EXCEPT ![worker[w].op] = worker[w].answer]

\* The next operation is admitted once the current one is settled.
NextOperation ==
  /\ ~message.open
  /\ current < MaxOps
  /\ current' = current + 1
  /\ message' = NewMessage("Dispatch")
  /\ UNCHANGED <<verdict, stack, process, launches, worker, directories, faults>>

-----------------------------------------------------------------------------
(* The isolated workspace. *)

MakeWorkspace(w) ==
  /\ At(w, "mkdir")
  /\ space' = [space EXCEPT ![w] = "Made"]
  /\ Goto(w, "lock")
  /\ UNCHANGED <<current, message, verdict, stack, process, launches, aged, faults>>

LockWorkspace(w) ==
  /\ At(w, "lock")
  /\ space' = [space EXCEPT ![w] = "Locked"]
  /\ Goto(w, "preflight")
  /\ UNCHANGED <<current, message, verdict, stack, process, launches, aged, faults>>

\* Mutant: the age of an unlocked workspace does not matter.
StaleAtAnyAge(w) == space[w] \in {"Made", "Left"}

\* inspectWorkspaceLock: a workspace is stale when it is old and not locked.
Stale(w) == space[w] \in {"Made", "Left"} /\ w \in aged

\* cleanupStaleWorkspaces, run by any server that starts.
CleanupStaleWorkspaces ==
  /\ \E w \in Workers : Stale(w)
  /\ space' = [w \in Workers |-> IF Stale(w) THEN "None" ELSE space[w]]
  /\ aged' = {w \in aged : ~Stale(w)}
  /\ UNCHANGED <<current, message, verdict, stack, process, launches, worker, faults>>

\* Time passes for directories that have been there for a while; making and
\* locking one takes less than StaleWorkspaceAge.
Ages(w) ==
  /\ space[w] \in {"Locked", "Left"} /\ w \notin aged
  /\ aged' = aged \cup {w}
  /\ UNCHANGED <<current, message, verdict, stack, process, launches, worker, space, faults>>

-----------------------------------------------------------------------------
(* Submit and Observe up to the stack. *)

\* Environment, input, source copy and automation workspace: a failure is a
\* conclusive rejection of a submission, and tells an observation nothing.
Refuse(w) == Return(w, IF worker[w].kind = "Dispatch" THEN "Rejected" ELSE "Unknown")

Preflight(w) ==
  /\ At(w, "preflight")
  /\ \/ Goto(w, "select") /\ UNCHANGED <<directories, faults>>
     \/ Fault /\ Refuse(w)
  /\ UNCHANGED <<current, message, verdict, stack, process, launches>>

\* SelectStack, and CreateStack when a create finds none; a stack that appears
\* in between is selected.
SelectStack(w) ==
  LET creates == worker[w].kind = "Dispatch" /\ Creates(w)
  IN  /\ At(w, "select")
      /\ \/ /\ stack.exists \/ creates
            /\ stack' = [stack EXCEPT !.exists = TRUE]
            /\ Goto(w, IF worker[w].kind = "Dispatch" THEN "launch" ELSE "observe")
            /\ UNCHANGED <<directories, faults>>
         \/ /\ ~stack.exists /\ ~creates
            /\ Refuse(w)
            /\ UNCHANGED <<stack, faults>>
         \/ /\ Fault
            /\ Refuse(w)
            /\ UNCHANGED stack
      /\ UNCHANGED <<current, message, verdict, process, launches>>

\* Up or Destroy starts the command line with the correlation message.  The
\* lease is not looked at again: a paused worker may get here late.
Launch(w) ==
  LET o == worker[w].op
  IN  /\ At(w, "launch")
      /\ process' = [process EXCEPT ![o] = "Running"]
      /\ launches' = [launches EXCEPT ![o] = @ + 1]
      /\ Goto(w, "run")
      /\ UNCHANGED <<current, message, verdict, stack, directories, faults>>

\* The command returns, or is cancelled and its process group interrupted.
CommandReturns(w) ==
  LET o == worker[w].op
  IN  /\ At(w, "run")
      /\ \/ /\ process[o] = "Succeeded"
            /\ Goto(w, "summary")
            /\ UNCHANGED <<process, faults>>
         \/ /\ process[o] \in {"Failed", "Lost"}
            /\ Goto(w, "observe")
            /\ UNCHANGED <<process, faults>>
         \/ /\ Fault
            /\ process' = [process EXCEPT ![o] = IF @ = "Running" THEN "Lost" ELSE @]
            /\ Goto(w, "observe")
      /\ UNCHANGED <<current, message, verdict, stack, launches, directories>>

-----------------------------------------------------------------------------
(* Recognising an update in the history of the stack. *)

\* The first n entries.
Newest(n) ==
  SubSeq(stack.history, 1, IF Len(stack.history) < n THEN Len(stack.history) ELSE n)

Matches(entries, o) == {i \in DOMAIN entries : entries[i].op = o}

\* observationFromSummary, for an entry that has ended.
FromSummary(entry) == IF entry.result = "succeeded" THEN "Succeeded" ELSE "Failed"

\* Where a call goes with what it found.
Conclude(w, found) ==
  IF found = "Succeeded" THEN Goto(w, "outputs") /\ UNCHANGED directories ELSE Return(w, found)

\* run reads the first ten entries after a successful command; without a
\* correlated entry the history is searched like after a failure.
ReadSummary(w) ==
  LET seen == Newest(10)
      hits == Matches(seen, worker[w].op)
  IN  /\ At(w, "summary")
      /\ \/ /\ hits # {}
            /\ Conclude(w, FromSummary(seen[CHOOSE i \in hits : \A j \in hits : i <= j]))
            /\ UNCHANGED faults
         \/ /\ hits = {}
            /\ Goto(w, "observe")
            /\ UNCHANGED <<directories, faults>>
         \/ /\ Fault
            /\ Goto(w, "observe")
            /\ UNCHANGED directories
      /\ UNCHANGED <<current, message, verdict, stack, process, launches>>

\* Mutant: a full first page ends the search.
ObservedFirstPage(o) ==
  LET hits == Matches(Newest(PageSize), o)
  IN  IF Len(stack.history) >= PageSize \/ Cardinality(hits) # 1 THEN "Unknown"
      ELSE FromSummary(stack.history[CHOOSE i \in hits : TRUE])

\* observeStack: all pages are read; a last page that is full, no match or
\* several matches prove nothing.
Observed(o) ==
  LET hits == Matches(Newest(PageSize * MaxPages), o)
  IN  IF Len(stack.history) >= PageSize * MaxPages \/ Cardinality(hits) # 1 THEN "Unknown"
      ELSE FromSummary(stack.history[CHOOSE i \in hits : TRUE])

ObserveStack(w) ==
  /\ At(w, "observe")
  /\ \/ Conclude(w, Observed(worker[w].op)) /\ UNCHANGED faults
     \/ Fault /\ Return(w, "Unknown")
  /\ UNCHANGED <<current, message, verdict, stack, process, launches>>

\* decodeSelectedOutputEnvelope: mapping, resource and target generation of the
\* envelope must be those of the execution.
DecodeEnvelope(o) ==
  IF stack.producer # 0 /\ Generation[stack.producer] = Generation[o] THEN "Available"
  ELSE "Invalid"

\* attachOutputs reads the selected export with a call of its own; an error of
\* the mapping itself leaves the outcome unknown.
AttachOutputs(w) ==
  LET attached(evidence) ==
        worker' = [worker EXCEPT ![w].step = "answer", ![w].answer = "Succeeded",
                                 ![w].outputs = evidence, ![w].producer = stack.producer]
      closed == space' = [space EXCEPT ![w] = "None"] /\ aged' = aged \ {w}
  IN  /\ At(w, "outputs")
      /\ \/ attached(DecodeEnvelope(worker[w].op)) /\ closed /\ UNCHANGED faults
         \/ Fault /\ attached("Unavailable") /\ closed
         \/ Fault /\ Return(w, "Unknown")
      /\ UNCHANGED <<current, message, verdict, stack, process, launches>>

-----------------------------------------------------------------------------
(* The pulumi process, manual updates and faults. *)

\* The update ends and is entered in the history.
ProcessEnds(o) ==
  /\ process[o] = "Running"
  /\ \E result \in {"succeeded", "failed"} :
       /\ process' = [process EXCEPT ![o] = IF result = "succeeded" THEN "Succeeded" ELSE "Failed"]
       /\ stack' = [stack EXCEPT !.history = <<[op |-> o, result |-> result]>> \o @,
                                 !.producer = IF result = "succeeded" THEN o ELSE @]
  /\ UNCHANGED <<current, message, verdict, launches, worker, directories, faults>>

\* The process dies without an entry.
ProcessLost(o) ==
  /\ process[o] = "Running"
  /\ Fault
  /\ process' = [process EXCEPT ![o] = "Lost"]
  /\ UNCHANGED <<current, message, verdict, stack, launches, worker, directories>>

\* Someone runs an update of the stack by hand, from an older input.
ManualUpdate ==
  /\ stack.exists
  /\ \A o \in Ops : process[o] # "Running"
  /\ Fault
  /\ \E o \in {0} \cup {p \in Ops : process[p] = "Succeeded"} :
       stack' = [stack EXCEPT !.history = <<[op |-> 0, result |-> "succeeded"]>> \o @,
                              !.producer = o]
  /\ UNCHANGED <<current, message, verdict, process, launches, worker, directories>>

\* The server dies and leaves its workspace, unlocked.  Its pulumi process is
\* in a group of its own and goes on.
Crash(w) ==
  /\ ~At(w, "idle")
  /\ Fault
  /\ worker' = [worker EXCEPT ![w] = Idle]
  /\ space' = [space EXCEPT ![w] = IF @ = "None" THEN "None" ELSE "Left"]
  /\ UNCHANGED <<current, message, verdict, stack, process, launches, aged>>

LeaseExpires ==
  /\ message.open /\ message.live
  /\ \/ (~Owns(message.holder) \/ At(message.holder, "idle")) /\ UNCHANGED faults
     \/ Fault
  /\ message' = [message EXCEPT !.live = FALSE]
  /\ UNCHANGED <<current, verdict, stack, process, launches, worker, directories>>

-----------------------------------------------------------------------------
Call(w) ==
  \/ Claim(w) \/ Record(w)
  \/ MakeWorkspace(w) \/ LockWorkspace(w) \/ Preflight(w) \/ SelectStack(w)
  \/ Launch(w) \/ CommandReturns(w) \/ ReadSummary(w) \/ ObserveStack(w) \/ AttachOutputs(w)

Next ==
  \/ \E w \in Workers : Call(w) \/ Crash(w) \/ Ages(w)
  \/ \E o \in Ops : ProcessEnds(o) \/ ProcessLost(o)
  \/ RecoverExpiredDispatch \/ NextOperation \/ CleanupStaleWorkspaces
  \/ ManualUpdate \/ LeaseExpires

Spec == Init /\ [][Next]_vars

\* Workers poll and return, processes end, leases run out, time passes and
\* servers are started again.
Fairness ==
  /\ \A w \in Workers : WF_vars(Call(w)) /\ WF_vars(Ages(w))
  /\ \A o \in Ops : WF_vars(ProcessEnds(o))
  /\ WF_vars(RecoverExpiredDispatch) /\ WF_vars(LeaseExpires) /\ WF_vars(CleanupStaleWorkspaces)

FairSpec == Spec /\ Fairness

-----------------------------------------------------------------------------
(* Properties. *)

\* No start-up of another server removes the workspace of a call in progress
\* (createWorkspace, cleanupStaleWorkspaces).
WorkspaceInUseKept ==
  \A w \in Workers :
    worker[w].step \notin {"idle", "mkdir", "answer"} => space[w] \in {"Made", "Locked"}

\* Outputs handed to the worker are those of the operation's own target
\* generation, whoever updates the stack in between (attachOutputs).
OutputsBelong ==
  \A w \in Workers :
    At(w, "answer") /\ worker[w].answer = "Succeeded" /\ worker[w].outputs = "Available" =>
      /\ worker[w].producer # 0
      /\ Generation[worker[w].producer] = Generation[worker[w].op]

\* Calls do not disturb each other: neither the workspace of a call nor the
\* outputs it hands out are touched by other servers, calls or updates.
CallsAreIsolated == TypeOK /\ WorkspaceInUseKept /\ OutputsBelong

Work == [o \in Ops |-> CASE process[o] = "None" -> "None"
                         [] process[o] = "Running" -> "Running"
                         [] process[o] = "Succeeded" -> "Done"
                         [] OTHER -> "Broken"]

Contract == INSTANCE ProvisionerContract WITH Attempts <- Ops, work <- Work

\* Submit's preflight answers and the history's answers are true for good: a
\* rejected operation never starts an update, a success or failure is that of
\* its one update, although nothing fences a paused worker (Submit, Observe).
ImplementsContract == Contract!Spec

HistoryFits == Len(stack.history) < PageSize * MaxPages

\* An update that ended is recognised, unless the history of the stack has
\* filled all the pages that an observation reads (observeStack).
EndedUpdateSettles ==
  \A o \in Ops : process[o] \in {"Succeeded", "Failed"} ~> (verdict[o] # "None" \/ ~HistoryFits)
=============================================================================
