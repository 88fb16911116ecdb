------------------------------ MODULE OpenTofu ------------------------------
(***************************************************************************)
(* The OpenTofu provisioner (internal/provisioning/opentofu) and its       *)
(* evidence journal (persistence/postgres/opentofu_evidence.go), for one   *)
(* resource and the operations that follow one another on it.              *)
(*                                                                         *)
(* Every action is one journal transaction, one call of the tofu binary, a *)
(* step of the tofu process itself or a fault.  The record version of a    *)
(* journal row follows from its phase (each phase is reached by one path   *)
(* length), so comparing phases is comparing versions.  As in Execution, a *)
(* lease token is the worker that drew it.  Capability, spec and output    *)
(* values are abstracted: a plan is identified by the operation it is for  *)
(* and the state it was computed from.                                     *)
(***************************************************************************)
EXTENDS Naturals, FiniteSets

CONSTANTS
  Workers,     \* worker loops that call the provisioner
  MaxOps,      \* bound on the operations of the resource
  Generation,  \* target generation of each operation
  NoWorker,    \* holder of a message that is not leased
  MaxFaults    \* bound on crashes, pauses, failing calls and disturbances

Ops == 1..MaxOps

ASSUME OpenTofuAssumption ==
  /\ NoWorker \notin Workers
  /\ MaxOps \in Nat \ {0} /\ MaxFaults \in Nat
  /\ Generation \in [Ops -> Nat]

Phases == {"None", "Prepared", "ApplyMayStart", "ApplyExited", "ApplyOutcomeUnknown",
           "ObservedConverged"}

TofuStates == {"None", "Started", "Locked", "Full", "Partial", "Refused"}

Answers == {"NotAttempted", "Rejected", "Ambiguous", "Succeeded"}

Sources == {"Registered", "Changed"}

Outputs == {"None", "Available", "Unavailable", "Invalid"}

Steps == {"idle", "prepare", "bind", "copy", "assemble", "init", "plan", "show", "journal",
          "apply", "await", "broken", "exited", "load", "loadBinding", "pull", "verify", "outputs",
          "repull", "update", "uncertain", "converge", "answer"}

VARIABLES
  current,   \* the operation being executed
  message,   \* its outbox message
  verdict,   \* conclusive answer recorded for each operation
  journal,   \* phase of the attempt evidence of each operation
  binding,   \* state binding of the resource
  state,     \* control state in the backend
  past,      \* control states the backend held before
  tofu,      \* the apply process of each operation
  applies,   \* history: how often an apply was started
  base,      \* control state each saved plan was computed from
  worker,    \* what each worker loop is doing
  kept,      \* operations whose apply workspace is in quarantine
  orphans,   \* operations whose apply workspace a crash left in the work root
  source,    \* the program's source directory
  built,     \* history: source each started apply was made from
  disturbed, \* the control state, the workload or the program was tampered with
  faults     \* faults used up so far

evidence == <<journal, binding>>
engine == <<state, past, tofu, applies, base>>
files == <<kept, orphans>>
program == <<source, built>>
vars == <<current, message, verdict, journal, binding, state, past, tofu, applies, base, worker,
          kept, orphans, source, built, disturbed, faults>>

\* Lineage is fixed when the state is created; the digest identifies a write.
States == [serial: Nat, digest: Nat, marker: 0..MaxOps, converged: BOOLEAN]

NoState == [serial |-> 0, digest |-> 0]

Evidences == [serial: Nat, digest: Nat]

Bindings == [version: Nat, state: Evidences]

Messages == [kind: {"Dispatch", "Observe"}, holder: Workers \cup {NoWorker}, live: BOOLEAN,
             open: BOOLEAN]

Calls == [step: Steps, kind: {"Dispatch", "Observe"}, op: 0..MaxOps, binding: Bindings,
          phase: Phases, pulled: Evidences, outputs: Outputs, producer: 0..MaxOps, copy: Sources,
          uncertain: BOOLEAN, answer: Answers]

TypeOK ==
  /\ current \in Ops
  /\ message \in Messages
  /\ verdict \in [Ops -> {"None", "Rejected", "Succeeded"}]
  /\ journal \in [Ops -> Phases]
  /\ binding \in Bindings
  /\ state \in States
  /\ past \subseteq States
  /\ tofu \in [Ops -> TofuStates]
  /\ applies \in [Ops -> Nat]
  /\ base \in [Ops -> Evidences]
  /\ worker \in [Workers -> Calls]
  /\ kept \subseteq Ops /\ orphans \subseteq Ops
  /\ source \in Sources /\ built \in [Ops -> Sources]
  /\ disturbed \in BOOLEAN
  /\ faults \in 0..MaxFaults

NoBinding == [version |-> 0, state |-> NoState]

Idle == [step |-> "idle", kind |-> "Dispatch", op |-> 0, binding |-> NoBinding, phase |-> "None",
         pulled |-> NoState, outputs |-> "None", producer |-> 0, copy |-> "Registered",
         uncertain |-> FALSE, answer |-> "Ambiguous"]

NewMessage(kind) == [kind |-> kind, holder |-> NoWorker, live |-> FALSE, open |-> TRUE]

EmptyState == [serial |-> 0, digest |-> 0, marker |-> 0, converged |-> TRUE]

Init ==
  /\ current = 1
  /\ message = NewMessage("Dispatch")
  /\ verdict = [o \in Ops |-> "None"]
  /\ journal = [o \in Ops |-> "None"]
  /\ binding = NoBinding
  /\ state = EmptyState
  /\ past = {}
  /\ tofu = [o \in Ops |-> "None"]
  /\ applies = [o \in Ops |-> 0]
  /\ base = [o \in Ops |-> NoState]
  /\ worker = [w \in Workers |-> Idle]
  /\ kept = {} /\ orphans = {}
  /\ source = "Registered" /\ built = [o \in Ops |-> "Registered"]
  /\ disturbed = FALSE
  /\ faults = 0

Fault == faults < MaxFaults /\ faults' = faults + 1

-----------------------------------------------------------------------------
(* The evidence store. *)

\* Mutant: an outcome once noted as unknown stays unknown.
CanAdvanceToExited(from, to) ==
  <<from, to>> \in {<<"Prepared", "ApplyMayStart">>,
                    <<"ApplyMayStart", "ApplyExited">>,
                    <<"ApplyMayStart", "ApplyOutcomeUnknown">>,
                    <<"ApplyExited", "ObservedConverged">>}

\* CanAdvanceTo: the only legal durable phase edges.
CanAdvanceTo(from, to) ==
  <<from, to>> \in {<<"Prepared", "ApplyMayStart">>,
                    <<"ApplyMayStart", "ApplyExited">>,
                    <<"ApplyMayStart", "ApplyOutcomeUnknown">>,
                    <<"ApplyExited", "ObservedConverged">>,
                    <<"ApplyOutcomeUnknown", "ObservedConverged">>}

\* Mutant: the fence does not look at the lease.
FenceByOperation(w, allowObserve) ==
  /\ message.open
  /\ worker[w].op = current
  /\ worker[w].kind = "Dispatch" \/ allowObserve

\* validateOpenTofuFence: the message that authorizes the call is still leased
\* to the caller, unexpired, and about the execution's current attempt.
Fence(w, allowObserve) ==
  /\ message.open /\ message.live /\ message.holder = w
  /\ message.kind = worker[w].kind
  /\ worker[w].op = current
  /\ worker[w].kind = "Dispatch" \/ allowObserve

\* AdvanceAttempt's condition, for a caller that read phase `from`.
Advances(w, from, to) ==
  /\ CanAdvanceTo(from, to)
  /\ Fence(w, to \in {"ApplyOutcomeUnknown", "ObservedConverged"})
  /\ journal[worker[w].op] = from

\* Mutant: a serial may also go back.
CompatibleIfKnown(previous, now) == now.serial = previous.serial => now.digest = previous.digest

\* stateCompatible, for a bound state that may be absent.  The lineage of a
\* state key never changes, a pulled state without lineage is invalid.
StateCompatible(previous, now) ==
  /\ now.serial > 0
  /\ now.serial >= previous.serial
  /\ now.serial = previous.serial => now.digest = previous.digest

Evidence(s) == [serial |-> s.serial, digest |-> s.digest]

-----------------------------------------------------------------------------
(* Calls and their workspaces. *)

At(w, step) == worker[w].step = step

Goto(w, step) == worker' = [worker EXCEPT ![w].step = step]

\* The call's own operation did not start an apply in this workspace.
Applied(w) == worker[w].kind = "Dispatch" /\ worker[w].step \in {"await", "broken", "exited",
                 "verify", "outputs", "pull", "update", "converge"}

\* The call returns; the deferred close moves an uncertain workspace to the
\* quarantine and removes any other.
Return(w, answer) ==
  /\ worker' = [worker EXCEPT ![w].step = "answer", ![w].answer = answer]
  /\ kept' = IF Applied(w) /\ worker[w].uncertain THEN kept \cup {worker[w].op} ELSE kept
  /\ UNCHANGED orphans

\* A converged call removes its workspace, and errs when it cannot.
ReturnCertain(w, answer) ==
  /\ worker' = [worker EXCEPT ![w].step = "answer", ![w].answer = answer,
                              ![w].uncertain = FALSE]
  /\ UNCHANGED files

\* A journal write that fails although it was allowed, or whose answer is lost.
JournalFails(w, from, to) ==
  /\ Fault
  /\ Return(w, "Ambiguous")
  /\ \/ UNCHANGED journal
     \/ /\ Advances(w, from, to)
        /\ journal' = [journal EXCEPT ![worker[w].op] = to]

-----------------------------------------------------------------------------
(* The worker around the provisioner; its own protocol is Execution. *)

\* An expired dispatch may be redelivered (CanRedeliverExpiredDispatch).
Claim(w) ==
  /\ At(w, "idle")
  /\ message.open /\ ~message.live
  /\ message' = [message EXCEPT !.holder = w, !.live = TRUE]
  /\ worker' = [worker EXCEPT ![w] = [Idle EXCEPT
                  !.step = IF message.kind = "Dispatch" THEN "prepare" ELSE "load",
                  !.kind = message.kind, !.op = current]]
  /\ UNCHANGED <<current, verdict, evidence, engine, files, program, disturbed, faults>>

Owns(w) == message.open /\ message.live /\ message.holder = w

\* The answer is recorded under the lease, or dropped without it.
Record(w) ==
  /\ At(w, "answer")
  /\ worker' = [worker EXCEPT ![w] = Idle]
  /\ UNCHANGED <<current, evidence, engine, files, program, disturbed, faults>>
  /\ \/ /\ ~Owns(w)
        /\ UNCHANGED <<message, verdict>>
     \/ /\ Owns(w)
        /\ CASE worker[w].answer = "NotAttempted" ->
                  message' = NewMessage("Dispatch") /\ UNCHANGED verdict
             [] worker[w].answer = "Ambiguous" ->
                  message' = NewMessage("Observe") /\ UNCHANGED verdict
             [] OTHER ->
                  /\ message' = [message EXCEPT !.open = FALSE, !.live = FALSE]
                  /\ verdict' = [verdict EXCEPT ![worker[w].op] = worker[w].answer]

\* The next operation is admitted once the current one is settled.
NextOperation ==
  /\ ~message.open
  /\ current < MaxOps
  /\ current' = current + 1
  /\ message' = NewMessage("Dispatch")
  /\ UNCHANGED <<verdict, evidence, engine, worker, files, program, disturbed, faults>>

-----------------------------------------------------------------------------
(* SubmitFenced. *)

\* Mutant: a second dispatch of an attempt starts over.
PrepareAttemptAnew(w) ==
  /\ At(w, "prepare")
  /\ Fence(w, FALSE)
  /\ journal' = [journal EXCEPT ![worker[w].op] = "Prepared"]
  /\ Goto(w, "bind")
  /\ UNCHANGED <<current, message, verdict, binding, engine, files, program, disturbed, faults>>

\* prepareAttempt and what an evidence failure there means.
PrepareAttempt(w) ==
  LET o == worker[w].op
  IN  /\ At(w, "prepare")
      /\ \/ /\ Fence(w, FALSE) /\ journal[o] \in {"None", "Prepared"}
            /\ journal' = [journal EXCEPT ![o] = "Prepared"]
            /\ Goto(w, "bind")
            /\ UNCHANGED <<faults, files>>
         \/ /\ ~Fence(w, FALSE) \/ journal[o] \notin {"None", "Prepared"}
            /\ Return(w, "Ambiguous")
            /\ UNCHANGED <<journal, faults>>
         \/ /\ Fault
            /\ Return(w, "NotAttempted")
            /\ UNCHANGED journal
      /\ UNCHANGED <<current, message, verdict, binding, engine, program, disturbed>>

\* ensureBinding: create the binding, or read the one that exists.
EnsureBinding(w) ==
  LET bound == IF binding.version = 0 THEN [NoBinding EXCEPT !.version = 1] ELSE binding
  IN  /\ At(w, "bind")
      /\ \/ /\ Fence(w, TRUE)
            /\ binding' = bound
            /\ worker' = [worker EXCEPT ![w].step = "copy", ![w].binding = bound]
            /\ UNCHANGED <<faults, files>>
         \/ /\ ~Fence(w, TRUE)
            /\ Return(w, "Ambiguous")
            /\ UNCHANGED <<binding, faults>>
         \/ /\ Fault
            /\ Return(w, "NotAttempted")
            /\ UNCHANGED binding
      /\ UNCHANGED <<current, message, verdict, journal, engine, program, disturbed>>

StateLocked == \E o \in Ops : tofu[o] = "Locked"

\* How a failing preparation of the workspace ends: a dispatch is not
\* attempted or conclusively refused, an observation knows nothing.
Unavailable(w) == Return(w, IF worker[w].kind = "Dispatch" THEN "NotAttempted" ELSE "Ambiguous")

Refuse(w) == Return(w, IF worker[w].kind = "Dispatch" THEN "Rejected" ELSE "Ambiguous")

\* A refusal whose workspace cannot be removed is an error of its own.
RefuseUnclosed(w) == Return(w, "Ambiguous")

\* newWorkspace and the copying half of copySource.
CopySource(w) ==
  /\ At(w, "copy")
  /\ worker' = [worker EXCEPT ![w].step = "assemble", ![w].copy = source]
  /\ UNCHANGED <<current, message, verdict, evidence, engine, files, program, disturbed, faults>>

\* SourceDigest of the copied files.
DigestOfCopy(w) == worker[w].copy

\* The rest of assemble: digest, supply chain, variables and environment.
Assemble(w) ==
  LET ok == DigestOfCopy(w) = "Registered"
  IN  /\ At(w, "assemble")
      /\ \/ ok /\ Goto(w, "init") /\ UNCHANGED <<faults, files>>
         \/ ~ok /\ Refuse(w) /\ UNCHANGED faults
         \/ Fault /\ (Refuse(w) \/ Unavailable(w))
      /\ UNCHANGED <<current, message, verdict, evidence, engine, program, disturbed>>

\* init: deterministic rejections are told from anything else.
InitWorkspace(w) ==
  /\ At(w, "init")
  /\ \/ Goto(w, IF worker[w].kind = "Dispatch" THEN "plan" ELSE "pull")
        /\ UNCHANGED <<faults, files>>
     \/ Fault /\ (Refuse(w) \/ RefuseUnclosed(w) \/ Unavailable(w))
  /\ UNCHANGED <<current, message, verdict, evidence, engine, program, disturbed>>

\* plan: under the state lock, which may be held; otherwise like init.
SavePlan(w) ==
  LET o == worker[w].op
  IN  /\ At(w, "plan")
      /\ \/ /\ ~StateLocked
            /\ base' = [base EXCEPT ![o] = Evidence(state)]
            /\ Goto(w, "show")
            /\ UNCHANGED <<faults, files>>
         \/ /\ StateLocked
            /\ Unavailable(w)
            /\ UNCHANGED <<base, faults>>
         \/ /\ Fault
            /\ Refuse(w) \/ RefuseUnclosed(w) \/ Unavailable(w)
            /\ UNCHANGED base
      /\ UNCHANGED <<current, message, verdict, evidence, state, past, tofu, applies, program,
                     disturbed>>

\* show and validatePlan: unregistered addresses or actions are refused.
InspectPlan(w) ==
  /\ At(w, "show")
  /\ \/ Goto(w, "journal") /\ UNCHANGED <<faults, files>>
     \/ Refuse(w) /\ UNCHANGED faults
     \/ Fault /\ (RefuseUnclosed(w) \/ Unavailable(w))
  /\ UNCHANGED <<current, message, verdict, evidence, engine, program, disturbed>>

\* The point of no return.  When the journal refuses, or its answer is lost,
\* the workspace is kept and the outcome is ambiguous.
JournalMayStart(w) ==
  LET o == worker[w].op
      ok == Advances(w, "Prepared", "ApplyMayStart")
  IN  /\ At(w, "journal")
      /\ \/ /\ ok
            /\ journal' = [journal EXCEPT ![o] = "ApplyMayStart"]
            /\ worker' = [worker EXCEPT ![w].step = "apply", ![w].uncertain = TRUE]
            /\ UNCHANGED <<faults, files>>
         \/ /\ ~ok
            /\ Return(w, "Ambiguous")
            /\ UNCHANGED <<journal, faults>>
         \/ JournalFails(w, "Prepared", "ApplyMayStart")
      /\ UNCHANGED <<current, message, verdict, binding, engine, program, disturbed>>

\* The apply of the saved plan is started, or the call was cancelled before.
StartApply(w) ==
  LET o == worker[w].op
  IN  /\ At(w, "apply")
      /\ \/ /\ tofu' = [tofu EXCEPT ![o] = "Started"]
            /\ applies' = [applies EXCEPT ![o] = @ + 1]
            /\ built' = [built EXCEPT ![o] = worker[w].copy]
            /\ Goto(w, "await")
            /\ UNCHANGED <<faults, files>>
         \/ /\ Fault
            /\ Return(w, "Ambiguous")
            /\ UNCHANGED <<tofu, applies, built>>
      /\ UNCHANGED <<current, message, verdict, evidence, state, past, base, source, disturbed>>

\* What is left of a process whose group is interrupted and killed.
Interrupted(process) ==
  CASE process = "Started" -> "Refused"
    [] process = "Locked"  -> "Partial"
    [] OTHER               -> process

\* The command returns.  Its success counts only without overflow, timeout or
\* protocol error; on cancellation the process group is brought down first.
ApplyReturns(w) ==
  LET o == worker[w].op
  IN  /\ At(w, "await")
      /\ \/ /\ tofu[o] = "Full"
            /\ Goto(w, "exited")
            /\ UNCHANGED <<state, tofu, faults>>
         \/ /\ tofu[o] \in {"Partial", "Refused"}
            /\ Goto(w, "broken")
            /\ UNCHANGED <<state, tofu, faults>>
         \/ /\ Fault
            /\ tofu' = [tofu EXCEPT ![o] = Interrupted(@)]
            /\ state' = [state EXCEPT !.converged = @ /\ tofu[o] # "Locked"]
            /\ Goto(w, "broken")
      /\ UNCHANGED <<current, message, verdict, evidence, past, applies, base, files, program,
                     disturbed>>

\* A failed apply: the outcome is noted as unknown if that is still possible.
JournalOutcomeUnknown(w) ==
  LET o == worker[w].op
  IN  /\ At(w, "broken")
      /\ \/ /\ journal' = IF Advances(w, "ApplyMayStart", "ApplyOutcomeUnknown")
                          THEN [journal EXCEPT ![o] = "ApplyOutcomeUnknown"] ELSE journal
            /\ Return(w, "Ambiguous")
            /\ UNCHANGED faults
         \/ JournalFails(w, "ApplyMayStart", "ApplyOutcomeUnknown")
      /\ UNCHANGED <<current, message, verdict, binding, engine, program, disturbed>>

\* A clean exit is journalled, unless the journal refuses or fails.
JournalExited(w) ==
  LET o == worker[w].op
      ok == Advances(w, "ApplyMayStart", "ApplyExited")
  IN  /\ At(w, "exited")
      /\ \/ /\ ok
            /\ journal' = [journal EXCEPT ![o] = "ApplyExited"]
            /\ worker' = [worker EXCEPT ![w].step = "verify", ![w].phase = "ApplyExited"]
            /\ UNCHANGED <<faults, files>>
         \/ /\ ~ok
            /\ Return(w, "Ambiguous")
            /\ UNCHANGED <<journal, faults>>
         \/ JournalFails(w, "ApplyMayStart", "ApplyExited")
      /\ UNCHANGED <<current, message, verdict, binding, engine, program, disturbed>>

-----------------------------------------------------------------------------
(* ObserveFenced. *)

\* An attempt that never got past Prepared is conclusively not started.
NotStarted == {"None", "Prepared"}

LoadAttempt(w) ==
  LET o == worker[w].op
  IN  /\ At(w, "load")
      /\ \/ /\ journal[o] \in NotStarted
            /\ Return(w, "Rejected")
            /\ UNCHANGED faults
         \/ /\ journal[o] \notin NotStarted
            /\ worker' = [worker EXCEPT ![w].step = "loadBinding", ![w].phase = journal[o]]
            /\ UNCHANGED <<faults, files>>
         \/ /\ Fault
            /\ Return(w, "Ambiguous")
      /\ UNCHANGED <<current, message, verdict, evidence, engine, program, disturbed>>

LoadStateBinding(w) ==
  /\ At(w, "loadBinding")
  /\ \/ /\ binding.version # 0
        /\ worker' = [worker EXCEPT ![w].step = "copy", ![w].binding = binding]
        /\ UNCHANGED <<faults, files>>
     \/ /\ Fault
        /\ Return(w, "Ambiguous")
  /\ UNCHANGED <<current, message, verdict, evidence, engine, program, disturbed>>

-----------------------------------------------------------------------------
(* Verification, shared by the two entry points. *)

\* The state is pulled and compared: after verification by a dispatch, before
\* and after it by an observation.
PullState(w) ==
  LET call == worker[w]
      now == Evidence(state)
      last == call.kind = "Dispatch" \/ At(w, "repull")
      ok == /\ StateCompatible(call.binding.state, now)
            /\ At(w, "repull") => StateCompatible(call.pulled, now)
  IN  /\ At(w, "pull") \/ At(w, "repull")
      /\ \/ /\ ok
            /\ worker' = [worker EXCEPT ![w].pulled = now,
                                        ![w].step = IF last THEN "update" ELSE "verify"]
            /\ UNCHANGED <<faults, files>>
         \/ /\ ~ok
            /\ Return(w, "Ambiguous")
            /\ UNCHANGED faults
         \/ /\ Fault
            /\ Return(w, "Ambiguous")
      /\ UNCHANGED <<current, message, verdict, evidence, engine, program, disturbed>>

\* The verification plan has no changes, and its control marker names this
\* operation and attempt.
ConvergedFor(o) == state.converged /\ state.marker = o

VerifyConvergence(w) ==
  LET ok == ~StateLocked /\ ConvergedFor(worker[w].op)
  IN  /\ At(w, "verify")
      /\ \/ /\ ok
            /\ Goto(w, "outputs")
            /\ UNCHANGED <<faults, files>>
         \/ /\ ~ok
            /\ Return(w, "Ambiguous")
            /\ UNCHANGED faults
         \/ /\ Fault
            /\ Return(w, "Ambiguous")
      /\ UNCHANGED <<current, message, verdict, evidence, engine, program, disturbed>>

\* decodeOutputs: the envelope must carry this resource's target generation.
DecodeOutputs(o) ==
  IF state.marker # 0 /\ Generation[state.marker] = Generation[o] THEN "Available" ELSE "Invalid"

\* `output -json` is a call of its own, after the plan.
ReadOutputs(w) ==
  LET next == IF worker[w].kind = "Dispatch" THEN "pull" ELSE "repull"
  IN  /\ At(w, "outputs")
      /\ \/ /\ worker' = [worker EXCEPT ![w].step = next, ![w].producer = state.marker,
                                        ![w].outputs = DecodeOutputs(worker[w].op)]
            /\ UNCHANGED faults
         \/ /\ Fault
            /\ worker' = [worker EXCEPT ![w].step = next, ![w].outputs = "Unavailable"]
      /\ UNCHANGED <<current, message, verdict, evidence, engine, files, program, disturbed>>

\* UpdateState: compare-and-swap on the binding; an observation that saw the
\* bound state already skips it.
UpdateState(w) ==
  LET call == worker[w]
      skip == call.kind = "Observe" /\ call.pulled = call.binding.state
      ok == /\ Fence(w, TRUE)
            /\ binding.version = call.binding.version
            /\ journal[call.op] # "Prepared"
  IN  /\ At(w, "update")
      /\ \/ /\ skip
            /\ Goto(w, "uncertain")
            /\ UNCHANGED <<binding, files, faults>>
         \/ /\ ~skip /\ ok
            /\ binding' = [version |-> binding.version + 1, state |-> call.pulled]
            /\ Goto(w, IF call.kind = "Dispatch" THEN "converge" ELSE "uncertain")
            /\ UNCHANGED <<files, faults>>
         \/ /\ ~skip /\ ~ok
            /\ Return(w, "Ambiguous")
            /\ UNCHANGED <<binding, faults>>
         \/ /\ ~skip /\ Fault
            /\ Return(w, "Ambiguous")
            /\ UNCHANGED binding
      /\ UNCHANGED <<current, message, verdict, journal, engine, program, disturbed>>

\* An observation that converged first notes that the apply's exit was missed.
NoteMissedExit(w) ==
  LET o == worker[w].op
      missed == worker[w].phase = "ApplyMayStart"
      ok == Advances(w, "ApplyMayStart", "ApplyOutcomeUnknown")
  IN  /\ At(w, "uncertain")
      /\ \/ /\ ~missed
            /\ Goto(w, "converge")
            /\ UNCHANGED <<journal, faults, files>>
         \/ /\ missed /\ ok
            /\ journal' = [journal EXCEPT ![o] = "ApplyOutcomeUnknown"]
            /\ worker' = [worker EXCEPT ![w].step = "converge",
                                        ![w].phase = "ApplyOutcomeUnknown"]
            /\ UNCHANGED <<faults, files>>
         \/ /\ missed /\ ~ok
            /\ Return(w, "Ambiguous")
            /\ UNCHANGED <<journal, faults>>
         \/ missed /\ JournalFails(w, "ApplyMayStart", "ApplyOutcomeUnknown")
      /\ UNCHANGED <<current, message, verdict, binding, engine, program, disturbed>>

\* The last journal entry; with it the workspace is no longer evidence.
JournalConverged(w) ==
  LET o == worker[w].op
      phase == worker[w].phase
      known == phase = "ObservedConverged"
      ok == Advances(w, phase, "ObservedConverged")
      Certain == \/ ReturnCertain(w, "Succeeded") /\ UNCHANGED faults
                 \/ ReturnCertain(w, "Ambiguous") /\ Fault
  IN  /\ At(w, "converge")
      /\ \/ /\ known
            /\ Certain
            /\ UNCHANGED journal
         \/ /\ ok
            /\ journal' = [journal EXCEPT ![o] = "ObservedConverged"]
            /\ Certain
         \/ /\ ~known /\ ~ok
            /\ Return(w, "Ambiguous")
            /\ UNCHANGED <<journal, faults>>
         \/ ~known /\ JournalFails(w, phase, "ObservedConverged")
      /\ UNCHANGED <<current, message, verdict, binding, engine, program, disturbed>>

-----------------------------------------------------------------------------
(* The tofu process, the backend and faults. *)

\* The saved plan is applied only under the state lock and only to the state
\* it was computed from.
TofuLocks(o) ==
  /\ tofu[o] = "Started"
  /\ tofu' = [tofu EXCEPT ![o] = IF ~StateLocked /\ base[o] = Evidence(state)
                                 THEN "Locked" ELSE "Refused"]
  /\ UNCHANGED <<current, message, verdict, evidence, state, past, applies, base, worker, files,
                 program, disturbed, faults>>

\* The digests seen so far; a new write has a new one.
Digests == {s.digest : s \in past \cup {state}}

FreshDigest == CHOOSE d \in 1..(Cardinality(past) + 2) : d \notin Digests

TofuEnds(o) ==
  /\ tofu[o] = "Locked"
  /\ \E full \in BOOLEAN :
       /\ tofu' = [tofu EXCEPT ![o] = IF full THEN "Full" ELSE "Partial"]
       /\ state' = [serial |-> state.serial + 1, digest |-> FreshDigest,
                    marker |-> IF full THEN o ELSE state.marker, converged |-> full]
  /\ past' = past \cup {state}
  /\ UNCHANGED <<current, message, verdict, evidence, applies, base, worker, files, program,
                 disturbed, faults>>

\* Someone restores an older state, or changes the workload by hand.
Disturb ==
  /\ Fault
  /\ ~StateLocked
  /\ disturbed' = TRUE
  /\ \/ /\ \E s \in past : state' = s
        /\ past' = past \cup {state}
     \/ /\ state' = [state EXCEPT !.converged = FALSE]
        /\ state' # state
        /\ UNCHANGED past
  /\ UNCHANGED <<current, message, verdict, evidence, tofu, applies, base, worker, files, program>>

\* Someone edits the program's source directory, or repairs it.
EditSource ==
  /\ Fault
  /\ source' = IF source = "Registered" THEN "Changed" ELSE "Registered"
  /\ disturbed' = TRUE
  /\ UNCHANGED <<current, message, verdict, evidence, engine, worker, files, built>>

\* The server dies.  Its tofu process is in a group of its own and goes on.
Crash(w) ==
  /\ ~At(w, "idle")
  /\ Fault
  /\ worker' = [worker EXCEPT ![w] = Idle]
  /\ orphans' = IF Applied(w) THEN orphans \cup {worker[w].op} ELSE orphans
  /\ UNCHANGED <<current, message, verdict, evidence, engine, kept, program, disturbed>>

\* scanOrphanWorkspaces at the next start: unlocked workspaces are kept.
ScanOrphans ==
  /\ orphans # {}
  /\ kept' = kept \cup orphans
  /\ orphans' = {}
  /\ UNCHANGED <<current, message, verdict, evidence, engine, worker, program, disturbed, faults>>

LeaseExpires ==
  /\ message.open /\ message.live
  /\ \/ /\ \/ At(message.holder, "idle")
           \/ worker[message.holder].op # current
           \/ worker[message.holder].kind # message.kind
        /\ UNCHANGED faults
     \/ Fault
  /\ message' = [message EXCEPT !.live = FALSE]
  /\ UNCHANGED <<current, verdict, evidence, engine, worker, files, program, disturbed>>

-----------------------------------------------------------------------------
Call(w) ==
  \/ Claim(w) \/ Record(w)
  \/ PrepareAttempt(w) \/ EnsureBinding(w) \/ JournalMayStart(w)
  \/ CopySource(w) \/ Assemble(w) \/ InitWorkspace(w) \/ SavePlan(w) \/ InspectPlan(w)
  \/ StartApply(w) \/ ApplyReturns(w) \/ JournalOutcomeUnknown(w) \/ JournalExited(w)
  \/ LoadAttempt(w) \/ LoadStateBinding(w)
  \/ VerifyConvergence(w) \/ ReadOutputs(w) \/ PullState(w) \/ UpdateState(w)
  \/ NoteMissedExit(w) \/ JournalConverged(w)

Process(o) == TofuLocks(o) \/ TofuEnds(o)

Next ==
  \/ \E w \in Workers : Call(w) \/ Crash(w)
  \/ \E o \in Ops : Process(o)
  \/ NextOperation \/ Disturb \/ EditSource \/ ScanOrphans \/ LeaseExpires

Spec == Init /\ [][Next]_vars

\* Workers poll and return from their calls, processes end, leases run out.
Fairness ==
  /\ \A w \in Workers : WF_vars(Call(w))
  /\ \A o \in Ops : WF_vars(Process(o))
  /\ WF_vars(LeaseExpires)

FairSpec == Spec /\ Fairness

-----------------------------------------------------------------------------
(* Properties. *)

\* AttemptApplyMayStart is "durable ambiguity evidence": however often the
\* attempt is redelivered, an apply is started at most once (SubmitFenced).
AppliedOnce == \A o \in Ops : applies[o] <= 1

\* No tofu process of a settled operation is alive: an operation is settled
\* only when its apply can no longer run, so applies of one resource never
\* overlap, even without the backend's lock (SubmitFenced, observe).
SettledNeverApplies ==
  \A o \in Ops : tofu[o] \in {"Started", "Locked"} => o = current /\ verdict[o] = "None"

\* A workspace in which an apply was started survives until the journal says
\* that it converged: it is in use, quarantined or found by the next scan
\* (workspace.close, scanOrphanWorkspaces).
ApplyWorkspaceKept ==
  \A o \in Ops :
    applies[o] > 0 /\ journal[o] # "ObservedConverged" =>
      \/ o \in kept \cup orphans
      \/ \E w \in Workers : worker[w].op = o /\ Applied(w) /\ worker[w].uncertain

\* Whoever edits the program while it is being copied: what is applied is the
\* registered source (copySource digests the copy, not the original).
AppliedSourceIsRegistered == \A o \in Ops : built[o] = "Registered"

\* Whoever crashes, is paused or edits the program: an attempt is applied at most
\* once and from the registered source, never beside or after its verdict, and
\* what it left on disk is there until the journal is conclusive (SubmitFenced).
AppliesAreSafe ==
  /\ TypeOK
  /\ AppliedOnce
  /\ SettledNeverApplies
  /\ ApplyWorkspaceKept
  /\ AppliedSourceIsRegistered

\* Outputs that a successful call hands to the worker are those of its own
\* target generation (decodeOutputs after verifyConvergence).
OutputsBelong ==
  \A w \in Workers :
    At(w, "answer") /\ worker[w].answer = "Succeeded" /\ worker[w].outputs = "Available" =>
      /\ worker[w].producer # 0
      /\ Generation[worker[w].producer] = Generation[worker[w].op]

\* The state that a call trusts is the resource's own and the newest: the bound
\* control state never goes back, also when the backend is rolled back under
\* concurrent calls, and no outputs of another operation are handed out
\* (stateCompatible, UpdateState, decodeOutputs).
StateIsTrusted ==
  [][/\ binding'.state # binding.state => binding'.state.serial > binding.state.serial
     /\ OutputsBelong']_vars

\* The control state and the verdicts implement what the worker relies on.
Work == [o \in Ops |-> CASE tofu[o] = "None" -> "None"
                         [] tofu[o] \in {"Started", "Locked"} -> "Running"
                         [] tofu[o] = "Full" -> "Done"
                         [] OTHER -> "Broken"]

Contract == INSTANCE ProvisionerContract WITH Attempts <- Ops, work <- Work

\* The answers recorded for an operation are true for good: a rejected one
\* never applies, before or after, a successful one was applied in full.
ImplementsContract == Contract!Spec

\* An apply that went through is recognised in the end, by its own call or by
\* an observation, unless someone disturbs the state, workload or program.
FullApplySettles ==
  \A o \in Ops : tofu[o] = "Full" ~> (verdict[o] = "Succeeded" \/ disturbed)
=============================================================================
