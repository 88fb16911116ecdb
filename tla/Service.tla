------------------------------ MODULE Service -------------------------------
(***************************************************************************)
(* The service from the outside: a developer's command with its retries,   *)
(* its idempotency key and its wait, the HTTP handlers it calls, and the   *)
(* server process that runs the handlers and the worker and is shut down   *)
(* in order.  A request may be delayed, lost before or after it is         *)
(* handled, and handled when its sender has long stopped waiting.          *)
(*                                                                         *)
(* Admission is one step here (Admission looks inside it), and so is the   *)
(* work on an operation (Execution).  The resource exists from the start;  *)
(* a create is an update without a precondition and adds nothing.          *)
(***************************************************************************)
EXTENDS Naturals, Sequences, FiniteSets

Kinds == {"update", "delete", "retry"}

CONSTANTS
  Attempts,      \* mutateAttempts
  PollFailures,  \* maxConsecutivePollFailures
  Commands,      \* the commands that are tried: kind, --generation given, --wait given
  MaxRuns,       \* bound on the commands
  MaxOps,        \* bound on the operations
  MaxOthers,     \* bound on the operations of other developers
  MaxSetbacks    \* bound on the ends of the server process and the errors of the store

ASSUME BoundsAssumption ==
  /\ {Attempts, PollFailures, MaxRuns, MaxOps} \subseteq Nat \ {0}
  /\ {MaxOthers, MaxSetbacks} \subseteq Nat
  /\ Commands \subseteq [kind : Kinds, pinned : BOOLEAN, wait : BOOLEAN]

VARIABLES
  gen,       \* generation of the resource
  ops,       \* its operations, oldest first
  bound,     \* idempotency records
  cli,       \* the command
  handling,  \* requests that a handler works on
  server,    \* phase, worker, and the waits that ran out of time
  setbacks

vars == <<gen, ops, bound, cli, handling, server, setbacks>>
store == <<gen, ops, bound>>

Answers == {"None", "Accepted", "GenerationConflict", "KeyConflict", "Active", "StateConflict",
            "NotFound", "Internal", "Unavailable", "Transport"}
Phases == {"Serving", "Draining", "StoppingWorker", "ClosingStore", "Exiting", "Stopped"}

\* Exit codes.
ExitOK == 0
ExitFailure == 1
ExitRejected == 4
ExitOperationFailed == 5
ExitInterrupted == 130
NotYet == 999

Admitted(key) == {b \in bound : b.key = key}

Latest == Len(ops)
Running == Latest > 0 /\ ops[Latest].state = "Running"
Deleted == \E i \in DOMAIN ops : ops[i].kind = "delete" /\ ops[i].state = "Succeeded"

TypeOK ==
  /\ gen \in Nat \ {0} /\ Len(ops) <= MaxOps
  /\ \A i \in DOMAIN ops : ops[i].state \in {"Running", "Succeeded", "Failed"}
  /\ \A i \in DOMAIN ops : ops[i].state = "Running" => i = Latest
  /\ cli.pc \in {"idle", "reading", "sending", "sent", "polling", "final", "hung", "done"}
  /\ cli.attempt \in 1..Attempts /\ cli.failures \in 0..PollFailures
  /\ cli.answer \in Answers /\ cli.monitor \in 0..MaxOps
  /\ (cli.pc = "done") = (cli.exit # NotYet)
  /\ server.phase \in Phases /\ server.worker \in {"Idle", "Busy", "Stopped"}
  /\ server.forced \subseteq {"listeners", "worker"}

Init ==
  /\ gen = 1 /\ bound = {}
  /\ ops = <<[kind |-> "update", state |-> "Failed", gen |-> 1]>>
  /\ cli = [pc |-> "idle", kind |-> "update", pinned |-> FALSE, wait |-> FALSE, key |-> 0,
            gen |-> 0, source |-> 0, attempt |-> 1, failures |-> 0, answer |-> "None",
            monitor |-> 0, exit |-> NotYet, late |-> FALSE, advised |-> FALSE, runs |-> 0]
  /\ handling = {}
  /\ server = [phase |-> "Serving", worker |-> "Idle", forced |-> {}]
  /\ setbacks = 0

-----------------------------------------------------------------------------
(* The command line and its client. *)

\* The end of a command; what it was about is only needed to run it again.
Done(c, code) ==
  [c EXCEPT !.pc = "done", !.exit = code, !.attempt = 1, !.failures = 0,
            !.gen = IF c.advised THEN @ ELSE 0, !.source = IF c.advised THEN @ ELSE 0]

\* A command starts with a fresh key; with --generation it says the generation
\* its author has seen, otherwise it reads the resource first.  A delete shows
\* the resource in any case.
Prepared(c) ==
  [c EXCEPT !.pc = IF c.pinned /\ c.kind # "delete" THEN "sending" ELSE "reading",
            !.attempt = 1, !.failures = 0, !.answer = "None", !.monitor = 0,
            !.exit = NotYet, !.late = FALSE, !.advised = FALSE, !.runs = @ + 1]

Begin(kind) ==
  /\ cli.pc = "idle"
  /\ \E command \in Commands :
       /\ command.kind = kind
       /\ cli' = Prepared([cli EXCEPT !.kind = kind, !.pinned = command.pinned,
                                      !.wait = command.wait, !.key = cli.runs + 1,
                                      !.gen = gen, !.source = Latest])
  /\ UNCHANGED <<store, handling, server, setbacks>>

UpdateCommand == Begin("update")
DeleteCommand == Begin("delete")
RetryCommand == Begin("retry")

\* What reportMutationFailure tells its reader to do: the same command again,
\* with the key that it prints.
Rerun ==
  /\ cli.pc = "done" /\ cli.advised /\ cli.runs < MaxRuns
  /\ cli' = Prepared(cli)
  /\ UNCHANGED <<store, handling, server, setbacks>>

\* A read is answered, after a few attempts, or fails.
ReadGeneration ==
  /\ cli.pc = "reading"
  /\ cli' = [cli EXCEPT !.pc = "sending", !.gen = IF cli.pinned THEN @ ELSE gen]
  /\ UNCHANGED <<store, handling, server, setbacks>>

ReadFails ==
  /\ \/ cli.pc = "reading" /\ \E code \in {ExitFailure, ExitRejected} : cli' = Done(cli, code)
     \/ cli.pc = "final" /\ cli' = Done(cli, ExitFailure)
  /\ UNCHANGED <<store, handling, server, setbacks>>

\* One attempt; the bytes and the key are the same in all of them.  It gets to a
\* handler, that may be slow, or to nobody.
Send ==
  /\ cli.pc = "sending"
  /\ \/ UNCHANGED handling
     \/ /\ server.phase = "Serving"
        /\ handling' = handling \cup {[run |-> cli.runs, attempt |-> cli.attempt, key |-> cli.key,
                                       kind |-> cli.kind, gen |-> cli.gen, source |-> cli.source]}
  /\ cli' = [cli EXCEPT !.pc = "sent"]
  /\ UNCHANGED <<store, server, setbacks>>

MayRetry(c) == c.attempt < Attempts

Again(c) == [c EXCEPT !.pc = "sending", !.attempt = @ + 1]

\* No usable answer: the connection failed, or nobody listens.
TransportError ==
  /\ cli.pc = "sent"
  /\ cli' = IF MayRetry(cli) THEN Again(cli)
            ELSE Done([cli EXCEPT !.answer = "Transport", !.advised = TRUE], ExitFailure)
  /\ UNCHANGED <<store, handling, server, setbacks>>

\* Mutant: the newest operation in the body, instead of the one the link names.
FinishMutationLatest(c, op) ==
  LET taken == [c EXCEPT !.answer = "Accepted", !.monitor = Latest]
  IN  IF c.wait THEN [taken EXCEPT !.pc = "polling"] ELSE Done(taken, ExitOK)

\* The answer names the operation that the key admitted.
FinishMutation(c, op) ==
  LET taken == [c EXCEPT !.answer = "Accepted", !.monitor = op]
  IN  IF c.wait THEN [taken EXCEPT !.pc = "polling"] ELSE Done(taken, ExitOK)

\* A status that may be retried is retried, and is a refusal like any other when
\* the attempts are used up.
Receive(c, answer, op) ==
  CASE answer = "Accepted"                    -> FinishMutation(c, op)
    [] answer = "Unavailable" /\ MayRetry(c)  -> Again(c)
    [] OTHER -> Done([c EXCEPT !.answer = answer], ExitRejected)

\* A poll of waitForOperation; a success is shown with the resource.
WaitForOperation(c, state) ==
  CASE state = "Running"   -> [c EXCEPT !.failures = 0]
    [] state = "Succeeded" -> [c EXCEPT !.pc = "final"]
    [] OTHER               -> Done(c, ExitOperationFailed)

\* The same for a retry, which shows the operation.
WaitForRetryOperation(c, state) ==
  CASE state = "Running"   -> [c EXCEPT !.failures = 0]
    [] state = "Succeeded" -> Done(c, ExitOK)
    [] OTHER               -> Done(c, ExitOperationFailed)

Poll ==
  /\ cli.pc = "polling"
  /\ LET state == ops[cli.monitor].state
     IN  cli' = IF cli.kind = "retry" THEN WaitForRetryOperation(cli, state)
                                      ELSE WaitForOperation(cli, state)
  /\ UNCHANGED <<store, handling, server, setbacks>>

\* A poll that fails is counted; one that is refused for good ends the wait.
PollFails ==
  /\ cli.pc = "polling"
  /\ \/ cli' = LET c == [cli EXCEPT !.failures = @ + 1]
               IN  IF c.failures >= PollFailures THEN Done(c, ExitFailure) ELSE c
     \/ cli' = Done(cli, ExitFailure)
  /\ UNCHANGED <<store, handling, server, setbacks>>

\* The last read of a successful wait.
ReadFinal ==
  /\ cli.pc = "final"
  /\ cli' = Done(cli, ExitOK)
  /\ UNCHANGED <<store, handling, server, setbacks>>

\* Mutant: there is no deadline.
NoDeadline == FALSE /\ UNCHANGED vars

\* The deadline is looked at after a poll that did not end the wait.
Deadline ==
  /\ cli.pc = "polling"
  /\ ops[cli.monitor].state = "Running" \/ cli.failures + 1 < PollFailures
  /\ cli' = Done([cli EXCEPT !.late = TRUE], ExitOperationFailed)
  /\ UNCHANGED <<store, handling, server, setbacks>>

\* Nobody ever answers the request under way: the client sets no timeout, and the
\* deadline is not looked at before the answer.  Only its user ends such a command.
Unanswered ==
  /\ cli.pc \in {"reading", "sent", "polling", "final"}
  /\ cli' = [cli EXCEPT !.pc = "hung"]
  /\ UNCHANGED <<store, handling, server, setbacks>>

Interrupt ==
  /\ cli.pc \notin {"idle", "done"}
  /\ cli' = Done(cli, ExitInterrupted)
  /\ UNCHANGED <<store, handling, server, setbacks>>

-----------------------------------------------------------------------------
(* The handlers. *)

Fingerprint(q) ==
  <<q.kind, IF q.kind = "retry" THEN q.source ELSE 0, q.gen>>

\* Mutant: the precondition is looked at before the key.
DecideGenerationFirst(q) ==
  IF q.gen # gen THEN "GenerationConflict"
  ELSE IF \E b \in Admitted(q.key) : b.fingerprint = Fingerprint(q) THEN "Replayed"
  ELSE IF Admitted(q.key) # {} THEN "KeyConflict"
  ELSE IF q.kind = "retry" /\ ops[q.source].state # "Failed" THEN "StateConflict"
  ELSE IF Running THEN "Active"
  ELSE IF Deleted \/ (q.kind = "retry" /\ (q.source # Latest \/ ops[q.source].gen # gen)) THEN "StateConflict"
  ELSE "Admit"

\* The order of the checks in an admission.
Decide(q) ==
  IF \E b \in Admitted(q.key) : b.fingerprint = Fingerprint(q) THEN "Replayed"
  ELSE IF Admitted(q.key) # {} THEN "KeyConflict"
  ELSE IF q.gen # gen THEN "GenerationConflict"
  ELSE IF q.kind = "retry" /\ ops[q.source].state # "Failed" THEN "StateConflict"
  ELSE IF Running THEN "Active"
  ELSE IF Deleted \/ (q.kind = "retry" /\ (q.source # Latest \/ ops[q.source].gen # gen)) THEN "StateConflict"
  ELSE "Admit"

\* Operation, generation and idempotency record are one transaction.
Admit(q) ==
  /\ Latest < MaxOps
  /\ gen' = IF q.kind = "update" THEN gen + 1 ELSE gen
  /\ ops' = Append(ops, [kind |-> IF q.kind = "retry" THEN ops[q.source].kind ELSE q.kind,
                         state |-> "Running", gen |-> gen'])
  /\ bound' = bound \cup {[key |-> q.key, fingerprint |-> Fingerprint(q), op |-> Latest + 1]}

\* The command still waits for this very attempt.
Awaited(q) == cli.pc = "sent" /\ cli.runs = q.run /\ cli.attempt = q.attempt

\* An answer gets there, or is lost on the way; without a connection it is.
Answer(q, answer, op) ==
  /\ handling' = handling \ {q}
  /\ \/ UNCHANGED cli
     \/ Awaited(q) /\ "listeners" \notin server.forced /\ cli' = Receive(cli, answer, op)

Handle(q) ==
  /\ server.phase # "Exiting"
  /\ LET decision == Decide(q)
     IN  \/ decision = "Admit" /\ Admit(q) /\ Answer(q, "Accepted", Latest + 1)
         \/ /\ decision = "Replayed" /\ UNCHANGED store
            /\ \E b \in Admitted(q.key) : Answer(q, "Accepted", b.op)
         \/ decision \notin {"Admit", "Replayed"} /\ UNCHANGED store /\ Answer(q, decision, 0)
  /\ UNCHANGED <<server, setbacks>>

UpdateResource(q) == q.kind = "update" /\ Handle(q)
DeleteResource(q) == q.kind = "delete" /\ Handle(q)
RetryOperation(q) == q.kind = "retry" /\ Handle(q)

\* The store does not answer.  The check of the access hides every error as
\* absence, a deadline is unavailability, a lost answer to the commit an internal
\* error.
StoreFails(q) ==
  /\ setbacks < MaxSetbacks
  /\ setbacks' = setbacks + 1
  /\ \/ UNCHANGED store /\ \E answer \in {"NotFound", "Unavailable", "Internal"} : Answer(q, answer, 0)
     \/ Decide(q) = "Admit" /\ Admit(q) /\ \E answer \in {"Unavailable", "Internal"} : Answer(q, answer, 0)
  /\ UNCHANGED server

\* Another developer's request, in its own handler.
OtherAdmission ==
  /\ server.phase = "Serving" /\ ~Running /\ ~Deleted /\ Cardinality(Admitted(0)) < MaxOthers
  /\ \E kind \in Kinds :
       /\ kind = "retry" => Latest > 0 /\ ops[Latest].state = "Failed"
       /\ Admit([key |-> 0, kind |-> kind, gen |-> gen, source |-> Latest])
  /\ UNCHANGED <<cli, handling, server, setbacks>>

-----------------------------------------------------------------------------
(* The worker and the process. *)

OperationEnds ==
  Running /\ \E state \in {"Succeeded", "Failed"} : ops' = [ops EXCEPT ![Latest].state = state]

\* While the server serves, only the end of the work shows.
Work ==
  /\ server.phase = "Serving" /\ OperationEnds
  /\ UNCHANGED <<gen, bound, cli, handling, server, setbacks>>

\* SIGTERM: readiness turns false and the listeners close.  The worker may be at
\* work.
Signal ==
  /\ server.phase = "Serving" /\ setbacks < MaxSetbacks
  /\ \E worker \in {"Idle", "Busy"} :
       /\ worker = "Busy" => Running
       /\ server' = [server EXCEPT !.phase = "Draining", !.worker = worker]
  /\ setbacks' = setbacks + 1
  /\ UNCHANGED <<store, cli, handling>>

\* drainBatch takes the next work while its context is not canceled.
WorkerClaims ==
  /\ server.phase = "Draining" /\ server.worker = "Idle" /\ Running
  /\ server' = [server EXCEPT !.worker = "Busy"]
  /\ UNCHANGED <<store, cli, handling, setbacks>>

\* The work is done, or given up with its lease; the store may be closed.
WorkerReturns ==
  /\ server.worker = "Busy"
  /\ server' = [server EXCEPT !.worker = "Idle"]
  /\ UNCHANGED ops \/ (server.phase # "Exiting" /\ OperationEnds)
  /\ UNCHANGED <<gen, bound, cli, handling, setbacks>>

Enter(phase) ==
  /\ server' = [server EXCEPT !.phase = phase]
  /\ UNCHANGED <<store, cli, handling, setbacks>>

EnterForced(phase, what) ==
  /\ server' = [server EXCEPT !.phase = phase, !.forced = @ \cup {what}]
  /\ UNCHANGED <<store, cli, handling, setbacks>>

\* Mutant: nobody waits for the handlers.
ListenersClosedAtOnce == server.phase = "Draining" /\ Enter("StoppingWorker")

\* Shutdown returns when every handler has answered.
ListenersClosed == server.phase = "Draining" /\ handling = {} /\ Enter("StoppingWorker")

\* The window ran out; the connections are cut, the handlers go on.
ListenersCut == server.phase = "Draining" /\ handling # {} /\ EnterForced("StoppingWorker", "listeners")

WorkerStopped ==
  /\ server.phase = "StoppingWorker" /\ server.worker = "Idle"
  /\ server' = [server EXCEPT !.phase = "ClosingStore", !.worker = "Stopped"]
  /\ UNCHANGED <<store, cli, handling, setbacks>>

WorkerAbandoned ==
  server.phase = "StoppingWorker" /\ server.worker = "Busy" /\ EnterForced("ClosingStore", "worker")

\* Pool.Close waits, without a limit, until every connection is given back.  A
\* handler or a worker that was left behind may hold one, or not.
CloseStore == server.phase = "ClosingStore" /\ Enter("Exiting")

StoreUnused == handling = {} /\ server.worker # "Busy"

\* What still runs ends with the process.
Ended ==
  /\ server' = [phase |-> "Stopped", worker |-> "Stopped", forced |-> {}]
  /\ handling' = {}
  /\ UNCHANGED <<store, cli>>

Exit == server.phase = "Exiting" /\ Ended /\ UNCHANGED setbacks

\* A crash, a kill, a listener that fails.
Crash ==
  /\ server.phase # "Stopped" /\ setbacks < MaxSetbacks
  /\ Ended
  /\ setbacks' = setbacks + 1

Start ==
  /\ server.phase = "Stopped"
  /\ server' = [phase |-> "Serving", worker |-> "Idle", forced |-> {}]
  /\ UNCHANGED <<store, cli, handling, setbacks>>

-----------------------------------------------------------------------------
Shutdown == ListenersClosed \/ ListenersCut \/ WorkerStopped \/ WorkerAbandoned \/ CloseStore \/ Exit

Command == ReadGeneration \/ ReadFails \/ Send \/ TransportError \/ Poll \/ PollFails \/ ReadFinal
             \/ Deadline

Next ==
  \/ UpdateCommand \/ DeleteCommand \/ RetryCommand \/ Rerun \/ Command
  \/ Unanswered \/ Interrupt
  \/ \E q \in handling : UpdateResource(q) \/ DeleteResource(q) \/ RetryOperation(q) \/ StoreFails(q)
  \/ OtherAdmission \/ Work \/ WorkerClaims \/ WorkerReturns
  \/ Signal \/ Shutdown \/ Crash \/ Start

Spec == Init /\ [][Next]_vars

\* A call that is not hung is answered or its connection breaks, and time passes.
\* The waits of the shutdown run out, but for that of the store, which ends for
\* certain only when nobody uses the store.
Fairness ==
  /\ WF_vars(ReadGeneration \/ ReadFails) /\ WF_vars(Send) /\ WF_vars(TransportError)
  /\ WF_vars(ReadFinal) /\ WF_vars(Poll) /\ WF_vars(Deadline)
  /\ WF_vars(Shutdown /\ (server.phase = "ClosingStore" => StoreUnused))

FairSpec == Spec /\ Fairness

-----------------------------------------------------------------------------
\* A command waits for the operation that its own key admitted, through retries,
\* replays, restarts and the operations of others.
OwnOperation ==
  cli.monitor # 0 => \E b \in Admitted(cli.key) : b.op = cli.monitor

\* What the exit code of a wait says of the operation is so: it has succeeded
\* with 0, it has failed with 5, unless the command ran out of time.
ExitIsTruth ==
  /\ cli.exit = ExitOK /\ cli.wait => ops[cli.monitor].state = "Succeeded"
  /\ cli.exit = ExitOperationFailed /\ ~cli.late => ops[cli.monitor].state = "Failed"

\* What a command tells is the truth about the operation it asked for.
CommandTellsTruth == TypeOK /\ OwnOperation /\ ExitIsTruth

\* A conflict of generations is final: no attempt of that command has been or
\* will be admitted, not even one that is still on its way.
ConflictMeansNotAdmitted ==
  cli.answer = "GenerationConflict" /\ cli.runs = cli.key => Admitted(cli.key) = {}

\* However many attempts a command takes, it makes one operation.
OneOperationPerKey ==
  \A a, b \in bound : a.key = b.key /\ a.key # 0 => a = b

\* In an orderly shutdown nobody meets a closed store: only those who outlasted
\* their window do.
StoreOutlivesWork ==
  server.phase = "Exiting" =>
    /\ handling # {} => "listeners" \in server.forced
    /\ server.worker = "Busy" => "worker" \in server.forced

\* The advice, for a command that says its generation: it is never refused for
\* its key.
PinnedReplayResolves ==
  cli.answer = "KeyConflict" => ~cli.pinned

\* The idempotency key works through lost answers and late attempts: one key is
\* one operation at most, a conflict of generations means none, and the replay
\* that the command line advises is never taken for another request.
KeyAdmitsOnce == OneOperationPerKey /\ ConflictMeansNotAdmitted /\ PinnedReplayResolves

\* A command ends, whatever becomes of its operation, its attempts and the server
\* (Client.do, waitForOperation), unless one of its requests is never answered.
CommandEnds == cli.pc \notin {"idle", "done"} ~> cli.pc \in {"hung", "done"}

\* A shutdown that was begun is brought to its end, unless a wait for the handlers
\* or for the worker ran out and the store waits for what was left behind
\* (shutdownInOrder).
ShutdownEnds ==
  server.phase = "Draining"
    ~> server.phase = "Stopped" \/ (server.phase = "ClosingStore" /\ server.forced # {})

\* A command waits for ever only for an answer, not for its operation or for the
\* server's return; and the shutdown only for what it has cut off before.
HangsOnlyOnOthers == CommandEnds /\ ShutdownEnds

\* "DefaultWaitTimeout bounds --wait" (cli/wait.go:20): a wait comes to an end.  The
\* deadline is compared between two polls only, so a poll that is never answered
\* is waited for without any bound.
WaitIsBounded == cli.pc = "polling" ~> cli.pc = "done"

\* "Shutdown is context-driven with bounded waits" (ADR-0010:65).  The last of them
\* is not: pgxpool's Close takes no context, and waits for the connections of
\* handlers that were cut and of a worker that was given up.
ShutdownIsBounded == server.phase = "Draining" ~> server.phase = "Stopped"

\* reportMutationFailure advises to "re-run this command with --idempotency-key" in
\* order "to replay the identical request": the key is never refused as another
\* request's, also when the command does not say its generation.
ReplayResolves == cli.answer # "KeyConflict"
=============================================================================
