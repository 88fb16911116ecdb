---------------------------- MODULE ServiceProofs ----------------------------
(***************************************************************************)
(* Proofs about Service for any number of attempts, polls, commands,       *)
(* operations and setbacks.                                                *)
(*                                                                         *)
(* The argument is about the requests that are under way.  They outlive    *)
(* the attempt, the run of the command and the answer that they belong to, *)
(* so what holds of the answers has to hold of all of them: they all carry *)
(* the key of the command, and with it the same fingerprint, as long as    *)
(* the command takes its generation from one place.                        *)
(*                                                                         *)
(* The second part is about Access, the requests that only read.           *)
(***************************************************************************)
EXTENDS Service, Access, SequenceTheorems, FiniteSetTheorems, WellFoundedInduction, TLAPS

States == {"Running", "Succeeded", "Failed"}
ExitCodes == {ExitOK, ExitFailure, ExitRejected, ExitOperationFailed, ExitInterrupted, NotYet}
Operation == [kind : {"update", "delete"}, state : States, gen : Nat]

Client ==
  [pc : {"idle", "reading", "sending", "sent", "polling", "final", "hung", "done"}, kind : Kinds,
   pinned : BOOLEAN, wait : BOOLEAN, key : {0, 1}, gen : Nat, source : Nat,
   attempt : 1..Attempts, failures : 0..PollFailures, answer : Answers, monitor : 0..MaxOps,
   exit : ExitCodes, late : BOOLEAN, advised : BOOLEAN, runs : Nat]

\* The facts are stated of values, of a client c, a generation g, operations o,
\* records b and requests h, so that a step can be taken apart: what an
\* admission writes, and what the answer then does to the command.

\* The operations in turn: only the newest is worked on.
StoreGood(g, o, b) ==
  /\ g \in Nat \ {0} /\ o \in Seq(Operation) /\ Len(o) \in 1..MaxOps
  /\ \A i \in 1..Len(o) : o[i].state = "Running" => i = Len(o)
  /\ \A r \in b : r.op \in 1..Len(o)
  /\ \A r, s \in b : r.key = s.key /\ r.key # 0 => r = s

\* The command may send another request.
Live(c) == c.pc \notin {"idle", "done"} \/ c.advised

\* All runs of the command, or its only run, take the generation from one place.
Fixed(c) == c.pinned \/ c.runs = 1

\* What is under way is the command's, old or new.
RequestsGood(c, g, o, h) ==
  /\ \A q \in h : /\ q.kind = c.kind /\ q.key = c.key
                  /\ q.source \in 1..Len(o) /\ q.gen \in 0..g
  /\ Live(c) => c.source \in 1..Len(o) /\ c.gen \in 0..g
  /\ \A q, r \in h : q.source = r.source
  /\ Live(c) => \A q \in h : q.source = c.source
  /\ Fixed(c) => \A q, r \in h : q.gen = r.gen
  /\ Fixed(c) /\ Live(c) => \A q \in h : q.gen = c.gen
  /\ c.pc = "reading" /\ c.runs = 1 => h = {}

\* A pinned command is one request, whatever has become of its attempts.
RecordsGood(c, b, h) ==
  c.pinned =>
    \A r \in b : r.key = c.key =>
      /\ \A q \in h : r.fingerprint = Fingerprint(q)
      /\ Live(c) => r.fingerprint = Fingerprint(c)

\* A conflict is met by whatever is still under way.
ConflictGood(c, g, b, h) ==
  c.answer = "GenerationConflict" /\ c.runs = 1 =>
    /\ \A q \in h : q.gen < g
    /\ \A r \in b : r.key # c.key

\* Where the command stands.
ProgressGood(c, b, h) ==
  /\ c.pc = "idle" => /\ c.runs = 0 /\ c.key = 0 /\ ~c.pinned /\ c.answer = "None"
                      /\ c.monitor = 0 /\ h = {} /\ \A r \in b : r.key = 0
  /\ c.pc # "idle" => c.key = 1 /\ c.runs > 0
  /\ c.advised => c.pc = "done"
  /\ c.pc # "done" => c.answer \in {"None", "Accepted"}
  /\ c.answer = "GenerationConflict" => ~c.advised
  /\ c.answer = "KeyConflict" => ~c.pinned
  /\ (c.pc = "done") = (c.exit # NotYet)

\* What the command has been told of its operation.
MonitorGood(c, o, b) ==
  /\ c.monitor # 0 => \E r \in b : r.key = c.key /\ r.op = c.monitor
  /\ c.pc \in {"polling", "final"} => c.monitor # 0
  /\ c.pc = "final" => o[c.monitor].state = "Succeeded"
  /\ c.exit = ExitOK /\ c.wait => c.monitor # 0 /\ o[c.monitor].state = "Succeeded"
  /\ c.exit = ExitOperationFailed /\ ~c.late => c.monitor # 0 /\ o[c.monitor].state = "Failed"

Good(c, g, o, b, h) ==
  /\ c \in Client
  /\ StoreGood(g, o, b) /\ RequestsGood(c, g, o, h) /\ RecordsGood(c, b, h)
  /\ ConflictGood(c, g, b, h) /\ ProgressGood(c, b, h) /\ MonitorGood(c, o, b)

\* The server stops in order: nobody sends any more when the listeners are
\* closed, and the worker takes nothing any more when it is told to stop.
ServerGood ==
  /\ server \in [phase : Phases, worker : {"Idle", "Busy", "Stopped"},
                 forced : SUBSET {"listeners", "worker"}]
  /\ server.phase \in {"StoppingWorker", "ClosingStore", "Exiting"} /\ handling # {}
       => "listeners" \in server.forced
  /\ server.phase \in {"ClosingStore", "Exiting"} /\ server.worker = "Busy"
       => "worker" \in server.forced

SInv == Good(cli, gen, ops, bound, handling) /\ ServerGood

-----------------------------------------------------------------------------
(* The command. *)

\* What is assumed of the bounds, in the form in which it is used.
LEMMA Bounds ==
  /\ Attempts \in Nat /\ PollFailures \in Nat /\ MaxOps \in Nat
  /\ 1 \in 1..Attempts /\ 0 \in 0..PollFailures /\ 0 \in 0..MaxOps /\ MaxOps > 0
<1>1. Attempts \in Nat \ {0} /\ PollFailures \in Nat \ {0} /\ MaxOps \in Nat \ {0}
  BY BoundsAssumption
<1>2. QED
  BY <1>1

\* The same command, that has not lost what it is about.
Alike(c, e) ==
  /\ e.kind = c.kind /\ e.pinned = c.pinned /\ e.wait = c.wait /\ e.key = c.key
  /\ e.runs = c.runs /\ e.gen = c.gen /\ e.source = c.source

\* What Done changes.
LEMMA DoneFields ==
  ASSUME NEW c \in Client, NEW code \in ExitCodes, NEW d, d = Done(c, code)
  PROVE  /\ d \in Client /\ d.pc = "done" /\ d.exit = code
         /\ d.kind = c.kind /\ d.pinned = c.pinned /\ d.wait = c.wait /\ d.key = c.key
         /\ d.runs = c.runs /\ d.answer = c.answer /\ d.monitor = c.monitor
         /\ d.late = c.late /\ d.advised = c.advised
         /\ d.advised => d.gen = c.gen /\ d.source = c.source
  BY Bounds DEF Done, Client

\* A command that has begun and goes on.
LEMMA ContinueKeeps ==
  ASSUME NEW c, NEW d \in Client, NEW g, NEW o, NEW b, NEW h, Good(c, g, o, b, h),
         Alike(c, d), c.pc \notin {"idle", "done"}, d.pc \notin {"idle", "reading", "done"},
         ~d.advised, d.answer \in {"None", "Accepted"}, d.exit = NotYet,
         MonitorGood(d, o, b)
  PROVE  Good(d, g, o, b, h)
<1> USE DEF Good, Alike
<1>1. Live(c) /\ Live(d) /\ (Fixed(c) <=> Fixed(d)) /\ Fingerprint(c) = Fingerprint(d)
  BY DEF Live, Fixed, Fingerprint
<1>2. RequestsGood(d, g, o, h)
  BY <1>1 DEF RequestsGood
<1>3. RecordsGood(d, b, h)
  BY <1>1 DEF RecordsGood
<1>4. ConflictGood(d, g, b, h)
  BY DEF ConflictGood
<1>5. ProgressGood(d, b, h)
  BY DEF ProgressGood, NotYet
<1>6. QED
  BY <1>2, <1>3, <1>4, <1>5

\* A command that ends.  Before that, e is the command with what it was told.
LEMMA DoneKeeps ==
  ASSUME NEW c, NEW e \in Client, NEW code \in ExitCodes \ {NotYet},
         NEW g, NEW o, NEW b, NEW h, Good(c, g, o, b, h),
         Alike(c, e), c.pc \notin {"idle", "done"},
         e.answer = "GenerationConflict" => ~e.advised,
         e.answer = "KeyConflict" => ~e.pinned,
         ConflictGood(e, g, b, h),
         e.monitor # 0 => \E r \in b : r.key = e.key /\ r.op = e.monitor,
         code = ExitOK /\ e.wait => e.monitor # 0 /\ o[e.monitor].state = "Succeeded",
         code = ExitOperationFailed /\ ~e.late
           => e.monitor # 0 /\ o[e.monitor].state = "Failed"
  PROVE  Good(Done(e, code), g, o, b, h)
<1> DEFINE d == Done(e, code)
<1>1. /\ d \in Client /\ d.pc = "done" /\ d.exit = code
      /\ d.kind = e.kind /\ d.pinned = e.pinned /\ d.wait = e.wait /\ d.key = e.key
      /\ d.runs = e.runs /\ d.answer = e.answer /\ d.monitor = e.monitor
      /\ d.late = e.late /\ d.advised = e.advised
      /\ d.advised => d.gen = e.gen /\ d.source = e.source
  BY DoneFields
<1> HIDE DEF d
<1> USE DEF Good, Alike
<1>2. /\ Live(c) /\ (Live(d) <=> d.advised) /\ (Fixed(c) <=> Fixed(d))
      /\ Live(d) => Fingerprint(c) = Fingerprint(d)
  BY <1>1 DEF Live, Fixed, Fingerprint
<1>3. RequestsGood(d, g, o, h)
  BY <1>1, <1>2 DEF RequestsGood
<1>4. RecordsGood(d, b, h)
  BY <1>1, <1>2 DEF RecordsGood
<1>5. ConflictGood(d, g, b, h)
  BY <1>1 DEF ConflictGood
<1>6. ProgressGood(d, b, h)
  BY <1>1 DEF ProgressGood
<1>7. MonitorGood(d, o, b)
  BY <1>1 DEF MonitorGood
<1>8. QED
  BY <1>1, <1>3, <1>4, <1>5, <1>6, <1>7 DEF d

\* What Prepared changes.
LEMMA PreparedFields ==
  ASSUME NEW c \in Client, NEW d, d = Prepared(c)
  PROVE  /\ d \in Client /\ d.pc \in {"reading", "sending"}
         /\ d.pc = "sending" => c.pinned
         /\ d.kind = c.kind /\ d.pinned = c.pinned /\ d.wait = c.wait /\ d.key = c.key
         /\ d.gen = c.gen /\ d.source = c.source /\ d.runs = c.runs + 1
         /\ d.answer = "None" /\ d.monitor = 0 /\ d.exit = NotYet /\ ~d.late /\ ~d.advised
<1>1. c.runs + 1 \in Nat /\ NotYet \in ExitCodes /\ "None" \in Answers
  BY DEF Client, ExitCodes, Answers
<1>2. QED
  BY <1>1, Bounds DEF Prepared, Client

\* A command begins: there is nothing yet that it could be confused with.
LEMMA BeginKeeps ==
  ASSUME SInv, NEW kind, Begin(kind)
  PROVE  SInv'
<1> USE DEF SInv, Good
<1>1. PICK command \in Commands :
        cli' = Prepared([cli EXCEPT !.kind = command.kind, !.pinned = command.pinned,
                                    !.wait = command.wait, !.key = cli.runs + 1,
                                    !.gen = gen, !.source = Latest])
  BY DEF Begin
<1>2. /\ cli.pc = "idle" /\ cli.runs = 0 /\ handling = {} /\ \A r \in bound : r.key = 0
      /\ cli \in Client
  BY DEF Begin, ProgressGood
<1>3. gen \in Nat \ {0} /\ Len(ops) \in 1..MaxOps
  BY DEF StoreGood
<1>4. PICK c : c = [cli EXCEPT !.kind = command.kind, !.pinned = command.pinned,
                               !.wait = command.wait, !.key = cli.runs + 1,
                               !.gen = gen, !.source = Latest]
  OBVIOUS
<1>5. command \in [kind : Kinds, pinned : BOOLEAN, wait : BOOLEAN]
  BY BoundsAssumption
<1>6. /\ c \in Client /\ c.key = 1 /\ c.runs = 0 /\ c.gen = gen /\ c.source = Len(ops)
  <2>1. Len(ops) \in Nat /\ cli.runs + 1 = 1
    BY <1>2, <1>3
  <2>2. QED
    BY <1>2, <1>3, <1>4, <1>5, <2>1 DEF Client, Latest
<1>7. PICK d : d = Prepared(c)
  OBVIOUS
<1>8. cli' = d /\ gen' = gen /\ ops' = ops /\ bound' = bound /\ handling' = handling /\ server' = server
  BY <1>1, <1>4, <1>7 DEF Begin, store
<1>9. /\ d \in Client /\ d.pc \in {"reading", "sending"} /\ d.key = 1 /\ d.runs = 1
      /\ d.gen = gen /\ d.source = Len(ops) /\ d.answer = "None" /\ d.monitor = 0
      /\ d.exit = NotYet /\ ~d.advised
  BY <1>6, <1>7, PreparedFields
<1>10. RequestsGood(d, gen, ops, handling)
  BY <1>2, <1>3, <1>9 DEF RequestsGood
<1>11. RecordsGood(d, bound, handling)
  BY <1>2, <1>9 DEF RecordsGood
<1>12. ConflictGood(d, gen, bound, handling) /\ ProgressGood(d, bound, handling)
  BY <1>9 DEF ConflictGood, ProgressGood
<1>13. MonitorGood(d, ops, bound)
  BY <1>9 DEF MonitorGood, NotYet, ExitOK, ExitOperationFailed
<1>14. ServerGood'
  BY <1>8 DEF ServerGood
<1>15. Good(d, gen, ops, bound, handling)
  BY <1>9, <1>10, <1>11, <1>12, <1>13
<1>16. QED
  BY <1>8, <1>14, <1>15

\* A command that was advised to run again is still about the same.
LEMMA RerunKeeps ==
  ASSUME SInv, Rerun
  PROVE  SInv'
<1> USE DEF SInv, Good
<1>1. /\ cli.pc = "done" /\ cli.advised /\ cli.key = 1 /\ cli.runs > 0 /\ cli \in Client
  BY DEF Rerun, ProgressGood
<1>2. PICK d : d = Prepared(cli)
  OBVIOUS
<1>3. cli' = d /\ gen' = gen /\ ops' = ops /\ bound' = bound /\ handling' = handling /\ server' = server
  BY <1>2 DEF Rerun, store
<1>4. /\ d \in Client /\ d.pc \in {"reading", "sending"}
      /\ d.kind = cli.kind /\ d.pinned = cli.pinned /\ d.key = 1
      /\ d.gen = cli.gen /\ d.source = cli.source /\ d.runs = cli.runs + 1
      /\ d.answer = "None" /\ d.monitor = 0 /\ d.exit = NotYet /\ ~d.advised
  BY <1>1, <1>2, PreparedFields
<1>5. cli.runs \in Nat
  BY <1>1 DEF Client
<1>6. /\ Live(cli) /\ Live(d) /\ (Fixed(d) => Fixed(cli)) /\ d.runs # 1
      /\ Fingerprint(d) = Fingerprint(cli)
  BY <1>1, <1>4, <1>5 DEF Live, Fixed, Fingerprint
<1>7. RequestsGood(d, gen, ops, handling)
  BY <1>1, <1>4, <1>6 DEF RequestsGood
<1>8. RecordsGood(d, bound, handling)
  BY <1>1, <1>4, <1>6 DEF RecordsGood
<1>9. ConflictGood(d, gen, bound, handling) /\ ProgressGood(d, bound, handling)
  BY <1>1, <1>4, <1>5 DEF ConflictGood, ProgressGood
<1>10. MonitorGood(d, ops, bound)
  BY <1>4 DEF MonitorGood, NotYet, ExitOK, ExitOperationFailed
<1>11. ServerGood'
  BY <1>3 DEF ServerGood
<1>12. Good(d, gen, ops, bound, handling)
  BY <1>4, <1>7, <1>8, <1>9, <1>10
<1>13. QED
  BY <1>3, <1>11, <1>12

\* Only the command changes.
LEMMA OnlyCommand ==
  ASSUME SInv, NEW d, Good(d, gen, ops, bound, handling), cli' = d,
         UNCHANGED <<store, handling, server, setbacks>>
  PROVE  SInv'
  BY DEF SInv, ServerGood, store

\* What is known of a command that goes on.
LEMMA UnderWay ==
  ASSUME SInv, cli.pc \notin {"idle", "done"}
  PROVE  /\ cli \in Client /\ ~cli.advised /\ cli.exit = NotYet
         /\ cli.answer \in {"None", "Accepted"}
         /\ ConflictGood(cli, gen, bound, handling)
         /\ MonitorGood(cli, ops, bound)
         /\ cli.monitor # 0 => \E r \in bound : r.key = cli.key /\ r.op = cli.monitor
  BY DEF SInv, Good, ProgressGood, MonitorGood

\* Whoever gives up tells nothing of the operation.
LEMMA GiveUpKeeps ==
  ASSUME SInv, cli.pc \notin {"idle", "done"},
         NEW code \in {ExitFailure, ExitRejected, ExitInterrupted},
         cli' = Done(cli, code), UNCHANGED <<store, handling, server, setbacks>>
  PROVE  SInv'
<1>1. code \in ExitCodes \ {NotYet} /\ code # ExitOK /\ code # ExitOperationFailed
  BY DEF ExitCodes, ExitFailure, ExitRejected, ExitInterrupted, NotYet, ExitOK, ExitOperationFailed
<1>2. Alike(cli, cli)
  BY DEF Alike
<1>3. PICK d : d = Done(cli, code)
  OBVIOUS
<1>4. Good(d, gen, ops, bound, handling)
  BY <1>1, <1>2, <1>3, UnderWay, DoneKeeps DEF SInv
<1>5. QED
  BY <1>3, <1>4, OnlyCommand

\* A read that fails ends the command.
LEMMA ReadFailsKeeps ==
  ASSUME SInv, ReadFails
  PROVE  SInv'
<1>1. CASE cli.pc = "reading" /\ \E code \in {ExitFailure, ExitRejected} : cli' = Done(cli, code)
  BY <1>1, GiveUpKeeps DEF ReadFails
<1>2. CASE cli.pc = "final" /\ cli' = Done(cli, ExitFailure)
  BY <1>2, GiveUpKeeps DEF ReadFails
<1>3. QED
  BY <1>1, <1>2 DEF ReadFails

\* An interrupted command tells nothing.
LEMMA InterruptKeeps ==
  ASSUME SInv, Interrupt
  PROVE  SInv'
  BY GiveUpKeeps DEF Interrupt

\* A command whose request is never answered is still the command it was.
LEMMA UnansweredKeeps ==
  ASSUME SInv, Unanswered
  PROVE  SInv'
<1>1. /\ cli.pc \notin {"idle", "done"} /\ cli \in Client /\ ~cli.advised /\ cli.exit = NotYet
      /\ cli.answer \in {"None", "Accepted"} /\ MonitorGood(cli, ops, bound)
  BY UnderWay DEF Unanswered
<1>2. PICK d : d = [cli EXCEPT !.pc = "hung"]
  OBVIOUS
<1>3. /\ d \in Client /\ d.pc = "hung" /\ Alike(cli, d) /\ ~d.advised /\ d.exit = NotYet
      /\ d.answer = cli.answer /\ d.monitor = cli.monitor
  BY <1>1, <1>2 DEF Client, Alike
<1>4. MonitorGood(d, ops, bound)
  BY <1>1, <1>3 DEF MonitorGood, NotYet, ExitOK, ExitOperationFailed, Alike
<1>5. Good(d, gen, ops, bound, handling)
  BY <1>1, <1>3, <1>4, ContinueKeeps DEF SInv
<1>6. QED
  BY <1>2, <1>5, OnlyCommand DEF Unanswered

\* The generation is read once in a run.
LEMMA ReadGenerationKeeps ==
  ASSUME SInv, ReadGeneration
  PROVE  SInv'
<1>1. /\ cli.pc = "reading" /\ cli \in Client /\ ~cli.advised /\ cli.exit = NotYet
      /\ cli.answer \in {"None", "Accepted"} /\ MonitorGood(cli, ops, bound)
      /\ gen \in Nat \ {0}
  BY UnderWay DEF ReadGeneration, SInv, Good, StoreGood
<1>2. PICK d : d = [cli EXCEPT !.pc = "sending", !.gen = IF cli.pinned THEN @ ELSE gen]
  OBVIOUS
<1>3. /\ d \in Client /\ d.pc = "sending" /\ d.kind = cli.kind /\ d.pinned = cli.pinned
      /\ d.wait = cli.wait /\ d.key = cli.key /\ d.source = cli.source /\ d.runs = cli.runs
      /\ ~d.advised /\ d.exit = NotYet /\ d.answer = cli.answer /\ d.monitor = cli.monitor
      /\ d.gen = IF cli.pinned THEN cli.gen ELSE gen
  BY <1>1, <1>2 DEF Client
<1>4. MonitorGood(d, ops, bound)
  BY <1>1, <1>3 DEF MonitorGood, NotYet, ExitOK, ExitOperationFailed
<1>5. Good(d, gen, ops, bound, handling)
  <2>1. CASE cli.pinned
    <3>1. Alike(cli, d)
      BY <1>3, <2>1 DEF Alike
    <3>2. QED
      BY <1>1, <1>3, <1>4, <3>1, ContinueKeeps DEF SInv
  <2>2. CASE ~cli.pinned
    <3>1. /\ Live(cli) /\ Live(d) /\ (Fixed(d) <=> cli.runs = 1) /\ (Fixed(cli) <=> Fixed(d))
          /\ d.gen = gen
      BY <1>1, <1>3, <2>2 DEF Live, Fixed
    <3>2. RequestsGood(d, gen, ops, handling)
      BY <1>1, <1>3, <3>1 DEF RequestsGood, SInv, Good
    <3>3. RecordsGood(d, bound, handling)
      BY <1>3, <2>2 DEF RecordsGood
    <3>4. ConflictGood(d, gen, bound, handling)
      BY <1>1, <1>3 DEF ConflictGood
    <3>5. ProgressGood(d, bound, handling)
      BY <1>1, <1>3 DEF ProgressGood, SInv, Good
    <3>6. QED
      BY <1>3, <1>4, <3>2, <3>3, <3>4, <3>5 DEF SInv, Good
  <2>3. QED
    BY <2>1, <2>2
<1>6. QED
  BY <1>2, <1>5, OnlyCommand DEF ReadGeneration

\* An attempt carries what the command is about.
LEMMA SendKeeps ==
  ASSUME SInv, Send
  PROVE  SInv'
<1>1. /\ cli.pc = "sending" /\ cli \in Client /\ ~cli.advised /\ cli.exit = NotYet
      /\ cli.answer \in {"None", "Accepted"} /\ MonitorGood(cli, ops, bound)
  BY UnderWay DEF Send
<1>2. PICK d : d = [cli EXCEPT !.pc = "sent"]
  OBVIOUS
<1>3. /\ d \in Client /\ d.pc = "sent" /\ Alike(cli, d) /\ ~d.advised /\ d.exit = NotYet
      /\ d.answer = cli.answer /\ d.monitor = cli.monitor
  BY <1>1, <1>2 DEF Client, Alike
<1>4. MonitorGood(d, ops, bound)
  BY <1>1, <1>3 DEF MonitorGood, NotYet, ExitOK, ExitOperationFailed, Alike
<1>5. Good(d, gen, ops, bound, handling)
  BY <1>1, <1>3, <1>4, ContinueKeeps DEF SInv
<1>6. cli' = d /\ gen' = gen /\ ops' = ops /\ bound' = bound /\ server' = server /\ setbacks' = setbacks
  BY <1>2 DEF Send, store
<1>7. CASE handling' = handling
  BY <1>5, <1>6, <1>7 DEF SInv, ServerGood
<1>8. CASE /\ server.phase = "Serving"
           /\ handling' = handling \cup {[run |-> cli.runs, attempt |-> cli.attempt, key |-> cli.key,
                                          kind |-> cli.kind, gen |-> cli.gen, source |-> cli.source]}
  <2>1. PICK q : q = [run |-> cli.runs, attempt |-> cli.attempt, key |-> cli.key,
                      kind |-> cli.kind, gen |-> cli.gen, source |-> cli.source]
    OBVIOUS
  <2>2. handling' = handling \cup {q}
    BY <1>8, <2>1
  <2>3. q.key = d.key /\ q.kind = d.kind /\ q.gen = d.gen /\ q.source = d.source
    BY <1>3, <2>1 DEF Alike
  <2>4. Live(d)
    BY <1>3 DEF Live
  <2>5. RequestsGood(d, gen, ops, handling')
    BY <1>3, <1>5, <2>2, <2>3, <2>4 DEF Good, RequestsGood
  <2>6. Fingerprint(q) = Fingerprint(d)
    BY <2>3 DEF Fingerprint
  <2>7. RecordsGood(d, bound, handling')
    BY <1>5, <2>2, <2>4, <2>6 DEF Good, RecordsGood
  <2>8. ConflictGood(d, gen, bound, handling') /\ ProgressGood(d, bound, handling')
    BY <1>1, <1>3, <1>5 DEF ConflictGood, ProgressGood, Good
  <2>9. ServerGood'
    BY <1>6, <1>8 DEF ServerGood, SInv
  <2>10. Good(d, gen, ops, bound, handling')
    BY <1>5, <2>5, <2>7, <2>8 DEF Good
  <2>11. QED
    BY <1>6, <2>9, <2>10 DEF SInv
<1>9. QED
  BY <1>7, <1>8 DEF Send

\* The next attempt of the same run.
LEMMA AgainKeeps ==
  ASSUME NEW c, NEW g, NEW o, NEW b, NEW h, Good(c, g, o, b, h), c.pc = "sent", MayRetry(c)
  PROVE  Good(Again(c), g, o, b, h)
<1>1. c \in Client /\ c.answer \in {"None", "Accepted"} /\ ~c.advised /\ c.exit = NotYet
  BY DEF Good, ProgressGood
<1>2. PICK d : d = Again(c)
  OBVIOUS
<1>3. /\ d \in Client /\ Alike(c, d) /\ d.pc = "sending" /\ d.answer = c.answer
      /\ ~d.advised /\ d.exit = NotYet /\ d.monitor = c.monitor
  <2>1. c.attempt + 1 \in 1..Attempts
    BY <1>1, Bounds DEF Client, MayRetry
  <2>2. QED
    BY <1>1, <1>2, <2>1 DEF Again, Client, Alike
<1>4. MonitorGood(d, o, b)
  BY <1>3 DEF MonitorGood, Alike, NotYet, ExitOK, ExitOperationFailed, Good
<1>5. QED
  BY <1>1, <1>2, <1>3, <1>4, ContinueKeeps

\* Without an answer the command tries again, or ends and is advised to be run
\* again.
LEMMA TransportErrorKeeps ==
  ASSUME SInv, TransportError
  PROVE  SInv'
<1>1. /\ cli.pc = "sent" /\ cli \in Client /\ ~cli.advised
      /\ cli.monitor # 0 => \E r \in bound : r.key = cli.key /\ r.op = cli.monitor
  BY UnderWay DEF TransportError
<1>2. CASE MayRetry(cli)
  <2>1. Good(Again(cli), gen, ops, bound, handling)
    BY <1>1, <1>2, AgainKeeps DEF SInv
  <2>2. PICK d : d = Again(cli)
    OBVIOUS
  <2>3. QED
    BY <1>2, <2>1, <2>2, OnlyCommand DEF TransportError
<1>3. CASE ~MayRetry(cli)
  <2>1. PICK e : e = [cli EXCEPT !.answer = "Transport", !.advised = TRUE]
    OBVIOUS
  <2>2. /\ e \in Client /\ Alike(cli, e) /\ e.answer = "Transport" /\ e.monitor = cli.monitor
    BY <1>1, <2>1 DEF Client, Alike, Answers
  <2>3. ConflictGood(e, gen, bound, handling)
    BY <2>2 DEF ConflictGood
  <2>4. ExitFailure \in ExitCodes \ {NotYet} /\ ExitFailure # ExitOK /\ ExitFailure # ExitOperationFailed
    BY DEF ExitCodes, ExitFailure, NotYet, ExitOK, ExitOperationFailed
  <2>5. PICK d : d = Done(e, ExitFailure)
    OBVIOUS
  <2>6. e.monitor # 0 => \E r \in bound : r.key = e.key /\ r.op = e.monitor
    BY <1>1, <2>2 DEF Alike
  <2>7. Good(d, gen, ops, bound, handling)
    BY <1>1, <2>2, <2>3, <2>4, <2>5, <2>6, DoneKeeps DEF SInv
  <2>8. QED
    BY <1>3, <2>1, <2>5, <2>7, OnlyCommand DEF TransportError
<1>4. QED
  BY <1>2, <1>3

\* The state of the operation that is polled.
LEMMA PolledState ==
  ASSUME SInv, cli.pc \in {"polling", "final"}
  PROVE  /\ cli.monitor \in 1..Len(ops) /\ ops[cli.monitor].state \in States
         /\ cli \in Client /\ Alike(cli, cli) /\ cli.monitor # 0
<1>1. cli.monitor \in 1..Len(ops) /\ cli.monitor # 0
  BY DEF SInv, Good, MonitorGood, StoreGood
<1>2. ops[cli.monitor] \in Operation
  BY <1>1, ElementOfSeq DEF SInv, Good, StoreGood
<1>3. QED
  BY <1>1, <1>2 DEF Operation, SInv, Good, Alike

\* A wait that ends says what has become of the operation.
LEMMA ToldKeeps ==
  ASSUME SInv, cli.pc \in {"polling", "final"}, NEW code \in {ExitOK, ExitOperationFailed},
         code = ExitOK => ops[cli.monitor].state = "Succeeded",
         code = ExitOperationFailed => ops[cli.monitor].state = "Failed",
         cli' = Done(cli, code), UNCHANGED <<store, handling, server, setbacks>>
  PROVE  SInv'
<1>1. code \in ExitCodes \ {NotYet}
  BY DEF ExitCodes, ExitOK, ExitOperationFailed, NotYet
<1>2. PICK d : d = Done(cli, code)
  OBVIOUS
<1>3. Good(d, gen, ops, bound, handling)
  BY <1>1, <1>2, UnderWay, PolledState, DoneKeeps DEF SInv
<1>4. QED
  BY <1>2, <1>3, OnlyCommand

\* A wait that goes on.
LEMMA WaitKeeps ==
  ASSUME SInv, cli.pc = "polling", NEW next \in {"polling", "final"}, NEW n \in 0..PollFailures,
         next = "final" => ops[cli.monitor].state = "Succeeded",
         cli' = [cli EXCEPT !.pc = next, !.failures = n], UNCHANGED <<store, handling, server, setbacks>>
  PROVE  SInv'
<1>1. /\ cli \in Client /\ ~cli.advised /\ cli.exit = NotYet /\ cli.monitor # 0
      /\ cli.answer \in {"None", "Accepted"} /\ MonitorGood(cli, ops, bound)
  BY UnderWay, PolledState
<1>2. PICK d : d = [cli EXCEPT !.pc = next, !.failures = n]
  OBVIOUS
<1>3. /\ d \in Client /\ Alike(cli, d) /\ d.pc = next /\ ~d.advised /\ d.exit = NotYet
      /\ d.answer = cli.answer /\ d.monitor = cli.monitor
  BY <1>1, <1>2 DEF Client, Alike
<1>4. MonitorGood(d, ops, bound)
  BY <1>1, <1>3 DEF MonitorGood, NotYet, ExitOK, ExitOperationFailed, Alike
<1>5. Good(d, gen, ops, bound, handling)
  BY <1>1, <1>3, <1>4, ContinueKeeps DEF SInv
<1>6. QED
  BY <1>2, <1>5, OnlyCommand

\* A poll tells the state of the operation that the key admitted.
LEMMA PollKeeps ==
  ASSUME SInv, Poll
  PROVE  SInv'
<1>1. cli.pc = "polling" /\ UNCHANGED <<store, handling, server, setbacks>>
  BY DEF Poll
<1>2. ops[cli.monitor].state \in States /\ cli \in Client
  BY <1>1, PolledState
<1>3. CASE ops[cli.monitor].state = "Running"
  <2>1. cli' = [cli EXCEPT !.failures = 0]
    BY <1>3 DEF Poll, WaitForOperation, WaitForRetryOperation
  <2>2. cli' = [cli EXCEPT !.pc = "polling", !.failures = 0]
    BY <1>1, <1>2, <2>1 DEF Client
  <2>3. QED
    BY <1>1, <2>2, WaitKeeps, Bounds
<1>4. CASE ops[cli.monitor].state = "Succeeded" /\ cli.kind = "retry"
  <2>1. cli' = Done(cli, ExitOK)
    BY <1>4 DEF Poll, WaitForRetryOperation
  <2>2. QED
    BY <1>1, <1>4, <2>1, ToldKeeps DEF ExitOK, ExitOperationFailed
<1>5. CASE ops[cli.monitor].state = "Succeeded" /\ cli.kind # "retry"
  <2>1. cli' = [cli EXCEPT !.pc = "final"]
    BY <1>5 DEF Poll, WaitForOperation
  <2>2. cli' = [cli EXCEPT !.pc = "final", !.failures = cli.failures] /\ cli.failures \in 0..PollFailures
    BY <1>2, <2>1 DEF Client
  <2>3. QED
    BY <1>1, <1>5, <2>2, WaitKeeps
<1>6. CASE ops[cli.monitor].state = "Failed"
  <2>1. cli' = Done(cli, ExitOperationFailed)
    BY <1>6 DEF Poll, WaitForOperation, WaitForRetryOperation
  <2>2. QED
    BY <1>1, <1>6, <2>1, ToldKeeps DEF ExitOK, ExitOperationFailed
<1>7. QED
  BY <1>2, <1>3, <1>4, <1>5, <1>6 DEF States

\* A poll that fails tells nothing.
LEMMA PollFailsKeeps ==
  ASSUME SInv, PollFails
  PROVE  SInv'
<1>1. cli.pc = "polling" /\ UNCHANGED <<store, handling, server, setbacks>>
  BY DEF PollFails
<1>2. cli \in Client
  BY <1>1, PolledState
<1>3. CASE cli' = Done(cli, ExitFailure)
  BY <1>1, <1>3, GiveUpKeeps
<1>4. CASE cli' = LET c == [cli EXCEPT !.failures = @ + 1]
                  IN  IF c.failures >= PollFailures THEN Done(c, ExitFailure) ELSE c
  <2>1. PICK c : c = [cli EXCEPT !.failures = @ + 1]
    OBVIOUS
  <2>2. cli' = IF c.failures >= PollFailures THEN Done(c, ExitFailure) ELSE c
    BY <1>4, <2>1
  <2>3. Done(c, ExitFailure) = Done(cli, ExitFailure)
    BY <1>2, <2>1 DEF Done, Client
  <2>4. CASE c.failures >= PollFailures
    BY <1>3, <2>2, <2>3, <2>4
  <2>5. CASE ~(c.failures >= PollFailures)
    <3>1. /\ c = [cli EXCEPT !.pc = "polling", !.failures = cli.failures + 1]
          /\ c.failures = cli.failures + 1 /\ cli.failures \in 0..PollFailures
      BY <1>1, <1>2, <2>1 DEF Client
    <3>2. cli.failures + 1 \in 0..PollFailures
      BY <2>5, <3>1, Bounds
    <3>3. QED
      BY <1>1, <2>2, <2>5, <3>1, <3>2, WaitKeeps
  <2>6. QED
    BY <2>4, <2>5
<1>5. QED
  BY <1>3, <1>4 DEF PollFails

\* What has succeeded stays so until it is shown.
LEMMA ReadFinalKeeps ==
  ASSUME SInv, ReadFinal
  PROVE  SInv'
<1>1. cli.pc = "final" /\ ops[cli.monitor].state = "Succeeded"
  BY DEF ReadFinal, SInv, Good, MonitorGood
<1>2. QED
  BY <1>1, ToldKeeps DEF ReadFinal, ExitOK, ExitOperationFailed

\* Out of time nothing is said of the operation.
LEMMA DeadlineKeeps ==
  ASSUME SInv, Deadline
  PROVE  SInv'
<1>1. /\ cli.pc = "polling" /\ cli \in Client
      /\ cli.answer \in {"None", "Accepted"}
      /\ cli.monitor # 0 => \E r \in bound : r.key = cli.key /\ r.op = cli.monitor
  BY UnderWay DEF Deadline
<1>2. PICK e : e = [cli EXCEPT !.late = TRUE]
  OBVIOUS
<1>3. e \in Client /\ Alike(cli, e) /\ e.answer = cli.answer /\ e.monitor = cli.monitor /\ e.late
  BY <1>1, <1>2 DEF Client, Alike
<1>4. ConflictGood(e, gen, bound, handling)
  BY <1>1, <1>3 DEF ConflictGood
<1>5. ExitOperationFailed \in ExitCodes \ {NotYet} /\ ExitOperationFailed # ExitOK
  BY DEF ExitCodes, ExitFailure, NotYet, ExitOK, ExitOperationFailed
<1>6. PICK d : d = Done(e, ExitOperationFailed)
  OBVIOUS
<1>7. e.monitor # 0 => \E r \in bound : r.key = e.key /\ r.op = e.monitor
  BY <1>1, <1>3 DEF Alike
<1>8. Good(d, gen, ops, bound, handling)
  BY <1>1, <1>3, <1>4, <1>5, <1>6, <1>7, DoneKeeps DEF SInv
<1>9. QED
  BY <1>2, <1>6, <1>8, OnlyCommand DEF Deadline

-----------------------------------------------------------------------------
(* The handlers. *)

\* Requests may go.
LEMMA FewerRequests ==
  ASSUME NEW c, NEW g, NEW o, NEW b, NEW h, NEW k \in SUBSET h, Good(c, g, o, b, h)
  PROVE  Good(c, g, o, b, k)
<1> USE DEF Good
<1>1. RequestsGood(c, g, o, k)
  BY DEF RequestsGood
<1>2. RecordsGood(c, b, k) /\ ConflictGood(c, g, b, k) /\ ProgressGood(c, b, k)
  BY DEF RecordsGood, ConflictGood, ProgressGood
<1>3. QED
  BY <1>1, <1>2

\* An answer arrives.
LEMMA ReceiveKeeps ==
  ASSUME NEW c, NEW g, NEW o, NEW b, NEW h, Good(c, g, o, b, h), c.pc = "sent",
         NEW reply \in Answers, NEW op,
         reply = "Accepted" => op # 0 /\ \E r \in b : r.key = c.key /\ r.op = op,
         reply = "KeyConflict" => ~c.pinned,
         reply = "GenerationConflict" /\ c.runs = 1 =>
           (\A q \in h : q.gen < g) /\ (\A r \in b : r.key # c.key)
  PROVE  Good(Receive(c, reply, op), g, o, b, h)
<1>1. /\ c \in Client /\ ~c.advised /\ c.exit = NotYet /\ c.pc \notin {"idle", "done"}
      /\ c.monitor # 0 => \E r \in b : r.key = c.key /\ r.op = c.monitor
  BY DEF Good, ProgressGood, MonitorGood
<1>2. CASE reply = "Accepted"
  <2>1. op \in 1..MaxOps
    <3>1. PICK r \in b : r.op = op
      BY <1>2
    <3>2. Len(o) \in 1..MaxOps /\ op \in 1..Len(o)
      BY <3>1 DEF Good, StoreGood
    <3>3. QED
      BY <3>2, Bounds
  <2>2. PICK e : e = [c EXCEPT !.answer = "Accepted", !.monitor = op]
    OBVIOUS
  <2>3. /\ e \in Client /\ Alike(c, e) /\ e.answer = "Accepted" /\ e.monitor = op
    <3>1. op \in 0..MaxOps
      BY <2>1, Bounds
    <3>2. QED
      BY <1>1, <2>2, <3>1 DEF Client, Alike, Answers
  <2>4. \E r \in b : r.key = e.key /\ r.op = e.monitor
    BY <1>2, <2>3 DEF Alike
  <2>5. CASE c.wait
    <3>1. PICK d : d = [e EXCEPT !.pc = "polling"]
      OBVIOUS
    <3>2. /\ d \in Client /\ Alike(c, d) /\ d.pc = "polling" /\ d.answer = "Accepted"
          /\ d.monitor = op /\ ~d.advised /\ d.exit = NotYet
      BY <1>1, <2>2, <2>3, <3>1 DEF Client, Alike
    <3>3. MonitorGood(d, o, b)
      BY <1>2, <3>2 DEF MonitorGood, NotYet, ExitOK, ExitOperationFailed, Alike
    <3>4. Good(d, g, o, b, h)
      BY <1>1, <3>2, <3>3, ContinueKeeps
    <3>5. Receive(c, reply, op) = d
      BY <1>2, <2>2, <2>5, <3>1 DEF Receive, FinishMutation
    <3>6. QED
      BY <3>4, <3>5
  <2>6. CASE ~c.wait
    <3>1. ConflictGood(e, g, b, h)
      BY <2>3 DEF ConflictGood
    <3>2. ExitOK \in ExitCodes \ {NotYet} /\ ExitOK # ExitOperationFailed
      BY DEF ExitCodes, NotYet, ExitOK, ExitOperationFailed
    <3>3. ~e.wait
      BY <2>3, <2>6 DEF Alike
    <3>4. Good(Done(e, ExitOK), g, o, b, h)
      BY <1>1, <2>3, <2>4, <3>1, <3>2, <3>3, DoneKeeps
    <3>5. Receive(c, reply, op) = Done(e, ExitOK)
      BY <1>2, <2>2, <2>6 DEF Receive, FinishMutation
    <3>6. QED
      BY <3>4, <3>5
  <2>7. QED
    BY <2>5, <2>6
<1>3. CASE reply = "Unavailable" /\ MayRetry(c)
  <2>1. Receive(c, reply, op) = Again(c)
    BY <1>3 DEF Receive
  <2>2. QED
    BY <1>3, <2>1, AgainKeeps
<1>4. CASE reply # "Accepted" /\ ~(reply = "Unavailable" /\ MayRetry(c))
  <2>1. PICK e : e = [c EXCEPT !.answer = reply]
    OBVIOUS
  <2>2. /\ e \in Client /\ Alike(c, e) /\ e.answer = reply /\ e.monitor = c.monitor
        /\ ~e.advised
    BY <1>1, <2>1 DEF Client, Alike
  <2>3. ConflictGood(e, g, b, h)
    BY <2>2 DEF ConflictGood, Alike
  <2>4. ExitRejected \in ExitCodes \ {NotYet} /\ ExitRejected # ExitOK /\ ExitRejected # ExitOperationFailed
    BY DEF ExitCodes, ExitRejected, NotYet, ExitOK, ExitOperationFailed
  <2>5. e.monitor # 0 => \E r \in b : r.key = e.key /\ r.op = e.monitor
    BY <1>1, <2>2 DEF Alike
  <2>6. e.answer = "KeyConflict" => ~e.pinned
    BY <2>2 DEF Alike
  <2>7. Good(Done(e, ExitRejected), g, o, b, h)
    BY <1>1, <2>2, <2>3, <2>4, <2>5, <2>6, DoneKeeps
  <2>8. Receive(c, reply, op) = Done(e, ExitRejected)
    BY <1>4, <2>1 DEF Receive
  <2>9. QED
    BY <2>7, <2>8
<1>5. QED
  BY <1>2, <1>3, <1>4

\* The requests of a pinned command have one fingerprint.
LEMMA OneFingerprint ==
  ASSUME NEW c, NEW g, NEW o, NEW b, NEW h, Good(c, g, o, b, h), c.pinned, NEW q \in h
  PROVE  /\ \A r \in h : Fingerprint(r) = Fingerprint(q)
         /\ Live(c) => Fingerprint(c) = Fingerprint(q)
<1>1. Fixed(c)
  BY DEF Fixed
<1>2. \A r \in h : r.kind = q.kind /\ r.source = q.source /\ r.gen = q.gen
  BY <1>1 DEF Good, RequestsGood
<1>3. Live(c) => c.kind = q.kind /\ c.source = q.source /\ c.gen = q.gen
  BY <1>1 DEF Good, RequestsGood
<1>4. QED
  BY <1>2, <1>3 DEF Fingerprint

\* An admission: it adds an operation at the end and a record for it, that is
\* another developer's or the first one for the key of a request under way.
LEMMA AdmissionKeeps ==
  ASSUME NEW c, NEW g, NEW o, NEW b, NEW h, Good(c, g, o, b, h),
         Len(o) < MaxOps, o[Len(o)].state # "Running",
         NEW e \in Operation, NEW p, p = Append(o, e),
         NEW g2 \in Nat, g2 >= g,
         NEW new, new.op = Len(o) + 1, NEW b2, b2 = b \cup {new},
         \/ new.key = 0
         \/ /\ \A r \in b : r.key # new.key
            /\ \E q \in h : new.key = q.key /\ new.fingerprint = Fingerprint(q) /\ q.gen = g
  PROVE  Good(c, g2, p, b2, h)
<1>1. /\ c \in Client /\ g \in Nat \ {0} /\ o \in Seq(Operation) /\ Len(o) \in 1..MaxOps
      /\ g2 \in Nat \ {0} /\ Len(o) \in Nat
  BY BoundsAssumption DEF Good, StoreGood
<1>2. /\ p \in Seq(Operation) /\ Len(p) = Len(o) + 1
      /\ \A i \in 1..Len(o) : p[i] = o[i]
  BY <1>1, AppendProperties
<1>3. new.key = 0 \/ (new.key = c.key /\ c.pc # "idle")
  BY DEF Good, RequestsGood, ProgressGood
<1>4. \A i \in 1..Len(o) : o[i].state # "Running"
  BY DEF Good, StoreGood
<1>5. StoreGood(g2, p, b2)
  <2>1. Len(p) \in 1..MaxOps
    BY <1>1, <1>2, BoundsAssumption
  <2>2. \A i \in 1..Len(p) : p[i].state = "Running" => i = Len(p)
    <3>1. ASSUME NEW i \in 1..Len(p) PROVE i \in 1..Len(o) \/ i = Len(p)
      BY <1>1, <1>2
    <3>2. QED
      BY <1>2, <1>4, <3>1
  <2>3. \A r \in b2 : r.op \in 1..Len(p)
    BY <1>1, <1>2 DEF Good, StoreGood
  <2>4. \A r, s \in b2 : r.key = s.key /\ r.key # 0 => r = s
    BY DEF Good, StoreGood
  <2>5. QED
    BY <1>1, <1>2, <2>1, <2>2, <2>3, <2>4 DEF StoreGood
<1>6. RequestsGood(c, g2, p, h)
  <2>1. \A i \in 1..Len(o) : i \in 1..Len(p)
    BY <1>1, <1>2
  <2>2. \A i \in 0..g : i \in 0..g2
    BY <1>1
  <2>3. QED
    BY <2>1, <2>2 DEF RequestsGood, Good
<1>7. RecordsGood(c, b2, h)
  <2>1. SUFFICES ASSUME c.pinned, new.key = c.key
                 PROVE  /\ \A q \in h : new.fingerprint = Fingerprint(q)
                        /\ Live(c) => new.fingerprint = Fingerprint(c)
    BY DEF RecordsGood, Good
  <2>2. c.pc # "idle" /\ c.key # 0
    BY <2>1 DEF Good, ProgressGood
  <2>3. PICK q \in h : new.fingerprint = Fingerprint(q)
    BY <2>1, <2>2
  <2>4. QED
    BY <2>1, <2>3, OneFingerprint
<1>8. ConflictGood(c, g2, b2, h)
  <2>1. SUFFICES ASSUME c.answer = "GenerationConflict", c.runs = 1
                 PROVE  (\A q \in h : q.gen < g2) /\ new.key # c.key
    BY DEF ConflictGood, Good
  <2>2. \A q \in h : q.gen < g /\ q.gen \in Nat
    BY <1>1, <2>1 DEF ConflictGood, Good, RequestsGood
  <2>3. c.key # 0
    BY <2>1 DEF Good, ProgressGood
  <2>4. QED
    BY <1>1, <2>2, <2>3
<1>9. ProgressGood(c, b2, h)
  BY <1>3 DEF ProgressGood, Good
<1>10. MonitorGood(c, p, b2)
  <2>1. c.monitor # 0 => c.monitor \in 1..Len(o)
    BY DEF MonitorGood, StoreGood, Good
  <2>2. c.monitor # 0 => p[c.monitor] = o[c.monitor]
    BY <1>2, <2>1
  <2>3. QED
    BY <2>2 DEF MonitorGood, Good
<1>11. QED
  BY <1>1, <1>5, <1>6, <1>7, <1>8, <1>9, <1>10 DEF Good

\* What an admission writes, for a request of the command or of another.
LEMMA AdmitFacts ==
  ASSUME SInv, NEW q, Admit(q), q.kind \in Kinds, q.source \in 1..Len(ops), ~Running,
         \/ q.key = 0
         \/ q \in handling /\ Admitted(q.key) = {} /\ q.gen = gen
  PROVE  /\ Good(cli, gen', ops', bound', handling)
         /\ \E r \in bound' : r.key = q.key /\ r.op = Latest + 1
<1>1. /\ gen \in Nat \ {0} /\ ops \in Seq(Operation) /\ Len(ops) \in 1..MaxOps
      /\ ops[Len(ops)].state # "Running" /\ Len(ops) < MaxOps
  BY DEF SInv, Good, StoreGood, Running, Latest, Admit
<1>2. gen' \in Nat /\ gen' >= gen
  BY <1>1 DEF Admit
<1>3. ops[q.source] \in Operation
  BY <1>1, ElementOfSeq
<1>4. PICK e : e = [kind |-> IF q.kind = "retry" THEN ops[q.source].kind ELSE q.kind,
                    state |-> "Running", gen |-> gen']
  OBVIOUS
<1>5. e \in Operation
  BY <1>2, <1>3, <1>4 DEF Operation, States, Kinds
<1>6. PICK new : new = [key |-> q.key, fingerprint |-> Fingerprint(q), op |-> Latest + 1]
  OBVIOUS
<1>7. /\ new.key = q.key /\ new.fingerprint = Fingerprint(q) /\ new.op = Len(ops) + 1
  BY <1>6 DEF Latest
<1>8. ops' = Append(ops, e) /\ bound' = bound \cup {new}
  BY <1>4, <1>6 DEF Admit
<1>9. \/ new.key = 0
      \/ /\ \A r \in bound : r.key # new.key
         /\ \E s \in handling : new.key = s.key /\ new.fingerprint = Fingerprint(s) /\ s.gen = gen
  BY <1>7 DEF Admitted
<1>10. PICK g2, p, b2 : g2 = gen' /\ p = ops' /\ b2 = bound'
  OBVIOUS
<1>11. Good(cli, g2, p, b2, handling)
  BY <1>1, <1>2, <1>5, <1>7, <1>8, <1>9, <1>10, AdmissionKeeps DEF SInv
<1>12. \E r \in bound' : r.key = q.key /\ r.op = Latest + 1
  BY <1>7, <1>8 DEF Latest
<1>13. QED
  BY <1>10, <1>11, <1>12

\* An answer after what the handler has written.
LEMMA AnswerKeeps ==
  ASSUME SInv, NEW q \in handling, NEW reply \in Answers, NEW op,
         Good(cli, gen', ops', bound', handling), Answer(q, reply, op), server' = server,
         reply = "Accepted" => op # 0 /\ \E r \in bound' : r.key = cli.key /\ r.op = op,
         reply = "KeyConflict" => ~cli.pinned,
         reply = "GenerationConflict" /\ cli.runs = 1 =>
           (\A r \in handling : r.gen < gen') /\ (\A r \in bound' : r.key # cli.key)
  PROVE  SInv'
<1>1. PICK g, o, b : g = gen' /\ o = ops' /\ b = bound'
  OBVIOUS
<1>2. PICK k \in SUBSET handling : k = handling' /\ k = handling \ {q}
  BY DEF Answer
<1>3. ServerGood'
  BY <1>2 DEF ServerGood, SInv
<1>4. Good(cli, g, o, b, handling)
  BY <1>1
<1>5. CASE cli' = cli
  <2>1. Good(cli, g, o, b, k)
    BY <1>4, FewerRequests
  <2>2. QED
    BY <1>1, <1>2, <1>3, <1>5, <2>1 DEF SInv
<1>6. CASE Awaited(q) /\ cli' = Receive(cli, reply, op)
  <2>1. PICK d : d = Receive(cli, reply, op)
    OBVIOUS
  <2>2. cli.pc = "sent"
    BY <1>6 DEF Awaited
  <2>3. Good(d, g, o, b, handling)
    BY <1>1, <1>4, <2>1, <2>2, ReceiveKeeps
  <2>4. Good(d, g, o, b, k)
    BY <2>3, FewerRequests
  <2>5. QED
    BY <1>1, <1>2, <1>3, <1>6, <2>1, <2>4 DEF SInv
<1>7. QED
  BY <1>5, <1>6 DEF Answer

\* What a handler decides, and on what.
LEMMA DecideFacts ==
  ASSUME SInv, NEW q \in handling
  PROVE  /\ q.kind \in Kinds /\ q.source \in 1..Len(ops) /\ q.key = cli.key /\ q.key # 0
         /\ Decide(q) = "Admit" => ~Running /\ Admitted(q.key) = {} /\ q.gen = gen
         /\ Decide(q) = "KeyConflict" => ~cli.pinned
         /\ Decide(q) = "GenerationConflict" /\ cli.runs = 1 =>
              (\A r \in handling : r.gen < gen) /\ (\A r \in bound : r.key # cli.key)
         /\ Decide(q) \notin {"Admit", "Replayed"} => Decide(q) \in Answers \ {"Accepted"}
<1>1. /\ q.kind \in Kinds /\ q.source \in 1..Len(ops) /\ q.key = cli.key /\ q.key # 0
      /\ gen \in Nat
  BY DEF SInv, Good, RequestsGood, ProgressGood, Client, StoreGood
<1>2. Decide(q) = "Admit" => ~Running /\ Admitted(q.key) = {} /\ q.gen = gen
  BY DEF Decide
<1>3. Decide(q) = "KeyConflict" => ~cli.pinned
  <2>1. SUFFICES ASSUME Decide(q) = "KeyConflict" PROVE ~cli.pinned
    OBVIOUS
  <2>2. \E r \in bound : r.key = q.key /\ r.fingerprint # Fingerprint(q)
    BY <2>1 DEF Decide, Admitted
  <2>3. QED
    BY <1>1, <2>2 DEF SInv, Good, RecordsGood
<1>4. ASSUME Decide(q) = "GenerationConflict", cli.runs = 1
      PROVE  (\A r \in handling : r.gen < gen) /\ (\A r \in bound : r.key # cli.key)
  <2>1. Admitted(q.key) = {} /\ q.gen # gen
    BY <1>4 DEF Decide
  <2>2. \A r \in handling : r.gen = q.gen /\ r.gen \in 0..gen
    BY <1>4 DEF SInv, Good, RequestsGood, Fixed
  <2>3. \A r \in handling : r.gen < gen
    BY <1>1, <2>1, <2>2
  <2>4. QED
    BY <1>1, <2>1, <2>3 DEF Admitted
<1>5. Decide(q) \notin {"Admit", "Replayed"} => Decide(q) \in Answers \ {"Accepted"}
  BY DEF Decide, Answers
<1>6. QED
  BY <1>1, <1>2, <1>3, <1>4, <1>5

\* A handler answers what it has decided, when it has written it.
LEMMA HandleKeeps ==
  ASSUME SInv, NEW q \in handling, Handle(q)
  PROVE  SInv'
<1>1. server' = server
  BY DEF Handle
<1>2. CASE Decide(q) = "Admit" /\ Admit(q) /\ Answer(q, "Accepted", Latest + 1)
  <2>1. /\ Good(cli, gen', ops', bound', handling)
        /\ \E r \in bound' : r.key = cli.key /\ r.op = Latest + 1
    BY <1>2, DecideFacts, AdmitFacts
  <2>2. Latest + 1 # 0
    BY DEF Latest, SInv, Good, StoreGood
  <2>3. QED
    BY <1>1, <1>2, <2>1, <2>2, AnswerKeeps DEF Answers
<1>3. CASE /\ Decide(q) = "Replayed" /\ UNCHANGED store
           /\ \E r \in Admitted(q.key) : Answer(q, "Accepted", r.op)
  <2>1. PICK r \in bound : r.key = q.key /\ Answer(q, "Accepted", r.op)
    BY <1>3 DEF Admitted
  <2>2. gen' = gen /\ ops' = ops /\ bound' = bound
    BY <1>3 DEF store
  <2>3. r.op # 0
    BY DEF SInv, Good, StoreGood
  <2>4. q.key = cli.key
    BY DecideFacts
  <2>5. QED
    BY <1>1, <2>1, <2>2, <2>3, <2>4, AnswerKeeps DEF Answers, SInv
<1>4. CASE Decide(q) \notin {"Admit", "Replayed"} /\ UNCHANGED store /\ Answer(q, Decide(q), 0)
  <2>1. gen' = gen /\ ops' = ops /\ bound' = bound
    BY <1>4 DEF store
  <2>2. PICK reply \in Answers \ {"Accepted"} : reply = Decide(q)
    BY <1>4, DecideFacts
  <2>3. /\ reply = "KeyConflict" => ~cli.pinned
        /\ reply = "GenerationConflict" /\ cli.runs = 1 =>
              (\A r \in handling : r.gen < gen) /\ (\A r \in bound : r.key # cli.key)
    BY <2>2, DecideFacts
  <2>4. QED
    BY <1>1, <1>4, <2>1, <2>2, <2>3, AnswerKeeps DEF SInv
<1>5. QED
  BY <1>2, <1>3, <1>4 DEF Handle

\* An error of the store: nothing, or everything, is written, and the answer
\* says neither.
LEMMA StoreFailsKeeps ==
  ASSUME SInv, NEW q \in handling, StoreFails(q)
  PROVE  SInv'
<1>1. server' = server
  BY DEF StoreFails
<1>2. CASE UNCHANGED store /\ \E reply \in {"NotFound", "Unavailable", "Internal"} : Answer(q, reply, 0)
  <2>1. gen' = gen /\ ops' = ops /\ bound' = bound
    BY <1>2 DEF store
  <2>2. PICK reply \in {"NotFound", "Unavailable", "Internal"} : Answer(q, reply, 0)
    BY <1>2
  <2>3. QED
    BY <1>1, <2>1, <2>2, AnswerKeeps DEF Answers, SInv
<1>3. CASE /\ Decide(q) = "Admit" /\ Admit(q)
           /\ \E reply \in {"Unavailable", "Internal"} : Answer(q, reply, 0)
  <2>1. Good(cli, gen', ops', bound', handling)
    BY <1>3, DecideFacts, AdmitFacts
  <2>2. PICK reply \in {"Unavailable", "Internal"} : Answer(q, reply, 0)
    BY <1>3
  <2>3. QED
    BY <1>1, <2>1, <2>2, AnswerKeeps DEF Answers
<1>4. QED
  BY <1>2, <1>3 DEF StoreFails

\* What another developer has admitted is not the command's.
LEMMA OtherAdmissionKeeps ==
  ASSUME SInv, OtherAdmission
  PROVE  SInv'
<1>1. PICK kind \in Kinds : Admit([key |-> 0, kind |-> kind, gen |-> gen, source |-> Latest])
  BY DEF OtherAdmission
<1>2. PICK q : q = [key |-> 0, kind |-> kind, gen |-> gen, source |-> Latest]
  OBVIOUS
<1>3. q.key = 0 /\ q.kind \in Kinds /\ q.source \in 1..Len(ops)
  BY <1>2 DEF Latest, SInv, Good, StoreGood
<1>4. ~Running /\ cli' = cli /\ handling' = handling /\ server' = server
  BY DEF OtherAdmission
<1>5. Good(cli, gen', ops', bound', handling)
  BY <1>1, <1>2, <1>3, <1>4, AdmitFacts
<1>6. QED
  BY <1>4, <1>5 DEF SInv, ServerGood

-----------------------------------------------------------------------------
(* The worker and the process. *)

\* The operation that is worked on ends: no other is touched.
LEMMA EndKeeps ==
  ASSUME SInv, OperationEnds
  PROVE  Good(cli, gen, ops', bound, handling)
<1>1. PICK s \in {"Succeeded", "Failed"} : ops' = [ops EXCEPT ![Len(ops)].state = s]
  BY DEF OperationEnds, Latest
<1>2. /\ ops \in Seq(Operation) /\ Len(ops) \in 1..MaxOps /\ ops[Len(ops)].state = "Running"
      /\ Len(ops) \in Nat
  BY BoundsAssumption DEF SInv, Good, StoreGood, OperationEnds, Running, Latest
<1>3. PICK p : p = ops'
  OBVIOUS
<1>4. /\ p \in Seq(Operation) /\ Len(p) = Len(ops) /\ p[Len(ops)].state = s
      /\ \A i \in 1..Len(ops) : i # Len(ops) => p[i] = ops[i]
  <2>1. ops[Len(ops)] \in Operation
    BY <1>2, ElementOfSeq
  <2>2. [ops[Len(ops)] EXCEPT !.state = s] \in Operation
    BY <2>1 DEF Operation, States
  <2>3. p = [ops EXCEPT ![Len(ops)] = [ops[Len(ops)] EXCEPT !.state = s]]
    BY <1>1, <1>2, <1>3
  <2>4. p \in Seq(Operation) /\ Len(p) = Len(ops)
    BY <1>2, <2>2, <2>3, ExceptSeq
  <2>5. QED
    BY <1>2, <2>1, <2>3, <2>4 DEF Operation
<1>5. StoreGood(gen, p, bound)
  <2>1. \A i \in 1..Len(p) : p[i].state # "Running"
    BY <1>2, <1>4 DEF SInv, Good, StoreGood
  <2>2. QED
    BY <1>4, <2>1 DEF SInv, Good, StoreGood
<1>6. RequestsGood(cli, gen, p, handling)
  BY <1>4 DEF SInv, Good, RequestsGood
<1>7. MonitorGood(cli, p, bound)
  <2>1. cli.monitor # 0 => cli.monitor \in 1..Len(ops)
    BY DEF SInv, Good, MonitorGood, StoreGood
  <2>2. cli.monitor # 0 /\ ops[cli.monitor].state # "Running" => p[cli.monitor] = ops[cli.monitor]
    BY <1>2, <1>4, <2>1
  <2>3. QED
    BY <2>2 DEF MonitorGood, SInv, Good
<1>8. QED
  BY <1>3, <1>5, <1>6, <1>7 DEF SInv, Good

\* The server moves on, and only it.
LEMMA OnlyServer ==
  ASSUME SInv, UNCHANGED <<store, cli, handling>>, ServerGood'
  PROVE  SInv'
  BY DEF SInv, store

\* The work goes on while the server serves.
LEMMA WorkKeeps ==
  ASSUME SInv, Work
  PROVE  SInv'
  BY EndKeeps DEF Work, SInv, ServerGood

\* Work that returns leaves the store as it was, or ends the operation.
LEMMA WorkerReturnsKeeps ==
  ASSUME SInv, WorkerReturns
  PROVE  SInv'
<1>1. ServerGood'
  BY DEF WorkerReturns, SInv, ServerGood
<1>2. /\ gen' = gen /\ bound' = bound /\ cli' = cli /\ handling' = handling
  BY DEF WorkerReturns
<1>3. Good(cli, gen, ops', bound, handling)
  BY EndKeeps DEF WorkerReturns, SInv
<1>4. QED
  BY <1>1, <1>2, <1>3 DEF SInv

\* Every step of an orderly shutdown, and what goes wrong in it.
LEMMA ProcessKeeps ==
  ASSUME SInv,
         \/ WorkerClaims \/ Signal \/ ListenersClosed \/ ListenersCut \/ WorkerStopped
         \/ WorkerAbandoned \/ CloseStore \/ Start
  PROVE  SInv'
<1> USE DEF SInv
<1>1. CASE WorkerClaims
  <2>1. ServerGood'
    BY <1>1 DEF WorkerClaims, ServerGood
  <2>2. QED
    BY <1>1, <2>1, OnlyServer DEF WorkerClaims
<1>2. CASE Signal
  <2>1. ServerGood'
    BY <1>2 DEF Signal, ServerGood, Phases
  <2>2. QED
    BY <1>2, <2>1, OnlyServer DEF Signal
<1>3. CASE ListenersClosed
  <2>1. ServerGood'
    BY <1>3 DEF ListenersClosed, Enter, ServerGood, Phases
  <2>2. QED
    BY <1>3, <2>1, OnlyServer DEF ListenersClosed, Enter
<1>4. CASE ListenersCut
  <2>1. ServerGood'
    BY <1>4 DEF ListenersCut, EnterForced, ServerGood, Phases
  <2>2. QED
    BY <1>4, <2>1, OnlyServer DEF ListenersCut, EnterForced
<1>5. CASE WorkerStopped
  <2>1. ServerGood'
    BY <1>5 DEF WorkerStopped, ServerGood, Phases
  <2>2. QED
    BY <1>5, <2>1, OnlyServer DEF WorkerStopped
<1>6. CASE WorkerAbandoned
  <2>1. ServerGood'
    BY <1>6 DEF WorkerAbandoned, EnterForced, ServerGood, Phases
  <2>2. QED
    BY <1>6, <2>1, OnlyServer DEF WorkerAbandoned, EnterForced
<1>7. CASE CloseStore
  <2>1. ServerGood'
    BY <1>7 DEF CloseStore, Enter, ServerGood, Phases
  <2>2. QED
    BY <1>7, <2>1, OnlyServer DEF CloseStore, Enter
<1>8. CASE Start
  <2>1. ServerGood'
    BY <1>8 DEF Start, ServerGood, Phases
  <2>2. QED
    BY <1>8, <2>1, OnlyServer DEF Start
<1>9. QED
  BY <1>1, <1>2, <1>3, <1>4, <1>5, <1>6, <1>7, <1>8

\* The process ends with all that it was handling.
LEMMA EndedKeeps ==
  ASSUME SInv, Ended
  PROVE  SInv'
<1>1. ServerGood'
  BY DEF Ended, ServerGood, Phases
<1>2. PICK k \in SUBSET handling : k = handling'
  BY DEF Ended
<1>3. Good(cli, gen, ops, bound, k)
  BY FewerRequests DEF SInv
<1>4. QED
  BY <1>1, <1>2, <1>3 DEF SInv, Ended, store

-----------------------------------------------------------------------------
(* The theorems. *)

\* The initial state.
LEMMA InitGood == Init => SInv
<1> SUFFICES ASSUME Init PROVE SInv
  OBVIOUS
<1>1. /\ cli \in Client /\ cli.pc = "idle" /\ cli.key = 0 /\ cli.runs = 0 /\ ~cli.pinned
      /\ ~cli.advised /\ cli.answer = "None" /\ cli.monitor = 0 /\ cli.exit = NotYet
  BY BoundsAssumption DEF Init, Client, Kinds, Answers, ExitCodes
<1>2. /\ ops \in Seq(Operation) /\ Len(ops) = 1 /\ ops[1].state = "Failed"
  BY DEF Init, Operation, States
<1>3. StoreGood(gen, ops, bound)
  BY <1>2, BoundsAssumption DEF Init, StoreGood
<1>4. RequestsGood(cli, gen, ops, handling)
  BY <1>1 DEF Init, RequestsGood, Live
<1>5. /\ RecordsGood(cli, bound, handling) /\ ConflictGood(cli, gen, bound, handling)
      /\ ProgressGood(cli, bound, handling)
  BY <1>1 DEF Init, RecordsGood, ConflictGood, ProgressGood
<1>6. MonitorGood(cli, ops, bound)
  BY <1>1 DEF MonitorGood, NotYet, ExitOK, ExitOperationFailed
<1>7. ServerGood
  BY DEF Init, ServerGood, Phases
<1>8. QED
  BY <1>1, <1>3, <1>4, <1>5, <1>6, <1>7 DEF SInv, Good

\* Every step keeps the invariant.
LEMMA NextKeeps ==
  ASSUME SInv, [Next]_vars
  PROVE  SInv'
<1>1. CASE UpdateCommand \/ DeleteCommand \/ RetryCommand
  BY <1>1, BeginKeeps DEF UpdateCommand, DeleteCommand, RetryCommand
<1>2. CASE Rerun \/ Unanswered \/ Interrupt
  BY <1>2, RerunKeeps, UnansweredKeeps, InterruptKeeps
<1>3. CASE Command
  BY <1>3, ReadGenerationKeeps, ReadFailsKeeps, SendKeeps, TransportErrorKeeps, PollKeeps,
     PollFailsKeeps, ReadFinalKeeps, DeadlineKeeps DEF Command
<1>4. CASE \E q \in handling : UpdateResource(q) \/ DeleteResource(q) \/ RetryOperation(q) \/ StoreFails(q)
  BY <1>4, HandleKeeps, StoreFailsKeeps DEF UpdateResource, DeleteResource, RetryOperation
<1>5. CASE OtherAdmission \/ Work \/ WorkerReturns
  BY <1>5, OtherAdmissionKeeps, WorkKeeps, WorkerReturnsKeeps
<1>6. CASE WorkerClaims \/ Signal \/ Start
  BY <1>6, ProcessKeeps
<1>7. CASE Shutdown \/ Crash
  BY <1>7, ProcessKeeps, EndedKeeps DEF Shutdown, Exit, Crash
<1>8. CASE UNCHANGED vars
  BY <1>8 DEF vars, SInv, ServerGood
<1>9. QED
  BY <1>1, <1>2, <1>3, <1>4, <1>5, <1>6, <1>7, <1>8 DEF Next

\* The invariant holds in every behaviour.
LEMMA Invariance == Spec => []SInv
<1>1. SInv /\ [Next]_vars => SInv'
  BY NextKeeps
<1>2. QED
  BY InitGood, <1>1, PTL DEF Spec

\* What a command tells is the truth: it waits for the operation that its own
\* key admitted, and its exit code says what has become of that operation,
\* through retries, replays, restarts and the operations of others.
THEOREM TruthIsTold == Spec => []CommandTellsTruth
<1>1. SInv => CommandTellsTruth
  <2> SUFFICES ASSUME SInv PROVE CommandTellsTruth
    OBVIOUS
  <2>1. TypeOK
    <3>1. \A i \in DOMAIN ops : i \in 1..Len(ops) /\ ops[i] \in Operation
      BY ElementOfSeq DEF SInv, Good, StoreGood
    <3>2. \A i \in DOMAIN ops : /\ ops[i].state \in {"Running", "Succeeded", "Failed"}
                                /\ ops[i].state = "Running" => i = Latest
      BY <3>1 DEF SInv, Good, StoreGood, Operation, States, Latest
    <3>3. gen \in Nat \ {0} /\ Len(ops) <= MaxOps
      BY BoundsAssumption DEF SInv, Good, StoreGood
    <3>4. /\ cli.pc \in {"idle", "reading", "sending", "sent", "polling", "final", "hung", "done"}
          /\ cli.attempt \in 1..Attempts /\ cli.failures \in 0..PollFailures
          /\ cli.answer \in Answers /\ cli.monitor \in 0..MaxOps
          /\ (cli.pc = "done") = (cli.exit # NotYet)
      BY DEF SInv, Good, Client, ProgressGood
    <3>5. QED
      BY <3>2, <3>3, <3>4 DEF TypeOK, SInv, ServerGood
  <2>2. OwnOperation
    BY DEF OwnOperation, SInv, Good, MonitorGood, Admitted
  <2>3. ExitIsTruth
    BY DEF ExitIsTruth, SInv, Good, MonitorGood
  <2>4. QED
    BY <2>1, <2>2, <2>3 DEF CommandTellsTruth
<1>2. QED
  BY Invariance, <1>1, PTL

\* The idempotency key works through lost answers and late attempts: one key is
\* one operation at most, a conflict of generations means none, not even of an
\* attempt that is still on its way, and the replay of a pinned command is never
\* taken for another request.
THEOREM KeysAdmitOnce == Spec => []KeyAdmitsOnce
<1>1. SInv => KeyAdmitsOnce
  <2> SUFFICES ASSUME SInv PROVE KeyAdmitsOnce
    OBVIOUS
  <2>1. OneOperationPerKey
    BY DEF OneOperationPerKey, SInv, Good, StoreGood
  <2>2. ConflictMeansNotAdmitted
    BY DEF ConflictMeansNotAdmitted, SInv, Good, ConflictGood, ProgressGood, Admitted
  <2>3. PinnedReplayResolves
    BY DEF PinnedReplayResolves, SInv, Good, ProgressGood
  <2>4. QED
    BY <2>1, <2>2, <2>3 DEF KeyAdmitsOnce
<1>2. QED
  BY Invariance, <1>1, PTL

\* In an orderly shutdown the store is closed last: a handler or the worker meets
\* a closed store only when it has outlasted its window.
THEOREM StoreClosesLast == Spec => []StoreOutlivesWork
<1>1. SInv => StoreOutlivesWork
  BY DEF SInv, ServerGood, StoreOutlivesWork
<1>2. QED
  BY Invariance, <1>1, PTL

-----------------------------------------------------------------------------
(***************************************************************************)
(* The read side of the same API: proofs about Access, for any resources,  *)
(* owners, tokens, filters, page size and number of changes.               *)
(*                                                                         *)
(* A page is cut from the rows that are there when it is asked for.  What  *)
(* the cursor remembers is one position, and the invariant says that it    *)
(* splits what the walk has to show: at and above the position everything  *)
(* steady was shown, and nothing was shown below it (WalkGood).            *)
(***************************************************************************)

\* What Access assumes of the constants that a walk depends on.
LEMMA ReadingBounds ==
  /\ Resources \subseteq Nat \ {0} /\ IsFiniteSet(Resources)
  /\ Limit \in Nat \ {0} /\ MaxChanges \in Nat
  BY ConstantsAssumption

WalkFields(w) ==
  w \in [open : BOOLEAN, filter : {w.filter}, scope : {w.scope}, position : Nat,
         seen : SUBSET Resources, shown : Nat, steady : SUBSET Resources]

\* What was shown is counted once, and within the visibility of the walk.
ShownGood(w, states) ==
  /\ WalkFields(w)
  /\ w.steady \subseteq Matching(states, w.filter, w.scope)
  /\ w.shown = Cardinality(w.seen)
  /\ \A r \in w.seen : OwnerOf[r] \in w.scope

\* The position splits what is to be shown.
SplitAt(w, position) ==
  /\ \A r \in w.seen : r >= position
  /\ \A r \in w.steady : r >= position => r \in w.seen

WalkGood(w, states) ==
  /\ ShownGood(w, states)
  /\ w.open => w.position \in Resources /\ SplitAt(w, w.position)
  /\ ~w.open => w.steady \subseteq w.seen

ReadingInv ==
  /\ AccessTypeOK
  /\ walk # NoWalk => WalkGood(walk, state)

\* A set of sequence numbers has a first one.
LEMMA LeastNumber == ASSUME NEW T, T \subseteq Nat, T # {} PROVE \E m \in T : \A t \in T : m <= t
<1>1. PICK R : IsWellFoundedOn(R, Nat) /\ \A t, m \in Nat : t < m => <<t, m>> \in R
  <2>1. \A t, m \in Nat : t < m => <<t, m>> \in OpToRel(<, Nat)
    BY DEF OpToRel
  <2>2. IsWellFoundedOn(OpToRel(<, Nat), Nat)
    BY NatLessThanWellFounded
  <2>3. QED
    BY <2>1, <2>2, Zenon
<1>2. PICK m \in T : \A t \in T : ~(<<t, m>> \in R)
  <2>1. IsWellFoundedOn(R, Nat)
    BY <1>1
  <2>2. QED
    BY <2>1, WFMin
<1>3. \A t \in T : ~(t < m)
  BY <1>1, <1>2
<1>4. QED
  BY <1>2, <1>3

\* The rows that are newer than one.
Newer(rows, r) == {s \in rows : s > r}

\* The newer rows are fewer the newer the row is, and fewer than the rows.
LEMMA NewerCount ==
  ASSUME NEW rows, rows \subseteq Nat, IsFiniteSet(rows), NEW r \in rows
  PROVE  /\ Cardinality(Newer(rows, r)) \in Nat
         /\ Cardinality(Newer(rows, r)) < Cardinality(rows)
         /\ \A s \in rows : s >= r => Cardinality(Newer(rows, s)) <= Cardinality(Newer(rows, r))
         /\ \A s \in rows : s > r => Cardinality(Newer(rows, s)) < Cardinality(Newer(rows, r))
<1>1. IsFiniteSet(Newer(rows, r)) /\ Newer(rows, r) \in SUBSET rows
  BY FS_Subset DEF Newer
<1>2. Cardinality(Newer(rows, r)) \in Nat /\ Cardinality(rows) \in Nat
  BY <1>1, FS_CardinalityType
<1>3. Cardinality(Newer(rows, r)) < Cardinality(rows)
  <2>1. r \notin Newer(rows, r)
    BY DEF Newer
  <2>2. Newer(rows, r) # rows
    BY <2>1
  <2>3. Cardinality(Newer(rows, r)) <= Cardinality(rows) /\ Cardinality(rows) # Cardinality(Newer(rows, r))
    BY <1>1, <2>2, FS_Subset
  <2>4. QED
    BY <1>2, <2>3
<1>4. ASSUME NEW s \in rows, s >= r
      PROVE  /\ Cardinality(Newer(rows, s)) <= Cardinality(Newer(rows, r))
             /\ s > r => Cardinality(Newer(rows, s)) < Cardinality(Newer(rows, r))
  <2>1. Newer(rows, s) \in SUBSET Newer(rows, r)
    <3>1. SUFFICES ASSUME NEW t \in Newer(rows, s) PROVE t \in Newer(rows, r)
      OBVIOUS
    <3>2. t \in rows /\ t \in Nat /\ s \in Nat /\ r \in Nat /\ t > s
      BY DEF Newer
    <3>3. QED
      BY <1>4, <3>2 DEF Newer
  <2>2. /\ IsFiniteSet(Newer(rows, s)) /\ Cardinality(Newer(rows, s)) <= Cardinality(Newer(rows, r))
        /\ Cardinality(Newer(rows, r)) = Cardinality(Newer(rows, s)) => Newer(rows, r) = Newer(rows, s)
    BY <1>1, <2>1, FS_Subset
  <2>3. Cardinality(Newer(rows, s)) \in Nat
    BY <2>2, FS_CardinalityType
  <2>4. s > r => s \in Newer(rows, r) /\ s \notin Newer(rows, s)
    BY DEF Newer
  <2>5. QED
    BY <1>2, <2>2, <2>3, <2>4
<1>5. \A s \in rows : s > r => s >= r
  OBVIOUS
<1>6. QED
  BY <1>2, <1>3, <1>4, <1>5

\* A page in terms of counts.
LEMMA PageCount ==
  ASSUME NEW rows
  PROVE  FirstOf(rows, Limit) = {r \in rows : Cardinality(Newer(rows, r)) < Limit}
  BY DEF FirstOf, Newer

\* A page of rows is not empty: it has the newest one.
LEMMA PageHasNewest ==
  ASSUME NEW rows, rows \subseteq Nat, IsFiniteSet(rows), rows # {}
  PROVE  FirstOf(rows, Limit) # {}
<1>1. PICK counts : counts = {Cardinality(Newer(rows, r)) : r \in rows}
  OBVIOUS
<1>2. counts \subseteq Nat /\ counts # {}
  BY <1>1, NewerCount
<1>3. PICK k \in counts : \A n \in counts : k <= n
  BY <1>2, LeastNumber
<1>4. PICK r \in rows : k = Cardinality(Newer(rows, r))
  BY <1>1, <1>3
<1>5. Newer(rows, r) = {}
  <2>1. SUFFICES ASSUME NEW s \in Newer(rows, r) PROVE FALSE
    OBVIOUS
  <2>2. s \in rows /\ s > r
    BY DEF Newer
  <2>3. PICK n : n = Cardinality(Newer(rows, s))
    OBVIOUS
  <2>4. n < k
    BY <1>4, <2>2, <2>3, NewerCount
  <2>5. n \in counts /\ n \in Nat /\ k \in Nat
    BY <1>1, <1>2, <2>2, <2>3
  <2>6. QED
    BY <1>3, <2>4, <2>5
<1>6. Cardinality(Newer(rows, r)) < Limit
  BY <1>5, FS_EmptySet, ReadingBounds
<1>7. QED
  BY <1>6, PageCount

\* The position of the next page splits the rows: this page has those at and after
\* it, and all of them when there is no next page (NextSequence).
LEMMA PageSplits ==
  ASSUME NEW rows, rows \subseteq Resources
  PROVE  /\ FirstOf(rows, Limit) \subseteq rows
         /\ NextSequence(rows) = 0 => FirstOf(rows, Limit) = rows
         /\ NextSequence(rows) # 0
              => /\ NextSequence(rows) \in rows
                 /\ \A r \in rows : r \in FirstOf(rows, Limit)
                                      <=> r >= NextSequence(rows)
<1>1. PICK page : page = FirstOf(rows, Limit)
  OBVIOUS
<1>2. page = {r \in rows : Cardinality(Newer(rows, r)) < Limit} /\ page \subseteq rows
  BY <1>1, PageCount
<1>3. /\ rows \subseteq Nat \ {0} /\ rows \subseteq Nat /\ IsFiniteSet(rows) /\ Limit \in Nat
      /\ Cardinality(rows) \in Nat
  BY FS_Subset, FS_CardinalityType, ReadingBounds
<1>4. NextSequence(rows) = IF Cardinality(rows) > Limit THEN Min(page) ELSE 0
  BY <1>1 DEF NextSequence
<1>5. CASE ~(Cardinality(rows) > Limit)
  <2>1. ASSUME NEW r \in rows PROVE r \in page
    <3>1. Cardinality(Newer(rows, r)) \in Nat /\ Cardinality(Newer(rows, r)) < Cardinality(rows)
      BY <1>3, NewerCount
    <3>2. QED
      BY <1>2, <1>3, <1>5, <3>1
  <2>2. QED
    BY <1>1, <1>2, <1>4, <1>5, <2>1
<1>6. CASE Cardinality(rows) > Limit
  <2>1. rows # {}
    BY <1>3, <1>6, FS_EmptySet
  <2>2. page # {} /\ page \subseteq Nat
    BY <1>1, <1>2, <1>3, <2>1, PageHasNewest
  <2>3. PICK next : next = NextSequence(rows)
    OBVIOUS
  <2>4. next \in page /\ \A r \in page : next <= r
    <3>1. \E m \in page : \A r \in page : m <= r
      BY <2>2, LeastNumber
    <3>2. next = CHOOSE m \in page : \A r \in page : m <= r
      BY <1>4, <1>6, <2>3 DEF Min
    <3>3. QED
      BY <3>1, <3>2
  <2>5. next # 0 /\ next \in rows /\ Cardinality(Newer(rows, next)) < Limit
    BY <1>2, <1>3, <2>4
  <2>6. ASSUME NEW r \in rows, r >= next PROVE r \in page
    <3>1. /\ Cardinality(Newer(rows, r)) <= Cardinality(Newer(rows, next))
          /\ Cardinality(Newer(rows, next)) \in Nat /\ Cardinality(Newer(rows, r)) \in Nat
      BY <1>3, <2>5, <2>6, NewerCount
    <3>2. QED
      BY <1>2, <1>3, <2>5, <3>1
  <2>7. \A r \in rows : r \in page => r >= next
    BY <1>3, <2>4, <2>5
  <2>8. QED
    BY <1>1, <1>2, <2>3, <2>5, <2>6, <2>7
<1>7. QED
  BY <1>5, <1>6

\* A page is shown: from the beginning, or from where the walk has come to.
LEMMA PageShown ==
  ASSUME NEW old, NEW after, ShownGood(old, state), UNCHANGED state,
         Show(old, old.filter, old.scope, after),
         \/ after = 0 /\ old.seen = {}
         \/ after \in Resources /\ SplitAt(old, after)
  PROVE  WalkGood(walk', state')
<1>1. PICK matching : matching = Matching(state, old.filter, old.scope)
  OBVIOUS
<1>2. PICK rows : rows = PageItems(matching, after)
  OBVIOUS
<1>3. PICK page : page = FirstOf(rows, Limit)
  OBVIOUS
<1>4. PICK next : next = NextSequence(rows)
  OBVIOUS
<1>5. /\ matching \subseteq Resources /\ old.steady \subseteq matching
      /\ \A r \in matching : OwnerOf[r] \in old.scope
  BY <1>1 DEF Matching, ShownGood
<1>6. rows = {r \in matching : after = 0 \/ r < after} /\ rows \subseteq Resources
  BY <1>2, <1>5 DEF PageItems
<1>7. /\ page \subseteq rows /\ (next = 0 => page = rows)
      /\ next # 0 => next \in rows /\ \A r \in rows : r \in page <=> r >= next
  BY <1>3, <1>4, <1>6, PageSplits
<1>8. /\ Resources \subseteq Nat /\ 0 \notin Resources /\ after \in Nat
      /\ old.seen \subseteq Resources
  <2>1. Resources \subseteq Nat /\ 0 \notin Resources /\ old.seen \subseteq Resources
    BY ReadingBounds DEF ShownGood, WalkFields
  <2>2. CASE after = 0
    BY <2>1, <2>2
  <2>3. CASE after \in Resources
    BY <2>1, <2>3
  <2>4. QED
    BY <2>2, <2>3
<1>9. IsFiniteSet(old.seen) /\ IsFiniteSet(page)
  BY <1>6, <1>7, <1>8, FS_Subset, ReadingBounds
<1>10. /\ Cardinality({}) = 0 /\ Cardinality(old.seen) \in Nat /\ Cardinality(page) \in Nat
  BY <1>9, FS_EmptySet, FS_CardinalityType
<1>11. PICK more : more \in BOOLEAN /\ more = (next # 0)
  OBVIOUS
<1>12. PICK seen : seen = old.seen \cup page
  OBVIOUS
<1>13. PICK shown : shown = old.shown + Cardinality(page)
  OBVIOUS
<1>14. PICK w : w = walk'
  OBVIOUS
<1>15. w = [old EXCEPT !.open = more, !.position = next, !.seen = seen, !.shown = shown]
  BY <1>1, <1>2, <1>3, <1>4, <1>11, <1>12, <1>13, <1>14 DEF Show
<1>16. /\ WalkFields(w) /\ (w.open <=> next # 0) /\ w.position = next
       /\ w.seen = old.seen \cup page /\ w.shown = shown
       /\ w.filter = old.filter /\ w.scope = old.scope /\ w.steady = old.steady
  <2>1. next \in Nat
    <3>1. CASE next = 0
      BY <3>1
    <3>2. CASE next # 0
      BY <1>6, <1>7, <1>8, <3>2
    <3>3. QED
      BY <3>1, <3>2
  <2>2. seen \in SUBSET Resources
    BY <1>6, <1>7, <1>8, <1>12
  <2>3. shown \in Nat /\ WalkFields(old)
    BY <1>10, <1>13 DEF ShownGood
  <2>4. more \in BOOLEAN
    BY <1>11
  <2>5. /\ WalkFields(w) /\ (w.open <=> more) /\ w.position = next /\ w.seen = seen /\ w.shown = shown
        /\ w.filter = old.filter /\ w.scope = old.scope /\ w.steady = old.steady
    BY <1>15, <2>1, <2>2, <2>3, <2>4 DEF WalkFields
  <2>6. QED
    BY <1>11, <1>12, <2>5
<1>17. ASSUME NEW r \in page PROVE r \notin old.seen
  <2>1. CASE after = 0 /\ old.seen = {}
    BY <2>1
  <2>2. CASE after \in Resources /\ SplitAt(old, after)
    <3>1. r < after /\ r \in Nat
      BY <1>6, <1>7, <1>8, <2>2
    <3>2. QED
      BY <1>8, <2>2, <3>1 DEF SplitAt
  <2>3. QED
    BY <2>1, <2>2
<1>18. w.shown = Cardinality(w.seen)
  <2>1. old.seen \cap page = {}
    BY <1>17
  <2>2. Cardinality(old.seen \cup page) = Cardinality(old.seen) + Cardinality(page) - Cardinality({})
    BY <1>9, <2>1, FS_Union
  <2>3. QED
    BY <1>10, <1>13, <1>16, <2>2 DEF ShownGood
<1>19. ShownGood(w, state)
  <2>1. \A r \in w.seen : OwnerOf[r] \in w.scope
    BY <1>5, <1>6, <1>7, <1>16 DEF ShownGood
  <2>2. QED
    BY <1>1, <1>5, <1>16, <1>18, <2>1 DEF ShownGood
<1>20. \A r \in old.steady : r \in old.seen \/ r \in rows
  <2>1. SUFFICES ASSUME NEW r \in old.steady, r \notin old.seen PROVE r \in rows
    OBVIOUS
  <2>2. r \in matching /\ r \in Nat
    BY <1>5, <1>8
  <2>3. after = 0 \/ r < after
    BY <1>8, <2>1, <2>2 DEF SplitAt
  <2>4. QED
    BY <1>6, <2>2, <2>3
<1>21. CASE next = 0
  <2>1. w.steady \subseteq w.seen /\ ~w.open
    BY <1>7, <1>16, <1>20, <1>21
  <2>2. QED
    BY <1>14, <1>19, <2>1 DEF WalkGood
<1>22. CASE next # 0
  <2>1. next \in rows /\ next \in Resources /\ next \in Nat
    BY <1>6, <1>7, <1>8, <1>22
  <2>2. \A r \in old.seen : r >= next
    <3>1. SUFFICES ASSUME NEW r \in old.seen PROVE r >= next
      OBVIOUS
    <3>2. r \in Nat /\ after # 0 /\ r >= after
      BY <1>8 DEF SplitAt
    <3>3. next < after
      BY <1>6, <2>1, <3>2
    <3>4. QED
      BY <1>8, <2>1, <3>2, <3>3
  <2>3. \A r \in page : r >= next
    BY <1>7, <1>22
  <2>4. \A r \in old.steady : r >= next => r \in old.seen \cup page
    BY <1>7, <1>20, <1>22
  <2>5. w.open /\ w.position = next /\ SplitAt(w, next)
    BY <1>16, <1>22, <2>2, <2>3, <2>4 DEF SplitAt
  <2>6. QED
    BY <1>14, <1>19, <2>1, <2>5 DEF WalkGood
<1>23. QED
  BY <1>21, <1>22

\* What the type invariant says of a walk that is good.
LEMMA GoodWalkTypes ==
  ASSUME NEW w, NEW states, WalkGood(w, states)
  PROVE  /\ w.open => w.position \in Resources
         /\ w.seen \cup w.steady \subseteq Resources /\ w.shown \in Nat
  BY DEF WalkGood, ShownGood, WalkFields

\* Keys and requests.
RequestTypes ==
  /\ published \in (SUBSET Keys) \ {{}} /\ cached \in (SUBSET Keys) \ {{}}
  /\ fresh \in BOOLEAN /\ window \in BOOLEAN
  /\ fetching \in {"nobody", "reader", "other"}
  /\ pc \in {"idle", "fetching", "authenticated"} /\ (pc = "fetching" <=> fetching = "reader")
  /\ token \in Tokens
  /\ answer \in {"None", "Page", "InvalidArgument", "Unauthenticated"}

\* The type invariant in parts.
LEMMA TypesInParts ==
  ASSUME RequestTypes, state \in [Resources -> {"Absent", "Pending", "Ready", "Deleted"}],
         changes \in 0..MaxChanges, walk # NoWalk => WalkGood(walk, state)
  PROVE  ReadingInv
<1>1. walk # NoWalk => /\ walk.open => walk.position \in Resources
                       /\ walk.seen \cup walk.steady \subseteq Resources /\ walk.shown \in Nat
  BY GoodWalkTypes
<1>2. AccessTypeOK
  BY <1>1 DEF RequestTypes, AccessTypeOK
<1>3. QED
  BY <1>2 DEF ReadingInv

\* The parts of the invariant.
LEMMA InvInParts ==
  ASSUME ReadingInv
  PROVE  /\ RequestTypes /\ state \in [Resources -> {"Absent", "Pending", "Ready", "Deleted"}]
         /\ changes \in 0..MaxChanges /\ (walk # NoWalk => WalkGood(walk, state))
  BY DEF ReadingInv, AccessTypeOK, RequestTypes

-----------------------------------------------------------------------------
(* The steps of a reader, of the issuer and of the inventory. *)

\* A step that leaves the inventory and the walk alone.
LEMMA RequestStep ==
  ASSUME ReadingInv, RequestTypes', UNCHANGED <<walk, state, changes>>
  PROVE  ReadingInv'
<1>1. /\ state \in [Resources -> {"Absent", "Pending", "Ready", "Deleted"}]
      /\ changes \in 0..MaxChanges /\ (walk # NoWalk => WalkGood(walk, state))
  BY InvInParts
<1>2. walk # NoWalk => /\ walk.open => walk.position \in Resources
                       /\ walk.seen \cup walk.steady \subseteq Resources /\ walk.shown \in Nat
  BY DEF ReadingInv, AccessTypeOK
<1>3. AccessTypeOK'
  BY <1>1, <1>2 DEF RequestTypes, AccessTypeOK, NoWalk
<1>4. QED
  BY <1>1, <1>3 DEF ReadingInv, NoWalk

\* The issuer, and time.
LEMMA IssuerKeeps ==
  ASSUME ReadingInv,
         Rotate \/ Reissue \/ Age \/ WindowPasses
  PROVE  ReadingInv'
<1>1. RequestTypes
  BY InvInParts
<1>2. UNCHANGED <<walk, state, changes>>
  BY DEF Rotate, Reissue, Age, WindowPasses, reader,
         inventory
<1>3. RequestTypes'
  <2>1. CASE Rotate
    BY <1>1, <2>1 DEF RequestTypes, Rotate, keyring, reader, Keys
  <2>2. CASE Reissue
    BY <1>1, <2>2 DEF RequestTypes, Reissue, keyring
  <2>3. CASE Age
    BY <1>1, <2>3 DEF RequestTypes, Age, reader
  <2>4. CASE WindowPasses
    BY <1>1, <2>4 DEF RequestTypes, WindowPasses, reader
  <2>5. QED
    BY <2>1, <2>2, <2>3, <2>4
<1>4. QED
  BY <1>2, <1>3, RequestStep

\* What a verification leaves.
LEMMA Verified ==
  ASSUME RequestTypes, NEW ok, Authenticated(ok)
  PROVE  /\ pc' \in {"idle", "authenticated"}
         /\ answer' \in {"None", "Page", "InvalidArgument", "Unauthenticated"}
  BY DEF Authenticated, RequestTypes

\* Authentication.
LEMMA AuthenticationKeeps ==
  ASSUME ReadingInv,
         \/ RefuseMalformed \/ Authenticate \/ Refresh
         \/ OtherRefresh \/ FetchSucceeds \/ FetchFails
  PROVE  ReadingInv'
<1>1. RequestTypes
  BY InvInParts
<1>2. UNCHANGED <<walk, state, changes>>
  BY DEF RefuseMalformed, Authenticate, Refresh, OtherRefresh,
         FetchSucceeds, FetchFails, StartFetch, Release,
         inventory
<1>3. RequestTypes'
  <2>1. CASE RefuseMalformed
    BY <1>1, <2>1 DEF RequestTypes, RefuseMalformed, issuer, keyring
  <2>2. CASE Authenticate
    <3>1. Authenticated(Verify(cached, token))
      BY <2>2 DEF Authenticate
    <3>2. pc' \in {"idle", "authenticated"}
          /\ answer' \in {"None", "Page", "InvalidArgument", "Unauthenticated"}
      BY <1>1, <3>1, Verified
    <3>3. QED
      BY <1>1, <2>2, <3>2 DEF RequestTypes, Authenticate, issuer, keyring
  <2>3. CASE Refresh \/ OtherRefresh
    BY <1>1, <2>3 DEF RequestTypes, Refresh, OtherRefresh, StartFetch,
                      issuer
  <2>4. ASSUME NEW keys, Release(keys)
        PROVE  /\ fetching' = "nobody" /\ pc' \in {"idle", "authenticated"}
               /\ answer' \in {"None", "Page", "InvalidArgument", "Unauthenticated"}
               /\ published' = published /\ token' = token /\ window' = window
    <3>1. CASE fetching = "reader"
      <4>1. Authenticated(Verify(keys, token))
        BY <2>4, <3>1 DEF Release
      <4>2. QED
        BY <1>1, <2>4, <4>1, Verified DEF Release, issuer
    <3>2. CASE fetching # "reader"
      BY <1>1, <2>4, <3>2 DEF Release, issuer, RequestTypes
    <3>3. QED
      BY <3>1, <3>2
  <2>5. CASE FetchSucceeds
    BY <1>1, <2>4, <2>5 DEF RequestTypes, FetchSucceeds, Fetched
  <2>6. CASE FetchFails
    BY <1>1, <2>4, <2>6 DEF RequestTypes, FetchFails
  <2>7. QED
    BY <2>1, <2>2, <2>3, <2>5, <2>6
<1>4. QED
  BY <1>2, <1>3, RequestStep

\* A page was asked for, and answered.
LEMMA PageKeeps ==
  ASSUME ReadingInv, pc = "authenticated", NEW code \in {"Page", "InvalidArgument"},
         Answered(code), UNCHANGED <<published, token, cached, fresh, window, fetching>>,
         UNCHANGED <<state, changes>>, walk' = walk \/ WalkGood(walk', state')
  PROVE  ReadingInv'
<1>1. RequestTypes' /\ RequestTypes
  BY InvInParts DEF RequestTypes, Answered
<1>2. CASE walk' = walk
  BY <1>1, <1>2, RequestStep
<1>3. CASE WalkGood(walk', state')
  <2>1. /\ state' \in [Resources -> {"Absent", "Pending", "Ready", "Deleted"}]
        /\ changes' \in 0..MaxChanges
    BY InvInParts
  <2>2. /\ walk'.open => walk'.position \in Resources
        /\ walk'.seen \cup walk'.steady \subseteq Resources /\ walk'.shown \in Nat
    BY <1>3, GoodWalkTypes
  <2>3. AccessTypeOK'
    BY <1>1, <2>1, <2>2 DEF RequestTypes, AccessTypeOK
  <2>4. QED
    BY <1>3, <2>3 DEF ReadingInv
<1>4. QED
  BY <1>2, <1>3

\* The requests for a page.
LEMMA ListKeeps ==
  ASSUME ReadingInv, NEW f \in Filters,
         RefuseFilter(f) \/ ListFirst(f) \/ ListNext(f)
  PROVE  ReadingInv'
<1>1. /\ pc = "authenticated" /\ UNCHANGED <<published, token, cached, fresh, window, fetching>>
      /\ UNCHANGED <<state, changes>>
  BY DEF RefuseFilter, ListFirst, ListNext, issuer, keyring,
         inventory
<1>2. CASE RefuseFilter(f)
  <2>1. Answered("InvalidArgument") /\ walk' = walk
    BY <1>2 DEF RefuseFilter
  <2>2. QED
    BY <1>1, <2>1, PageKeeps
<1>3. CASE ListFirst(f)
  <2>1. PICK scope : scope = MembershipsOf(token)
    OBVIOUS
  <2>2. PICK begun : begun = [open |-> TRUE, filter |-> f, scope |-> scope, position |-> 0, seen |-> {},
                              shown |-> 0, steady |-> Matching(state, f, scope)]
    OBVIOUS
  <2>3. Show(begun, f, scope, 0) /\ Answered("Page")
    BY <1>3, <2>1, <2>2 DEF ListFirst
  <2>4. /\ begun.filter = f /\ begun.scope = scope /\ begun.seen = {} /\ begun.shown = 0
        /\ begun.steady = Matching(state, f, scope)
    BY <2>2
  <2>5. WalkFields(begun)
    BY <2>2 DEF WalkFields, Matching
  <2>6. ShownGood(begun, state)
    BY <2>4, <2>5, FS_EmptySet DEF ShownGood
  <2>7. WalkGood(walk', state')
    BY <1>1, <2>3, <2>4, <2>6, PageShown
  <2>8. QED
    BY <1>1, <2>3, <2>7, PageKeeps
<1>4. CASE ListNext(f)
  <2>1. PICK scope : scope = MembershipsOf(token)
    OBVIOUS
  <2>2. CASE walk' = walk /\ Answered("InvalidArgument")
    BY <1>1, <2>2, PageKeeps
  <2>3. CASE /\ walk.filter = f /\ walk.scope = scope
             /\ Show(walk, f, scope, walk.position) /\ Answered("Page")
    <3>1. walk.open /\ walk # NoWalk
      BY <1>4 DEF ListNext, NoWalk
    <3>2. ShownGood(walk, state) /\ walk.position \in Resources /\ SplitAt(walk, walk.position)
      BY <3>1, InvInParts DEF WalkGood
    <3>3. WalkGood(walk', state')
      BY <1>1, <2>3, <3>2, PageShown
    <3>4. QED
      BY <1>1, <2>3, <3>3, PageKeeps
  <2>4. QED
    BY <1>4, <2>1, <2>2, <2>3 DEF ListNext, CursorValid
<1>5. QED
  BY <1>2, <1>3, <1>4

\* A resource changes under the walk.
LEMMA ChangeKeeps ==
  ASSUME ReadingInv, NEW r \in Resources, NEW from,
         NEW to \in {"Absent", "Pending", "Ready", "Deleted"}, Change(r, from, to)
  PROVE  ReadingInv'
<1>1. RequestTypes /\ state \in [Resources -> {"Absent", "Pending", "Ready", "Deleted"}]
      /\ changes \in 0..MaxChanges /\ MaxChanges \in Nat
  BY InvInParts, ReadingBounds
<1>2. RequestTypes'
  BY <1>1 DEF RequestTypes, Change, keyring
<1>3. /\ state' \in [Resources -> {"Absent", "Pending", "Ready", "Deleted"}]
      /\ changes' \in 0..MaxChanges
  BY <1>1 DEF Change
<1>4. CASE walk = NoWalk
  <2>1. walk' = NoWalk
    BY <1>4 DEF Change, NoWalk
  <2>2. AccessTypeOK'
    BY <1>2, <1>3, <2>1 DEF RequestTypes, AccessTypeOK, NoWalk
  <2>3. QED
    BY <2>1, <2>2 DEF ReadingInv, NoWalk
<1>5. CASE walk # NoWalk
  <2>1. PICK steady : steady = walk.steady \cap Matching(state', walk.filter, walk.scope)
    OBVIOUS
  <2>2. PICK w : w = walk'
    OBVIOUS
  <2>3. w = [walk EXCEPT !.steady = steady]
    BY <1>5, <2>1, <2>2 DEF Change
  <2>4. WalkGood(walk, state) /\ WalkFields(walk)
    BY <1>5, InvInParts DEF WalkGood, ShownGood
  <2>5. steady \subseteq walk.steady /\ steady \in SUBSET Resources
    BY <2>1 DEF Matching
  <2>6. /\ WalkFields(w) /\ w.open = walk.open /\ w.filter = walk.filter /\ w.scope = walk.scope
        /\ w.position = walk.position /\ w.seen = walk.seen /\ w.shown = walk.shown
        /\ w.steady = steady
    BY <2>3, <2>4, <2>5 DEF WalkFields
  <2>7. ShownGood(w, state')
    BY <2>1, <2>4, <2>6 DEF WalkGood, ShownGood
  <2>8. WalkGood(w, state')
    BY <2>4, <2>5, <2>6, <2>7 DEF WalkGood, SplitAt
  <2>9. /\ w.open => w.position \in Resources
        /\ w.seen \cup w.steady \subseteq Resources /\ w.shown \in Nat
    BY <2>8, GoodWalkTypes
  <2>10. AccessTypeOK'
    BY <1>2, <1>3, <2>2, <2>9 DEF RequestTypes, AccessTypeOK
  <2>11. QED
    BY <2>2, <2>8, <2>10 DEF ReadingInv
<1>6. QED
  BY <1>4, <1>5

\* Init establishes the invariant.
LEMMA ReadingBegins == ASSUME AccessInit PROVE ReadingInv
<1>1. RequestTypes
  BY DEF RequestTypes, AccessInit, Keys
<1>2. state \in [Resources -> {"Absent", "Pending", "Ready", "Deleted"}]
  BY DEF AccessInit
<1>3. changes \in 0..MaxChanges /\ walk = NoWalk
  BY ReadingBounds DEF AccessInit
<1>4. QED
  BY <1>1, <1>2, <1>3, TypesInParts

\* No step breaks it.
LEMMA ReadingGoesOn ==
  ASSUME ReadingInv, [AccessNext]_accessVars PROVE ReadingInv'
<1>1. CASE UNCHANGED accessVars
  <2>1. RequestTypes' /\ UNCHANGED <<walk, state, changes>>
    BY <1>1, InvInParts DEF accessVars, RequestTypes
  <2>2. QED
    BY <2>1, RequestStep
<1>2. ASSUME NEW r \in Resources, Create(r) \/ Settle(r) \/ Delete(r)
      PROVE  ReadingInv'
  BY <1>2, ChangeKeeps DEF Create, Settle, Delete
<1>3. QED
  BY <1>1, <1>2, IssuerKeeps, AuthenticationKeeps, ListKeeps DEF AccessNext

-----------------------------------------------------------------------------
(* The properties of Access. *)

\* A walk over many pages shows all that was there throughout, nothing twice, and
\* nothing from beyond the visibility that it began with, whatever is created,
\* settled or deleted between its pages and whatever becomes of the reader's token
\* (the keyset of resources_list.go, decodeResourceListCursor).
THEOREM WalksAreFaithful ==
  AccessSpec => []WalkIsFaithful
<1>1. AccessInit => ReadingInv
  BY ReadingBegins
<1>2. ReadingInv /\ [AccessNext]_accessVars => ReadingInv'
  BY ReadingGoesOn
<1>3. ReadingInv => WalkIsFaithful
  <2>1. SUFFICES ASSUME ReadingInv PROVE WalkIsFaithful
    OBVIOUS
  <2>2. walk # NoWalk => WalkGood(walk, state)
    BY <2>1 DEF ReadingInv
  <2>3. WalkIsComplete
    BY <2>2 DEF WalkIsComplete, WalkGood
  <2>4. WalkNeverRepeats
    BY <2>2 DEF WalkNeverRepeats, WalkGood, ShownGood
  <2>5. WalkIsOneScope
    BY <2>2 DEF WalkIsOneScope, WalkGood, ShownGood
  <2>6. QED
    BY <2>1, <2>3, <2>4, <2>5 DEF WalkIsFaithful, ReadingInv
<1>4. QED
  BY <1>1, <1>2, <1>3, PTL DEF AccessSpec

\* A token that a key of the cache verifies is not refused: the answer to a
\* request that waited for a fetch is that of the keys which the fetch has left,
\* and an outage leaves those that there were (verificationKeyFor).
THEOREM CachedKeysVerify == AccessSpec => CachedKeyVerifies
<1>1. ASSUME AccessNext, pc' = "idle", answer' = "Unauthenticated",
             pc = "fetching" \/ answer # "Unauthenticated", ClaimsValid(token)
      PROVE  SelectKey(cached', token) # {token.key}
  <2>1. CASE RefuseMalformed
    BY <1>1, <2>1 DEF RefuseMalformed, WellFormed, ClaimsValid
  <2>2. ASSUME NEW ok, Authenticated(ok) PROVE ~ok
    BY <1>1, <2>2 DEF Authenticated
  <2>3. CASE Authenticate
    BY <1>1, <2>2, <2>3 DEF Authenticate, Verify, keyring
  <2>4. ASSUME NEW keys, Release(keys)
        PROVE  SelectKey(keys, token) # {token.key}
    BY <1>1, <2>2, <2>4 DEF Release, Verify
  <2>5. CASE FetchSucceeds
    BY <2>4, <2>5 DEF FetchSucceeds
  <2>6. CASE FetchFails
    BY <2>4, <2>6 DEF FetchFails, KeysAfterOutage
  <2>7. CASE Rotate \/ Reissue \/ Age \/ WindowPasses
    BY <1>1, <2>7 DEF Rotate, Reissue, Age, WindowPasses, reader
  <2>8. CASE Refresh \/ OtherRefresh
    BY <1>1, <2>8 DEF Refresh, OtherRefresh, StartFetch
  <2>9. ASSUME NEW f \in Filters,
               RefuseFilter(f) \/ ListFirst(f) \/ ListNext(f)
        PROVE  FALSE
    BY <1>1, <2>9 DEF RefuseFilter, ListFirst, ListNext, Answered
  <2>10. ASSUME NEW r \in Resources, Create(r) \/ Settle(r) \/ Delete(r)
         PROVE  FALSE
    BY <1>1, <2>10 DEF Create, Settle, Delete, Change
  <2>11. QED
    BY <1>1, <2>1, <2>3, <2>5, <2>6, <2>7, <2>8, <2>9, <2>10 DEF AccessNext
<1>2. [AccessNext]_accessVars
        => [(/\ pc' = "idle" /\ answer' = "Unauthenticated"
             /\ pc = "fetching" \/ answer # "Unauthenticated"
             /\ ClaimsValid(token)) => SelectKey(cached', token) # {token.key}]_accessVars
  BY <1>1
<1>3. QED
  BY <1>2, PTL DEF AccessSpec, CachedKeyVerifies
=============================================================================
