---------------------------- MODULE CommandWorker ----------------------------
(***************************************************************************)
(* The command host of html-rt/command: createWasteWorker (waste.mjs) on   *)
(* one thread, installWasteWorker (waste.worker.mjs) with the run loop of  *)
(* createWaste (waste.mjs) on another, and the two message queues between  *)
(* them.  An action is one task of a thread: the handler and every promise *)
(* continuation it settles, which all run before the thread takes its next *)
(* message or timer.                                                       *)
(*                                                                         *)
(* The n-th item of a run's input source is the chunk n, one byte long.    *)
(***************************************************************************)
EXTENDS CommandSession

CONSTANTS MaxRuns,        \* how many runs the embedder submits
          Readers,        \* the runs whose program reads its input to the end
          MaxChunks       \* how many chunks an input source yields

ASSUME CommandAssumption ==
  /\ MaxRuns \in Nat /\ MaxChunks \in Nat
  /\ MaxInput \in Nat

Runs == 1 .. MaxRuns

VARIABLES
  host,        \* "starting", "ready", "failed" or "disposed"
  active,      \* the run of active, 0 for none
  nextId,
  aborted,     \* aborted[r]: the abort signal of r has fired
  pump,        \* pump[r]: the input loop of r waits for its source or an ack
  chunks,      \* chunks[r]: the chunks the source of r has yielded
  sequence,    \* sequence[r]: the number of the last input message of r
  ended,       \* ended[r]: the source of r has ended
  inputError,  \* inputError[r]: the source of r has thrown
  settled,     \* settled[r]: how the promise of r was settled, "no" before
  toWorker, toHost,
  up,          \* the worker thread exists
  runtime,     \* the worker's runtime is initialized
  job,         \* the worker's active record: its run, 0 for none
  lastId,
  intake,      \* the fields of active that input changes
  session,     \* the engine session of job
  feeder,      \* the input loop of createWaste: "off", "next" or "pause"
  feedError,   \* inputError of createWaste
  outcome      \* outcome[r]: how the session of r ended, "no" before

hostVars == <<host, active, nextId, aborted, pump, chunks, sequence, ended, inputError, settled>>
engineVars == <<session, feeder, feedError, outcome>>
workerVars == <<up, runtime, job, lastId, intake, engineVars>>
vars == <<hostVars, toWorker, toHost, workerVars>>

NoIntake == [streaming |-> FALSE, queue |-> <<>>, eof |-> FALSE, sequence |-> 0,
             received |-> 0, error |-> FALSE]

\* A chunk of the queue, or its end.
Done == 0

Ends == TerminalStates \cup {"error"}
Settlements == {"no", "inputError", "crashed"} \cup Ends

ToWorker ==
  [type : {"init"}]
    \cup [type : {"run"}, id : Runs, streaming : BOOLEAN, size : 0 .. MaxChunks]
    \cup [type : {"cancel"}, id : Runs]
    \cup [type : {"input"}, id : Runs, sequence : 1 .. MaxChunks + 1, eof : BOOLEAN]

ToHost ==
  [type : {"ready", "initError", "crash"}]
    \cup [type : {"result"}, id : Runs, outcome : TerminalStates]
    \cup [type : {"error"}, id : Runs]
    \cup [type : {"ack"}, id : Runs, sequence : 1 .. MaxChunks + 1]

TypeOK ==
  /\ host \in {"starting", "ready", "failed", "disposed"}
  /\ active \in 0 .. MaxRuns
  /\ nextId \in 1 .. MaxRuns + 1
  /\ aborted \in [Runs -> BOOLEAN]
  /\ pump \in [Runs -> {"off", "next", "ack"}]
  /\ chunks \in [Runs -> 0 .. MaxChunks]
  /\ sequence \in [Runs -> 0 .. MaxChunks + 1]
  /\ ended \in [Runs -> BOOLEAN]
  /\ inputError \in [Runs -> BOOLEAN]
  /\ settled \in [Runs -> Settlements]
  /\ toWorker \in Seq(ToWorker)
  /\ toHost \in Seq(ToHost)
  /\ up \in BOOLEAN
  /\ runtime \in BOOLEAN
  /\ job \in 0 .. MaxRuns
  /\ lastId \in 0 .. MaxRuns
  /\ intake \in [streaming : BOOLEAN, queue : Seq(0 .. MaxChunks), eof : BOOLEAN,
                 sequence : 0 .. MaxChunks + 1, received : 0 .. MaxChunks, error : BOOLEAN]
  /\ session \in [state : States, cancelled : BOOLEAN, eof : BOOLEAN,
                  input : Seq(1 .. MaxChunks)]
  /\ feeder \in {"off", "next", "pause"}
  /\ feedError \in BOOLEAN
  /\ outcome \in [Runs -> {"no"} \cup Ends]

\* createWasteWorker has created the worker and posted its first message.
Init ==
  /\ host = "starting"
  /\ active = 0
  /\ nextId = 1
  /\ aborted = [r \in Runs |-> FALSE]
  /\ pump = [r \in Runs |-> "off"]
  /\ chunks = [r \in Runs |-> 0]
  /\ sequence = [r \in Runs |-> 0]
  /\ ended = [r \in Runs |-> FALSE]
  /\ inputError = [r \in Runs |-> FALSE]
  /\ settled = [r \in Runs |-> "no"]
  /\ toWorker = <<[type |-> "init"]>>
  /\ toHost = <<>>
  /\ up = TRUE
  /\ runtime = FALSE
  /\ job = 0
  /\ lastId = 0
  /\ intake = NoIntake
  /\ session = NoSession
  /\ feeder = "off"
  /\ feedError = FALSE
  /\ outcome = [r \in Runs |-> "no"]

-----------------------------------------------------------------------------
(* The embedder's thread.                                                  *)

\* A message to a worker that is gone is lost.
Post(m) == toWorker' = IF up THEN Append(toWorker, m) ELSE toWorker

\* worker.terminate: the thread stops where it is; neither side hears more.
Terminate ==
  /\ up' = FALSE /\ runtime' = FALSE
  /\ toWorker' = <<>> /\ toHost' = <<>>
  /\ job' = 0 /\ intake' = NoIntake
  /\ session' = NoSession /\ feeder' = "off" /\ feedError' = FALSE
  /\ UNCHANGED <<lastId, outcome>>

\* run: an input that is not a stream is complete from the start.
Run(streaming, size) ==
  /\ host = "ready" /\ active = 0
  /\ nextId \in Runs
  /\ active' = nextId
  /\ nextId' = nextId + 1
  /\ Post([type |-> "run", id |-> nextId, streaming |-> streaming, size |-> size])
  /\ pump' = [pump EXCEPT ![nextId] = IF streaming THEN "next" ELSE "off"]
  /\ chunks' = [chunks EXCEPT ![nextId] = size]
  /\ ended' = [ended EXCEPT ![nextId] = ~streaming]
  /\ UNCHANGED <<host, aborted, sequence, inputError, settled, toHost, workerVars>>

\* The abort listener; it is there only while the run is.
Abort(r) ==
  /\ active = r /\ ~aborted[r]
  /\ aborted' = [aborted EXCEPT ![r] = TRUE]
  /\ Post([type |-> "cancel", id |-> r])
  /\ UNCHANGED <<host, active, nextId, pump, chunks, sequence, ended, inputError, settled, toHost, workerVars>>

\* The input loop has its source's next item: a chunk or the end.
SourceItem(r, eof) ==
  /\ pump[r] = "next" /\ active = r
  /\ eof \/ chunks[r] < MaxChunks
  /\ sequence' = [sequence EXCEPT ![r] = @ + 1]
  /\ chunks' = [chunks EXCEPT ![r] = IF eof THEN @ ELSE @ + 1]
  /\ ended' = [ended EXCEPT ![r] = eof]
  /\ Post([type |-> "input", id |-> r, sequence |-> sequence[r] + 1, eof |-> eof])
  /\ pump' = [pump EXCEPT ![r] = "ack"]
  /\ UNCHANGED <<host, active, nextId, aborted, inputError, settled, toHost, workerVars>>

\* The source throws: the run is cancelled, and fails when it has ended.
SourceThrows_Rejects(r) ==
  /\ pump[r] = "next" /\ active = r
  /\ inputError' = [inputError EXCEPT ![r] = TRUE]
  /\ pump' = [pump EXCEPT ![r] = "off"]
  /\ Post([type |-> "cancel", id |-> r])
  /\ settled' = [settled EXCEPT ![r] = "inputError"]
  /\ active' = 0
  /\ UNCHANGED <<host, nextId, aborted, chunks, sequence, ended, toHost, workerVars>>

SourceThrows_NoCancel(r) ==
  /\ pump[r] = "next" /\ active = r
  /\ inputError' = [inputError EXCEPT ![r] = TRUE]
  /\ pump' = [pump EXCEPT ![r] = "off"]
  /\ UNCHANGED <<host, active, nextId, aborted, chunks, sequence, ended, settled, toWorker, toHost, workerVars>>

SourceThrows(r) ==
  /\ pump[r] = "next" /\ active = r
  /\ inputError' = [inputError EXCEPT ![r] = TRUE]
  /\ pump' = [pump EXCEPT ![r] = "off"]
  /\ Post([type |-> "cancel", id |-> r])
  /\ UNCHANGED <<host, active, nextId, aborted, chunks, sequence, ended, settled, toHost, workerVars>>

\* The source answers after the run is over.
SourceLate(r) ==
  /\ pump[r] = "next" /\ active # r
  /\ pump' = [pump EXCEPT ![r] = "off"]
  /\ UNCHANGED <<host, active, nextId, aborted, chunks, sequence, ended, inputError, settled,
                 toWorker, toHost, workerVars>>

\* The promise of the active run is settled; its finally block releases an
\* input loop that waits for an acknowledgement.
Settle(how) ==
  /\ settled' = [settled EXCEPT ![active] = how]
  /\ active' = 0
  /\ pump' = [pump EXCEPT ![active] = IF @ = "ack" THEN "off" ELSE @]

Idle == UNCHANGED <<active, settled, pump>>

Received(type) ==
  /\ toHost # <<>>
  /\ Head(toHost).type = type

\* The message listener of createWasteWorker, by type.
OnReady ==
  /\ Received("ready")
  /\ host' = "ready"
  /\ toHost' = Tail(toHost)
  /\ Idle
  /\ UNCHANGED <<nextId, aborted, chunks, sequence, ended, inputError, toWorker, workerVars>>

OnInitError ==
  /\ Received("initError")
  /\ host' = "failed"
  /\ Terminate
  /\ Idle
  /\ UNCHANGED <<nextId, aborted, chunks, sequence, ended, inputError>>

OnResult ==
  /\ Received("result")
  /\ toHost' = Tail(toHost)
  /\ IF active = Head(toHost).id
     THEN Settle(IF inputError[active] THEN "inputError" ELSE Head(toHost).outcome)
     ELSE Idle
  /\ UNCHANGED <<host, nextId, aborted, chunks, sequence, ended, inputError, toWorker, workerVars>>

OnError ==
  /\ Received("error")
  /\ toHost' = Tail(toHost)
  /\ IF active = Head(toHost).id THEN Settle("error") ELSE Idle
  /\ UNCHANGED <<host, nextId, aborted, chunks, sequence, ended, inputError, toWorker, workerVars>>

OnAck ==
  /\ Received("ack")
  /\ toHost' = Tail(toHost)
  /\ LET m == Head(toHost)
     IN  pump' = IF active = m.id /\ m.sequence = sequence[m.id] /\ pump[m.id] = "ack"
                 THEN [pump EXCEPT ![m.id] = IF ended[m.id] THEN "off" ELSE "next"]
                 ELSE pump
  /\ UNCHANGED <<host, active, nextId, aborted, chunks, sequence, ended, inputError, settled,
                 toWorker, workerVars>>

\* failAll, on the worker's error event.
FailAll_StaysReady ==
  /\ Received("crash")
  /\ host' = IF host = "starting" THEN "failed" ELSE host
  /\ Terminate
  /\ IF active # 0 THEN Settle("crashed") ELSE Idle
  /\ UNCHANGED <<nextId, aborted, chunks, sequence, ended, inputError>>

FailAll ==
  /\ Received("crash")
  /\ host' = IF host = "starting" THEN "failed" ELSE "disposed"
  /\ Terminate
  /\ IF active # 0 THEN Settle("crashed") ELSE Idle
  /\ UNCHANGED <<nextId, aborted, chunks, sequence, ended, inputError>>

Dispose ==
  /\ host = "ready" /\ active = 0
  /\ host' = "disposed"
  /\ Terminate
  /\ Idle
  /\ UNCHANGED <<nextId, aborted, chunks, sequence, ended, inputError>>

-----------------------------------------------------------------------------
(* The worker's thread.                                                    *)

Arrived(type) ==
  /\ up
  /\ toWorker # <<>>
  /\ Head(toWorker).type = type

\* init: the runtime is built, or the engine or its files are refused.
OnInit(ok) ==
  /\ Arrived("init")
  /\ toWorker' = Tail(toWorker)
  /\ runtime' = ok
  /\ toHost' = Append(toHost, [type |-> IF ok THEN "ready" ELSE "initError"])
  /\ UNCHANGED <<hostVars, up, job, lastId, intake, engineVars>>

\* A job whose whole input is too long.
MustRefuse(m) == ~m.streaming /\ m.size > MaxInput

Busy(m) == ~runtime \/ job # 0 \/ m.id <= lastId

\* run, answered at once: the worker is busy, or createWaste's run throws
\* before it starts the command (bad arguments, paths, files or limits, no
\* session handle left).
OnRunRefused(m) ==
  /\ Arrived("run")
  /\ toWorker' = Tail(toWorker)
  /\ toHost' = Append(toHost, [type |-> "error", id |-> m.id])
  /\ lastId' = IF Busy(m) THEN lastId ELSE m.id
  /\ outcome' = IF Busy(m) THEN outcome ELSE [outcome EXCEPT ![m.id] = "error"]
  /\ UNCHANGED <<hostVars, up, runtime, job, intake, session, feeder, feedError>>

\* The session after create, the files and the whole input of the job.
Configured(m) ==
  IF m.streaming THEN NewSession
  ELSE WithInput(NewSession, [n \in 1 .. m.size |-> n], TRUE)

\* run, for a command that is over by its first step or does not start.
OnRunEnds(m, st) ==
  /\ Arrived("run")
  /\ ~Busy(m) /\ ~MustRefuse(m)
  /\ toWorker' = Tail(toWorker)
  /\ st \in (StepStates(Configured(m), m.id \in Readers) \ {"waiting"}) \cup {"failed"}
  /\ toHost' = Append(toHost, [type |-> "result", id |-> m.id, outcome |-> st])
  /\ lastId' = m.id
  /\ outcome' = [outcome EXCEPT ![m.id] = st]
  /\ UNCHANGED <<hostVars, up, runtime, job, intake, session, feeder, feedError>>

\* run, for a command that waits or is to be resumed after its first step.
OnRunWaits(m) ==
  /\ Arrived("run")
  /\ ~Busy(m) /\ ~MustRefuse(m)
  /\ toWorker' = Tail(toWorker)
  /\ "waiting" \in StepStates(Configured(m), m.id \in Readers)
  /\ lastId' = m.id
  /\ job' = m.id
  /\ intake' = [NoIntake EXCEPT !.streaming = m.streaming]
  /\ session' = [Configured(m) EXCEPT !.state = "waiting"]
  /\ feeder' = IF m.streaming THEN "next" ELSE "off"
  /\ feedError' = FALSE
  /\ UNCHANGED <<hostVars, toHost, up, runtime, outcome>>

\* cancel: the abort signal of the job cancels its session.
OnCancel ==
  /\ Arrived("cancel")
  /\ toWorker' = Tail(toWorker)
  /\ session' = IF job = Head(toWorker).id THEN Cancelled(session) ELSE session
  /\ UNCHANGED <<hostVars, toHost, up, runtime, job, lastId, intake, feeder, feedError, outcome>>

\* append of createWaste's input loop, which ends at the end of the input
\* and at an input the session refuses (it may also lack the memory for it).
Append1(item) ==
  LET bytes == IF item = Done THEN <<>> ELSE <<item>>
  IN  \/ /\ AcceptsInput(session, bytes)
         /\ session' = WithInput(session, bytes, item = Done)
         /\ feeder' = IF item = Done THEN "off" ELSE "pause"
         /\ UNCHANGED feedError
      \/ /\ session' = Cancelled(session)
         /\ feeder' = "off"
         /\ feedError' = TRUE

\* input, for the job that streams: an item out of sequence or past the
\* limit aborts the job, another is queued (an input loop that waits takes
\* it at once) and acknowledged.
TakeInput_Silent(m) ==
  LET received == intake.received + (IF m.eof THEN 0 ELSE 1)
      item == IF m.eof THEN Done ELSE m.sequence
  IN  \/ /\ m.sequence # intake.sequence + 1
         /\ intake' = [intake EXCEPT !.error = TRUE]
         /\ session' = Cancelled(session)
         /\ UNCHANGED <<feeder, feedError, toHost>>
      \/ /\ m.sequence = intake.sequence + 1
         /\ received > MaxInput
         /\ intake' = [intake EXCEPT !.sequence = m.sequence, !.received = received]
         /\ session' = Cancelled(session)
         /\ UNCHANGED <<feeder, feedError, toHost>>
      \/ /\ m.sequence = intake.sequence + 1
         /\ received <= MaxInput
         /\ intake' = [intake EXCEPT !.sequence = m.sequence, !.received = received, !.eof = m.eof,
                                     !.queue = IF feeder = "next" THEN @ ELSE Append(@, item)]
         /\ IF feeder = "next" THEN Append1(item) ELSE UNCHANGED <<session, feeder, feedError>>
         /\ toHost' = Append(toHost, [type |-> "ack", id |-> m.id, sequence |-> m.sequence])

TakeInput_NoWake(m) ==
  LET received == intake.received + (IF m.eof THEN 0 ELSE 1)
      item == IF m.eof THEN Done ELSE m.sequence
  IN  \/ /\ m.sequence # intake.sequence + 1
         /\ intake' = [intake EXCEPT !.error = TRUE]
         /\ session' = Cancelled(session)
         /\ UNCHANGED <<feeder, feedError, toHost>>
      \/ /\ m.sequence = intake.sequence + 1
         /\ received > MaxInput
         /\ intake' = [intake EXCEPT !.sequence = m.sequence, !.received = received, !.error = TRUE]
         /\ session' = Cancelled(session)
         /\ UNCHANGED <<feeder, feedError, toHost>>
      \/ /\ m.sequence = intake.sequence + 1
         /\ received <= MaxInput
         /\ intake' = [intake EXCEPT !.sequence = m.sequence, !.received = received, !.eof = m.eof,
                                     !.queue = Append(@, item)]
         /\ UNCHANGED <<session, feeder, feedError>>
         /\ toHost' = Append(toHost, [type |-> "ack", id |-> m.id, sequence |-> m.sequence])

TakeInput(m) ==
  LET received == intake.received + (IF m.eof THEN 0 ELSE 1)
      item == IF m.eof THEN Done ELSE m.sequence
  IN  \/ /\ m.sequence # intake.sequence + 1
         /\ intake' = [intake EXCEPT !.error = TRUE]
         /\ session' = Cancelled(session)
         /\ UNCHANGED <<feeder, feedError, toHost>>
      \/ /\ m.sequence = intake.sequence + 1
         /\ received > MaxInput
         /\ intake' = [intake EXCEPT !.sequence = m.sequence, !.received = received, !.error = TRUE]
         /\ session' = Cancelled(session)
         /\ UNCHANGED <<feeder, feedError, toHost>>
      \/ /\ m.sequence = intake.sequence + 1
         /\ received <= MaxInput
         /\ intake' = [intake EXCEPT !.sequence = m.sequence, !.received = received, !.eof = m.eof,
                                     !.queue = IF feeder = "next" THEN @ ELSE Append(@, item)]
         /\ IF feeder = "next" THEN Append1(item) ELSE UNCHANGED <<session, feeder, feedError>>
         /\ toHost' = Append(toHost, [type |-> "ack", id |-> m.id, sequence |-> m.sequence])

OnInput ==
  /\ Arrived("input")
  /\ toWorker' = Tail(toWorker)
  /\ IF job = Head(toWorker).id /\ intake.streaming /\ ~intake.eof
     THEN TakeInput(Head(toWorker))
     ELSE UNCHANGED <<intake, session, feeder, feedError, toHost>>
  /\ UNCHANGED <<hostVars, up, runtime, job, lastId, outcome>>

\* The input loop of createWaste after its pause.
Feed_EofFirst ==
  /\ feeder = "pause"
  /\ IF intake.eof THEN Append1(Done) /\ UNCHANGED intake
     ELSE IF intake.queue # <<>>
     THEN /\ Append1(Head(intake.queue))
          /\ intake' = [intake EXCEPT !.queue = Tail(@)]
     ELSE feeder' = "next" /\ UNCHANGED <<intake, session, feedError>>
  /\ UNCHANGED <<hostVars, toWorker, toHost, up, runtime, job, lastId, outcome>>

Feed ==
  /\ feeder = "pause"
  /\ IF intake.queue # <<>>
     THEN /\ Append1(Head(intake.queue))
          /\ intake' = [intake EXCEPT !.queue = Tail(@)]
     ELSE feeder' = "next" /\ UNCHANGED <<intake, session, feedError>>
  /\ UNCHANGED <<hostVars, toWorker, toHost, up, runtime, job, lastId, outcome>>

\* The loop of createWaste steps the session again; one that is over is
\* destroyed, and the worker free, before its answer is read.
Step(st) ==
  /\ job # 0
  /\ st \in StepStates(session, job \in Readers) \ {"waiting"}
  /\ LET failed == feedError \/ intake.error
     IN  /\ toHost' = Append(toHost, IF failed THEN [type |-> "error", id |-> job]
                                     ELSE [type |-> "result", id |-> job, outcome |-> st])
         /\ outcome' = [outcome EXCEPT ![job] = IF failed THEN "error" ELSE st]
  /\ job' = 0 /\ intake' = NoIntake
  /\ session' = NoSession /\ feeder' = "off" /\ feedError' = FALSE
  /\ UNCHANGED <<hostVars, toWorker, up, runtime, lastId>>

\* An error event of the worker (external: the browser or Node raises it).
Crash(stops) ==
  /\ up
  /\ \A i \in DOMAIN toHost : toHost[i].type \notin {"crash", "initError"}
  /\ toHost' = Append(toHost, [type |-> "crash"])
  /\ IF stops
     THEN /\ up' = FALSE /\ runtime' = FALSE
          /\ toWorker' = <<>>
          /\ job' = 0 /\ intake' = NoIntake
          /\ session' = NoSession /\ feeder' = "off" /\ feedError' = FALSE
          /\ UNCHANGED <<lastId, outcome>>
     ELSE UNCHANGED <<toWorker, workerVars>>
  /\ UNCHANGED hostVars

-----------------------------------------------------------------------------
HostNext ==
  \/ \E streaming \in BOOLEAN, size \in 0 .. MaxChunks :
       (streaming => size = 0) /\ Run(streaming, size)
  \/ \E r \in Runs : Abort(r) \/ SourceThrows(r) \/ SourceLate(r) \/ \E eof \in BOOLEAN : SourceItem(r, eof)
  \/ Dispose

HostMessage == OnReady \/ OnInitError \/ OnResult \/ OnError \/ OnAck \/ FailAll

WorkerMessage ==
  \/ \E ok \in BOOLEAN : OnInit(ok)
  \/ OnRunRefused(Head(toWorker))
  \/ \E st \in TerminalStates : OnRunEnds(Head(toWorker), st)
  \/ OnRunWaits(Head(toWorker))
  \/ OnCancel
  \/ OnInput

Next ==
  \/ HostNext \/ HostMessage
  \/ WorkerMessage \/ Feed \/ \E st \in TerminalStates : Step(st)
  \/ \E stops \in BOOLEAN : Crash(stops)

\* The step that ends a session: it was cancelled, or its program has read
\* all there is to read.
LastStep ==
  /\ session.cancelled \/ (job \in Readers /\ session.eof)
  /\ \E st \in TerminalStates : Step(st)

\* Both threads take their messages and timers in turn.  Nothing is assumed
\* of the input sources, the embedder or a guest that could go on.
Fairness ==
  /\ WF_vars(HostMessage)
  /\ WF_vars(WorkerMessage)
  /\ WF_vars(Feed)
  /\ WF_vars(LastStep)

Spec == Init /\ [][Next]_vars /\ Fairness

-----------------------------------------------------------------------------
(* Properties.                                                             *)

\* A run is answered only after its session has ended and is destroyed, so a
\* later job never meets one that is still active; a run that the worker's
\* failure answers is the exception, and then the worker is gone.
CleanupBoundary ==
  \A r \in Runs :
    /\ settled[r] \notin {"no", "crashed"} => outcome[r] # "no" /\ job # r
    /\ settled[r] = "crashed" => ~up

\* The worker is never given a run while it has one, nor an id it has seen.
NeverBusy == Arrived("run") => ~Busy(Head(toWorker))

\* The session's input is its own run's source, in order and without gaps;
\* the end of input reaches it only after every chunk did.
InputFaithful ==
  job # 0 =>
    /\ Len(session.input) <= chunks[job]
    /\ \A n \in 1 .. Len(session.input) : session.input[n] = n
    /\ session.eof => ended[job] /\ Len(session.input) = chunks[job]

\* A run is told that it was cancelled only if it was: by its abort signal
\* or for its input source's error, never by what another run left behind.
CancelledOnlyIfAsked ==
  \A r \in Runs : outcome[r] = "cancelled" => aborted[r] \/ inputError[r]

\* No input loop waits for an acknowledgement once its run is over.
PumpReleased == \A r \in Runs : pump[r] = "ack" => active = r

\* One job at a time, from its submission to the destruction of its session.
OneJob == TypeOK /\ CleanupBoundary /\ NeverBusy /\ PumpReleased

\* A run whose signal fires or whose source throws is settled in the end,
\* whatever its program does.
AbortSettles == \A r \in Runs : aborted[r] \/ inputError[r] ~> settled[r] # "no"

\* A run whose source has ended and whose program reads it is settled.
EndSettles == \A r \in Readers : ended[r] ~> settled[r] # "no"

\* The stage of a run, as the embedder may think of it.
Stage(r) ==
  CASE settled[r] = "crashed" -> "lost"
    [] settled[r] \notin {"no", "crashed"} -> "answered"
    [] settled[r] = "no" /\ outcome[r] # "no" -> "over"
    [] settled[r] = "no" /\ outcome[r] = "no" /\ active # r -> "new"
    [] settled[r] = "no" /\ outcome[r] = "no" /\ active = r ->
         IF ~up THEN "dropped" ELSE IF job = r THEN "running" ELSE "submitted"

Service == INSTANCE JobService WITH stage <- [r \in Runs |-> Stage(r)]

\* The two threads and their messages implement the abstract job service.
ImplementsService == Service!Spec

=============================================================================
