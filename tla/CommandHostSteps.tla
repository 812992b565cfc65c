-------------------------- MODULE CommandHostSteps --------------------------
(***************************************************************************)
(* The inductive invariant of CommandWorker, what a step does to the two   *)
(* queues and to the parts of the state that it speaks of, and that the    *)
(* actions of the embedder's thread keep it.                               *)
(***************************************************************************)
EXTENDS CommandWorker, TLAPS

-----------------------------------------------------------------------------
(* The inductive invariant.                                                *)

\* Positions of the queues: the worker's messages of a type, the answers.
Work(type) == {i \in 1 .. Len(toWorker) : toWorker[i].type = type}
News(types) == {k \in 1 .. Len(toHost) : toHost[k].type \in types}
Answers == News({"result", "error"})

\* The thread and the embedder agree on whether the runtime is there.
Lifecycle ==
  /\ ~up => toWorker = <<>> /\ job = 0
  /\ host \in {"failed", "disposed"} => ~up /\ toHost = <<>>
  /\ Work("init") # {} => /\ Len(toWorker) = 1 /\ host = "starting"
                          /\ News({"ready"}) = {} /\ News({"initError"}) = {}
  /\ News({"initError"}) # {} => host = "starting" /\ News({"ready"}) = {}
  /\ host = "ready" \/ News({"ready"}) # {} => (up => runtime)

\* A run that is open is in one place: its request, its job or its answer.
OnePlace ==
  /\ active # 0 => host = "ready" /\ nextId = active + 1
  /\ lastId < nextId
  /\ \A i \in Work("run") : toWorker[i].id = active
  /\ Work("run") # {} => /\ active # 0 /\ lastId < active /\ outcome[active] = "no"
                         /\ job = 0 /\ Answers = {}
  /\ job # 0 => job = active /\ outcome[active] = "no" /\ Answers = {}
  /\ \A k \in Answers : toHost[k].id = active
  /\ Answers # {} => active # 0 /\ outcome[active] # "no"

\* That place is a single one of its queue.
Single ==
  /\ \A i, j \in Work("run") : i = j
  /\ \A k, l \in Answers : k = l

\* The runs before the open one are settled, the ones after it untouched.
Ledger ==
  \A r \in Runs :
    /\ settled[r] # "no" <=> r < nextId /\ r # active
    /\ r >= nextId => outcome[r] = "no"
    /\ settled[r] \notin {"no", "crashed"} => outcome[r] # "no"
    /\ settled[r] = "crashed" => ~up /\ host = "disposed"

\* The numbers that an input loop and its messages carry.
Counting ==
  /\ \A r \in Runs :
       /\ pump[r] = "next" => ~ended[r] /\ sequence[r] = chunks[r]
       /\ pump[r] = "ack" => ended[r] \/ sequence[r] = chunks[r]
       /\ r >= nextId => sequence[r] = 0
  /\ \A i \in Work("input") : toWorker[i].eof \/ toWorker[i].sequence <= MaxChunks
  /\ intake.received <= intake.sequence

\* A cancelled session has been cancelled for a reason.
Blame ==
  /\ \A i \in Work("cancel") : aborted[toWorker[i].id] \/ inputError[toWorker[i].id]
  /\ job # 0 /\ session.cancelled =>
       aborted[job] \/ inputError[job] \/ intake.error \/ feedError

IInv ==
  /\ TypeOK /\ Lifecycle /\ OnePlace /\ Single /\ Ledger /\ Counting /\ PumpReleased
  /\ Blame /\ CancelledOnlyIfAsked

\* A queue with a message more.
LEMMA Appended ==
  ASSUME NEW S, NEW s \in Seq(S), NEW e
  PROVE  /\ Len(s) \in Nat
         /\ Len(Append(s, e)) = Len(s) + 1
         /\ Append(s, e)[Len(s) + 1] = e
         /\ \A i \in 1 .. Len(s) : Append(s, e)[i] = s[i]
         /\ \A i \in 1 .. Len(Append(s, e)) : i \in 1 .. Len(s) \/ i = Len(s) + 1
         /\ e \in S => Append(s, e) \in Seq(S)
OBVIOUS

\* A queue whose first message has been taken.
LEMMA Taken ==
  ASSUME NEW S, NEW s \in Seq(S), s # <<>>
  PROVE  /\ Len(s) \in Nat /\ 1 \in 1 .. Len(s)
         /\ Head(s) = s[1] /\ s[1] \in S
         /\ Tail(s) \in Seq(S)
         /\ Len(Tail(s)) = Len(s) - 1
         /\ \A i \in 1 .. Len(Tail(s)) : i + 1 \in 2 .. Len(s) /\ Tail(s)[i] = s[i + 1]
OBVIOUS

-----------------------------------------------------------------------------
(* What a step does to the queues.                                         *)

\* The parts of TypeOK that most steps need.
Scalars ==
  /\ active \in 0 .. MaxRuns /\ nextId \in 1 .. MaxRuns + 1
  /\ job \in 0 .. MaxRuns /\ lastId \in 0 .. MaxRuns
  /\ up \in BOOLEAN /\ runtime \in BOOLEAN
  /\ Len(toWorker) \in Nat /\ Len(toHost) \in Nat

Tables ==
  /\ aborted \in [Runs -> BOOLEAN] /\ inputError \in [Runs -> BOOLEAN]
  /\ pump \in [Runs -> {"off", "next", "ack"}]
  /\ chunks \in [Runs -> 0 .. MaxChunks] /\ sequence \in [Runs -> 0 .. MaxChunks + 1]
  /\ ended \in [Runs -> BOOLEAN]
  /\ settled \in [Runs -> Settlements] /\ outcome \in [Runs -> {"no"} \cup Ends]

\* The types of what the input of the worker's job changes.
Streams ==
  /\ intake \in [streaming : BOOLEAN, queue : Seq(0 .. MaxChunks), eof : BOOLEAN,
                 sequence : 0 .. MaxChunks + 1, received : 0 .. MaxChunks, error : BOOLEAN]
  /\ session \in [state : States, cancelled : BOOLEAN, eof : BOOLEAN, input : Seq(1 .. MaxChunks)]
  /\ feeder \in {"off", "next", "pause"}
  /\ feedError \in BOOLEAN

\* TypeOK in parts that a proof can use one at a time.
LEMMA TypeParts ==
  TypeOK => /\ Scalars /\ Tables /\ Streams
            /\ host \in {"starting", "ready", "failed", "disposed"}
<1> USE DEF TypeOK
<1>1. TypeOK => Scalars
  BY DEF Scalars
<1>2. TypeOK => Tables
  BY DEF Tables
<1>3. TypeOK => Streams
  BY DEF Streams
<1> QED
  BY <1>1, <1>2, <1>3, Zenon

\* The parts make TypeOK again.
LEMMA TypeWhole ==
  ASSUME toWorker' \in Seq(ToWorker), toHost' \in Seq(ToHost), Streams', Tables',
         (Scalars /\ host \in {"starting", "ready", "failed", "disposed"})'
  PROVE  TypeOK'
  BY DEF TypeOK, Scalars, Tables, Streams

\* The state without a job is of its type.
LEMMA NoTypes ==
  ASSUME CommandAssumption
  PROVE  /\ NoIntake \in [streaming : BOOLEAN, queue : Seq(0 .. MaxChunks), eof : BOOLEAN,
                         sequence : 0 .. MaxChunks + 1, received : 0 .. MaxChunks, error : BOOLEAN]
         /\ NoSession \in [state : States, cancelled : BOOLEAN, eof : BOOLEAN, input : Seq(1 .. MaxChunks)]
  BY DEF CommandAssumption, NoIntake, NoSession, States, TerminalStates

\* The answers that Step posts are messages of toHost.
LEMMA AnswerTypes ==
  ASSUME NEW id \in Runs, NEW st \in TerminalStates
  PROVE  /\ [type |-> "error", id |-> id] \in ToHost
         /\ [type |-> "result", id |-> id, outcome |-> st] \in ToHost
  BY DEF ToHost

Posts(m) ==
  /\ toWorker' \in Seq(ToWorker)
  /\ \A type : \A i \in Work(type)' :
       \/ i \in Work(type) /\ toWorker'[i] = toWorker[i]
       \/ i = Len(toWorker) + 1 /\ toWorker'[i] = m /\ m.type = type /\ up
  /\ up \/ toWorker' = toWorker

TakesWork ==
  /\ toWorker' \in Seq(ToWorker) /\ Len(toWorker') = Len(toWorker) - 1
  /\ Head(toWorker) = toWorker[1] /\ toWorker[1] \in ToWorker /\ 1 \in Work(toWorker[1].type)
  /\ \A type : \A i \in Work(type)' :
       /\ i \in Nat \ {0} /\ i + 1 \in Work(type) /\ i + 1 <= Len(toWorker)
       /\ toWorker'[i] = toWorker[i + 1]

Sends(m) ==
  /\ toHost' \in Seq(ToHost)
  /\ \A types : \A k \in News(types)' :
       \/ k \in News(types) /\ toHost'[k] = toHost[k]
       \/ k = Len(toHost) + 1 /\ toHost'[k] = m /\ m.type \in types

TakesNews ==
  /\ toHost' \in Seq(ToHost)
  /\ Head(toHost) = toHost[1] /\ toHost[1] \in ToHost
  /\ \A types : toHost[1].type \in types => 1 \in News(types)
  /\ \A types : \A k \in News(types)' :
       k \in Nat \ {0} /\ k + 1 \in News(types) /\ toHost'[k] = toHost[k + 1]

\* Post adds one message at the end, or none when the worker is gone.
LEMMA Posted == ASSUME TypeOK, NEW m \in ToWorker, Post(m) PROVE Posts(m)
<1> toWorker \in Seq(ToWorker)
  BY DEF TypeOK
<1> QED
  BY Appended DEF Post, Posts, Work

\* A handler of the worker takes the first message of its queue.
LEMMA TookWork == ASSUME TypeOK, toWorker # <<>>, toWorker' = Tail(toWorker) PROVE TakesWork
  BY Taken DEF TypeOK, TakesWork, Work

\* An answer is added at the end of toHost.
LEMMA Sent == ASSUME TypeOK, NEW m \in ToHost, toHost' = Append(toHost, m) PROVE Sends(m)
  BY Appended DEF TypeOK, Sends, News

\* A listener of the embedder takes the first message of its queue.
LEMMA TookNews == ASSUME TypeOK, toHost # <<>>, toHost' = Tail(toHost) PROVE TakesNews
  BY Taken DEF TypeOK, TakesNews, News

\* What the messages to the worker carry, by type.
LEMMA WorkKinds ==
  ASSUME NEW m \in ToWorker
  PROVE  /\ m.type \in {"init", "run", "cancel", "input"}
         /\ m.type = "run" => m.id \in Runs /\ m.streaming \in BOOLEAN /\ m.size \in 0 .. MaxChunks
         /\ m.type = "cancel" => m.id \in Runs
         /\ m.type = "input" => m.id \in Runs /\ m.sequence \in 1 .. MaxChunks + 1 /\ m.eof \in BOOLEAN
  BY DEF ToWorker

\* Cancel messages name a run.
LEMMA CancelIds == ASSUME TypeOK PROVE \A i \in Work("cancel") : toWorker[i].id \in Runs
  BY WorkKinds DEF TypeOK, Work

\* What the messages to the embedder carry, by type.
LEMMA NewsKinds ==
  ASSUME NEW m \in ToHost
  PROVE  /\ m.type \in {"ready", "initError", "crash", "result", "error", "ack"}
         /\ m.type = "result" => m.id \in Runs /\ m.outcome \in TerminalStates
         /\ m.type = "error" => m.id \in Runs
         /\ m.type = "ack" => m.id \in Runs /\ m.sequence \in 1 .. MaxChunks + 1
  BY DEF ToHost

KeepsWork == toWorker' = toWorker /\ \A type : Work(type)' = Work(type)
KeepsNews == toHost' = toHost /\ \A types : News(types)' = News(types)
DropsWork == toWorker' = <<>> /\ \A type : Work(type)' = {}
DropsNews == toHost' = <<>> /\ \A types : News(types)' = {}

\* A queue that is kept or emptied.
LEMMA SameQueues ==
  /\ toWorker' = toWorker => KeepsWork
  /\ toHost' = toHost => KeepsNews
  /\ toWorker' = <<>> => DropsWork
  /\ toHost' = <<>> => DropsNews
  BY DEF KeepsWork, KeepsNews, DropsWork, DropsNews, Work, News


\* A session is cancelled for an error that stays on record.
OnRecord ==
  /\ intake.error => intake'.error
  /\ feedError => feedError'
  /\ session'.cancelled => session.cancelled \/ intake'.error \/ feedError'

\* Cancelling keeps a session's type.
LEMMA CancelledType ==
  ASSUME Streams
  PROVE  Cancelled(session) \in [state : States, cancelled : BOOLEAN, eof : BOOLEAN, input : Seq(1 .. MaxChunks)]
  BY Zenon DEF Streams, Cancelled, Terminal, States, TerminalStates

\* The input loop hands over an item, or cancels and records the error.
LEMMA AppendsItem ==
  ASSUME CommandAssumption, Streams, NEW item \in 0 .. MaxChunks, Append1(item)
  PROVE  /\ session' \in [state : States, cancelled : BOOLEAN, eof : BOOLEAN, input : Seq(1 .. MaxChunks)]
         /\ feeder' \in {"off", "next", "pause"} /\ feedError' \in BOOLEAN
         /\ feedError => feedError'
         /\ session'.cancelled => session.cancelled \/ feedError'
<1> DEFINE bytes == IF item = Done THEN <<>> ELSE <<item>>
<1>1. CASE /\ session' = WithInput(session, bytes, item = Done)
           /\ feeder' = IF item = Done THEN "off" ELSE "pause"
           /\ UNCHANGED feedError
  <2>1. bytes \in Seq(1 .. MaxChunks)
    <3>1. item # Done => <<item>> \in Seq(1 .. MaxChunks)
      BY DEF CommandAssumption, Done
    <3>2. <<>> \in Seq(1 .. MaxChunks)
      OBVIOUS
    <3> QED
      BY <3>1, <3>2, Zenon
  <2> HIDE DEF bytes
  <2>2. session.input \o bytes \in Seq(1 .. MaxChunks)
    BY <2>1 DEF Streams
  <2>3. /\ session' \in [state : States, cancelled : BOOLEAN, eof : BOOLEAN,
                         input : Seq(1 .. MaxChunks)]
        /\ session'.cancelled = session.cancelled
    BY <1>1, <2>2, Zenon DEF WithInput, Streams
  <2> QED
    BY <1>1, <2>3 DEF Streams
<1>2. CASE session' = Cancelled(session) /\ feeder' = "off" /\ feedError' = TRUE
  BY <1>2, CancelledType
<1> QED
  BY <1>1, <1>2, Zenon DEF Append1

\* Feed changes the job's input only, and records the errors it cancels for.
LEMMA FeedsStream ==
  ASSUME CommandAssumption, Streams, Feed
  PROVE  Streams' /\ OnRecord /\ intake'.received = intake.received /\ intake'.sequence = intake.sequence
<1>1. CASE intake.queue # <<>>
  <2>1. Append1(Head(intake.queue)) /\ intake' = [intake EXCEPT !.queue = Tail(@)]
    BY <1>1 DEF Feed
  <2>2. Head(intake.queue) \in 0 .. MaxChunks /\ Tail(intake.queue) \in Seq(0 .. MaxChunks)
    BY <1>1, Taken DEF Streams
  <2>3. /\ session' \in [state : States, cancelled : BOOLEAN, eof : BOOLEAN,
                         input : Seq(1 .. MaxChunks)]
        /\ feeder' \in {"off", "next", "pause"} /\ feedError' \in BOOLEAN
        /\ feedError => feedError'
        /\ session'.cancelled => session.cancelled \/ feedError'
    BY <2>1, <2>2, AppendsItem
  <2>4. /\ intake' \in [streaming : BOOLEAN, queue : Seq(0 .. MaxChunks), eof : BOOLEAN,
                        sequence : 0 .. MaxChunks + 1, received : 0 .. MaxChunks, error : BOOLEAN]
        /\ intake'.received = intake.received /\ intake'.sequence = intake.sequence
        /\ intake'.error = intake.error
    BY <2>1, <2>2, Zenon DEF Streams
  <2> QED
    BY <2>3, <2>4 DEF Streams, OnRecord
<1>2. CASE intake.queue = <<>>
  BY <1>2 DEF Feed, Streams, OnRecord
<1> QED
  BY <1>1, <1>2

\* Input adds nothing to the embedder's queue but acknowledgements.
OnlyAcks ==
  /\ toHost' \in Seq(ToHost)
  /\ \A types : "ack" \notin types =>
       \A k \in News(types)' : k \in News(types) /\ toHost'[k] = toHost[k]

\* OnInput likewise; all it posts is an acknowledgement.
LEMMA TakesStream ==
  ASSUME CommandAssumption, TypeOK, Counting, OnInput
  PROVE  Streams' /\ OnRecord /\ intake'.received <= intake'.sequence /\ OnlyAcks
<1> DEFINE m == toWorker[1]
<1> DEFINE received == intake.received + (IF m.eof THEN 0 ELSE 1)
<1> DEFINE item == IF m.eof THEN Done ELSE m.sequence
<1>1. Streams
  BY DEF TypeOK, Streams
<1>2. TakesWork
  BY TookWork DEF OnInput, Arrived
<1>3. Head(toWorker) = m /\ m \in ToWorker /\ m.type = "input" /\ 1 \in Work("input")
  BY <1>2 DEF OnInput, Arrived, TakesWork
<1>4. m.id \in Runs /\ m.sequence \in 1 .. MaxChunks + 1 /\ m.eof \in BOOLEAN
  BY <1>3, WorkKinds
<1>5. m.eof \/ m.sequence <= MaxChunks
  BY <1>3 DEF Counting
<1> HIDE DEF m
<1>6. CASE UNCHANGED <<intake, session, feeder, feedError, toHost>>
  <2>1. KeepsNews
    BY <1>6, SameQueues
  <2> QED
    BY <1>1, <1>6, <2>1 DEF Streams, OnRecord, OnlyAcks, KeepsNews, Counting, TypeOK
<1>7. CASE /\ m.sequence # intake.sequence + 1
           /\ intake' = [intake EXCEPT !.error = TRUE]
           /\ session' = Cancelled(session)
           /\ UNCHANGED <<feeder, feedError, toHost>>
  <2>1. KeepsNews
    BY <1>7, SameQueues
  <2> QED
    BY <1>1, <1>7, <2>1, CancelledType, Zenon DEF Streams, OnRecord, OnlyAcks, KeepsNews, Counting, TypeOK
<1>8. /\ intake.received \in 0 .. MaxChunks /\ intake.sequence \in 0 .. MaxChunks + 1
      /\ intake.received <= intake.sequence
  BY <1>1 DEF Streams, Counting
<1>9. m.sequence = intake.sequence + 1 => received \in 0 .. MaxChunks /\ received <= m.sequence
  BY <1>4, <1>5, <1>8 DEF CommandAssumption
<1>10. item \in 0 .. MaxChunks
  BY <1>4, <1>5 DEF CommandAssumption, Done
<1> HIDE DEF received, item
<1>11. CASE /\ m.sequence = intake.sequence + 1
            /\ intake' = [intake EXCEPT !.sequence = m.sequence, !.received = received, !.error = TRUE]
            /\ session' = Cancelled(session)
            /\ UNCHANGED <<feeder, feedError, toHost>>
  <2>1. KeepsNews
    BY <1>11, SameQueues
  <2>2. OnlyAcks
    BY <2>1, <1>11 DEF OnlyAcks, KeepsNews, TypeOK
  <2>3. /\ intake' \in [streaming : BOOLEAN, queue : Seq(0 .. MaxChunks), eof : BOOLEAN,
                        sequence : 0 .. MaxChunks + 1, received : 0 .. MaxChunks, error : BOOLEAN]
        /\ intake'.received <= intake'.sequence /\ intake'.error
    <3>1. intake' = [streaming |-> intake.streaming, queue |-> intake.queue, eof |-> intake.eof,
                     sequence |-> m.sequence, received |-> received, error |-> TRUE]
      BY <1>1, <1>11, Zenon DEF Streams
    <3>2. intake.streaming \in BOOLEAN /\ intake.queue \in Seq(0 .. MaxChunks) /\ intake.eof \in BOOLEAN
      BY <1>1 DEF Streams
    <3>3. received \in 0 .. MaxChunks /\ received <= m.sequence
      BY <1>9, <1>11
    <3> QED
      BY <1>4, <3>1, <3>2, <3>3
  <2> QED
    BY <1>1, <1>11, <2>2, <2>3, CancelledType DEF Streams, OnRecord
<1>12. CASE /\ m.sequence = intake.sequence + 1
            /\ intake' = [intake EXCEPT !.sequence = m.sequence, !.received = received, !.eof = m.eof,
                                        !.queue = IF feeder = "next" THEN @ ELSE Append(@, item)]
            /\ IF feeder = "next" THEN Append1(item) ELSE UNCHANGED <<session, feeder, feedError>>
            /\ toHost' = Append(toHost, [type |-> "ack", id |-> m.id, sequence |-> m.sequence])
  <2> DEFINE ack == [type |-> "ack", id |-> m.id, sequence |-> m.sequence]
  <2>1. ack \in ToHost /\ ack.type = "ack"
    BY <1>4 DEF ToHost
  <2>2. Sends(ack)
    BY <1>12, <2>1, Sent
  <2> HIDE DEF ack
  <2>3. OnlyAcks
    BY <2>1, <2>2 DEF OnlyAcks, Sends
  <2>4. /\ session' \in [state : States, cancelled : BOOLEAN, eof : BOOLEAN,
                         input : Seq(1 .. MaxChunks)]
        /\ feeder' \in {"off", "next", "pause"} /\ feedError' \in BOOLEAN
        /\ feedError => feedError'
        /\ session'.cancelled => session.cancelled \/ feedError'
    BY <1>1, <1>10, <1>12, AppendsItem DEF Streams
  <2>5. (IF feeder = "next" THEN intake.queue ELSE Append(intake.queue, item)) \in Seq(0 .. MaxChunks)
    BY <1>1, <1>10, Appended, Zenon DEF Streams
  <2>6. /\ intake' \in [streaming : BOOLEAN, queue : Seq(0 .. MaxChunks), eof : BOOLEAN,
                        sequence : 0 .. MaxChunks + 1, received : 0 .. MaxChunks, error : BOOLEAN]
        /\ intake'.received <= intake'.sequence /\ intake'.error = intake.error
    <3> DEFINE queue == IF feeder = "next" THEN intake.queue ELSE Append(intake.queue, item)
    <3>1. intake' = [streaming |-> intake.streaming, queue |-> queue, eof |-> m.eof,
                     sequence |-> m.sequence, received |-> received, error |-> intake.error]
      BY <1>1, <1>12, Zenon DEF Streams
    <3>2. intake.streaming \in BOOLEAN /\ intake.error \in BOOLEAN
      BY <1>1 DEF Streams
    <3> HIDE DEF queue
    <3>3. queue \in Seq(0 .. MaxChunks)
      BY <2>5 DEF queue
    <3>4. received \in 0 .. MaxChunks /\ received <= m.sequence
      BY <1>9, <1>12
    <3> QED
      BY <1>4, <3>1, <3>2, <3>3, <3>4
  <2> QED
    BY <2>3, <2>4, <2>6 DEF Streams, OnRecord
<1> QED
  <2>1. TakeInput(m) \/ UNCHANGED <<intake, session, feeder, feedError, toHost>>
    BY <1>3 DEF OnInput
  <2> QED
    BY <1>6, <1>7, <1>11, <1>12, <2>1 DEF TakeInput, received, item

-----------------------------------------------------------------------------
(* The actions of the embedder's thread.                                   *)

\* run: the new run's request is the only one, and nothing answers it yet.
LEMMA RunStep ==
  ASSUME IInv, NEW streaming \in BOOLEAN, NEW size \in 0 .. MaxChunks, streaming => size = 0,
         Run(streaming, size)
  PROVE  IInv'
<1> USE CommandAssumption DEF IInv, Runs
<1>1. Scalars /\ Tables
  BY TypeParts
<1> DEFINE m == [type |-> "run", id |-> nextId, streaming |-> streaming, size |-> size]
<1>2. m \in ToWorker /\ m.type = "run" /\ m.id = nextId
  BY <1>1 DEF Run, Tables, ToWorker, Counting
<1>3. Posts(m)
  BY <1>2, Posted DEF Run
<1>4. KeepsNews
  BY SameQueues DEF Run, workerVars
<1>5.
     /\ host = "ready"
     /\ active = 0
     /\ nextId \in Runs
     /\ active' = nextId
     /\ nextId' = nextId + 1
     /\ pump' = [pump EXCEPT ![nextId] = IF streaming THEN "next" ELSE "off"]
     /\ chunks' = [chunks EXCEPT ![nextId] = size]
     /\ ended' = [ended EXCEPT ![nextId] = ~streaming]
  BY <1>1, <1>2, <1>3, <1>4 DEF Run, hostVars, workerVars, engineVars
<1>6. UNCHANGED <<host, aborted, sequence, inputError, settled, up, runtime, job, lastId, intake,
                  session, feeder, feedError, outcome>>
  BY DEF Run, hostVars, workerVars, engineVars
<1> HIDE DEF m
<1>7. toWorker' \in Seq(ToWorker) /\ toHost' \in Seq(ToHost)
  BY <1>1, <1>2, <1>3, <1>4, <1>5, <1>6 DEF TypeOK, Posts, KeepsNews
<1>8. TypeOK'
  <2>1. (active \in 0 .. MaxRuns)'
    BY <1>5, <1>1 DEF Scalars, Tables
  <2>2. (nextId \in 1 .. MaxRuns + 1)'
    BY <1>5, <1>1 DEF Scalars, Tables
  <2>3. (pump \in [Runs -> {"off", "next", "ack"}])'
    BY <1>5, <1>1 DEF Scalars, Tables
  <2>4. (chunks \in [Runs -> 0 .. MaxChunks])'
    BY <1>5, <1>1 DEF Scalars, Tables
  <2>5. (ended \in [Runs -> BOOLEAN])'
    BY <1>5, <1>1 DEF Scalars, Tables
  <2> HIDE DEF Runs
  <2>6. Streams'
    BY TypeParts, <1>6 DEF Streams
  <2>7. Tables'
    BY <1>1, <1>6, <2>3, <2>4, <2>5 DEF Tables
  <2>8. (Scalars /\ host \in {"starting", "ready", "failed", "disposed"})'
    BY <1>1, TypeParts, <1>6, <1>7, <2>1, <2>2 DEF Scalars
  <2> QED
    BY <1>7, <2>6, <2>7, <2>8, TypeWhole
<1>9. Lifecycle'
  <2>1. (~up => toWorker = <<>> /\ job = 0)'
    BY <1>3, <1>2, <1>6 DEF Lifecycle, Posts
  <2>2. (host \in {"failed", "disposed"} => ~up /\ toHost = <<>>)'
    BY <1>4, <1>6 DEF Lifecycle, KeepsNews
  <2>3. (Work("init") # {} =>
           Len(toWorker) = 1 /\ host = "starting" /\ News({"ready"}) = {} /\ News({"initError"}) = {})'
    BY <1>1, <1>5, <1>3, <1>4, <1>2, <1>6 DEF Lifecycle, OnePlace, Posts, KeepsNews, Scalars
  <2>4. (News({"initError"}) # {} => host = "starting" /\ News({"ready"}) = {})'
    BY <1>4, <1>6 DEF Lifecycle, KeepsNews
  <2>5. (host = "ready" \/ News({"ready"}) # {} => (up => runtime))'
    BY <1>4, <1>6 DEF Lifecycle, KeepsNews
  <2> QED
    BY <2>1, <2>2, <2>3, <2>4, <2>5 DEF Lifecycle
<1>10. OnePlace'
  <2>1. (active # 0 => host = "ready" /\ nextId = active + 1)'
    BY <1>1, <1>5, <1>6 DEF OnePlace, Scalars
  <2>2. (lastId < nextId)'
    BY <1>1, <1>5, <1>6 DEF OnePlace, Scalars
  <2>3. (\A i \in Work("run") : toWorker[i].id = active)'
    BY <1>1, <1>5, <1>3, <1>2, <1>6 DEF OnePlace, Posts, Scalars
  <2>4. (Work("run") # {} =>
           active # 0 /\ lastId < active /\ outcome[active] = "no" /\ job = 0 /\ Answers = {})'
    BY <1>1, <1>5, <1>3, <1>4, <1>2, <1>6 DEF OnePlace, Single, Ledger, Lifecycle, Answers,
       Posts, KeepsNews, Scalars
  <2>5. (job # 0 => job = active /\ outcome[active] = "no" /\ Answers = {})'
    BY <1>1, <1>5, <1>4, <1>6 DEF OnePlace, KeepsNews, Answers, Scalars
  <2>6. (\A k \in Answers : toHost[k].id = active)'
    BY <1>1, <1>5, <1>4, <1>6 DEF OnePlace, KeepsNews, Answers, Scalars
  <2>7. (Answers # {} => active # 0 /\ outcome[active] # "no")'
    BY <1>1, <1>5, <1>4, <1>6 DEF OnePlace, KeepsNews, Answers, Scalars
  <2> QED
    BY <2>1, <2>2, <2>3, <2>4, <2>5, <2>6, <2>7 DEF OnePlace
<1>11. Single'
  <2>1. (\A i, j \in Work("run") : i = j)'
    BY <1>1, <1>5, <1>3, <1>2, <1>6 DEF Single, OnePlace, Posts, Scalars
  <2>2. (\A k, l \in Answers : k = l)'
    BY <1>4, <1>6 DEF Single, KeepsNews, Answers
  <2> QED
    BY <2>1, <2>2 DEF Single
<1>12. Ledger'
  <2>1. (\A q \in Runs : settled[q] # "no" <=> q < nextId /\ q # active)'
    BY <1>1, <1>5, <1>6 DEF Ledger, Scalars
  <2>2. (\A q \in Runs : q >= nextId => outcome[q] = "no")'
    BY <1>1, <1>5, <1>6 DEF Ledger, Scalars
  <2>3. (\A q \in Runs : settled[q] \notin {"no", "crashed"} => outcome[q] # "no")'
    BY <1>6 DEF Ledger
  <2>4. (\A q \in Runs : settled[q] = "crashed" => ~up /\ host = "disposed")'
    BY <1>6 DEF Ledger
  <2> QED
    BY <2>1, <2>2, <2>3, <2>4 DEF Ledger
<1>13. Counting'
  <2>1. (\A q \in Runs : pump[q] = "next" => ~ended[q] /\ sequence[q] = chunks[q])'
    <3> SUFFICES ASSUME NEW r \in Runs, pump'[r] = "next" PROVE ~ended'[r] /\ sequence'[r] = chunks'[r]
      OBVIOUS
    <3>1. CASE r = nextId
      <4>1. sequence[r] = 0
        BY <3>1 DEF Counting
      <4>2. streaming
        BY <1>1, <1>5, <3>1 DEF Tables
      <4> QED
        BY <1>1, <1>5, <1>6, <3>1, <4>1, <4>2, Zenon DEF Tables
    <3>2. CASE r # nextId
      BY <1>1, <1>5, <1>6, <3>2 DEF Tables, Counting
    <3> QED
      BY <3>1, <3>2
  <2>2. (\A q \in Runs : pump[q] = "ack" => ended[q] \/ sequence[q] = chunks[q])'
    BY <1>1, <1>5, <1>6 DEF Counting, Tables
  <2>3. (\A q \in Runs : q >= nextId => sequence[q] = 0)'
    BY <1>1, <1>5, <1>6 DEF Counting, Scalars
  <2>4. (\A i \in Work("input") : toWorker[i].eof \/ toWorker[i].sequence <= MaxChunks)'
    BY <1>3, <1>2, <1>6 DEF Counting, Posts
  <2>5. (intake.received <= intake.sequence)'
    BY <1>6 DEF Counting
  <2> QED
    BY <2>1, <2>2, <2>3, <2>4, <2>5 DEF Counting
<1>14. PumpReleased'
  BY <1>1, <1>5, <1>6 DEF PumpReleased, Tables, Scalars
<1>15. Blame'
  BY <1>3, <1>2, <1>6 DEF Blame, Posts
<1>16. CancelledOnlyIfAsked'
  BY <1>6 DEF CancelledOnlyIfAsked
<1> QED
  BY <1>8, <1>9, <1>10, <1>11, <1>12, <1>13, <1>14, <1>15, <1>16

\* The abort listener posts a cancel that its own signal is to blame for.
LEMMA AbortStep ==
  ASSUME IInv, NEW r \in Runs, Abort(r)
  PROVE  IInv'
<1> USE CommandAssumption DEF IInv, Runs
<1>1. Scalars /\ Tables
  BY TypeParts
<1> DEFINE m == [type |-> "cancel", id |-> r]
<1>2. m \in ToWorker /\ m.type = "cancel" /\ m.id = r
  BY <1>1 DEF Abort, Tables, ToWorker, Counting
<1>3. Posts(m)
  BY <1>2, Posted DEF Abort
<1>4. KeepsNews
  BY SameQueues DEF Abort, workerVars
<1>5.
     /\ active = r
     /\ aborted' = [aborted EXCEPT ![r] = TRUE]
  BY <1>1, <1>2, <1>3, <1>4 DEF Abort, hostVars, workerVars, engineVars
<1>6. UNCHANGED <<host, active, nextId, pump, chunks, sequence, ended, inputError, settled, up,
                  runtime, job, lastId, intake, session, feeder, feedError, outcome>>
  BY DEF Abort, hostVars, workerVars, engineVars
<1> HIDE DEF m
<1>7. toWorker' \in Seq(ToWorker) /\ toHost' \in Seq(ToHost)
  BY <1>1, <1>2, <1>3, <1>4, <1>5, <1>6 DEF TypeOK, Posts, KeepsNews
<1>8. TypeOK'
  <2>1. (aborted \in [Runs -> BOOLEAN])'
    BY <1>5, <1>1 DEF Scalars, Tables
  <2> HIDE DEF Runs
  <2>2. Streams'
    BY TypeParts, <1>6 DEF Streams
  <2>3. Tables'
    BY <1>1, <1>6, <2>1 DEF Tables
  <2>4. (Scalars /\ host \in {"starting", "ready", "failed", "disposed"})'
    BY <1>1, TypeParts, <1>6, <1>7 DEF Scalars
  <2> QED
    BY <1>7, <2>2, <2>3, <2>4, TypeWhole
<1>9. Lifecycle'
  <2>1. (~up => toWorker = <<>> /\ job = 0)'
    BY <1>3, <1>2, <1>6 DEF Lifecycle, Posts
  <2>2. (host \in {"failed", "disposed"} => ~up /\ toHost = <<>>)'
    BY <1>4, <1>6 DEF Lifecycle, KeepsNews
  <2>3. (Work("init") # {} =>
           Len(toWorker) = 1 /\ host = "starting" /\ News({"ready"}) = {} /\ News({"initError"}) = {})'
    BY <1>1, <1>5, <1>3, <1>4, <1>2, <1>6 DEF Lifecycle, OnePlace, Posts, KeepsNews, Scalars
  <2>4. (News({"initError"}) # {} => host = "starting" /\ News({"ready"}) = {})'
    BY <1>4, <1>6 DEF Lifecycle, KeepsNews
  <2>5. (host = "ready" \/ News({"ready"}) # {} => (up => runtime))'
    BY <1>4, <1>6 DEF Lifecycle, KeepsNews
  <2> QED
    BY <2>1, <2>2, <2>3, <2>4, <2>5 DEF Lifecycle
<1>10. OnePlace'
  BY <1>3, <1>4, <1>2, <1>6 DEF OnePlace, Posts, KeepsNews, Answers
<1>11. Single'
  BY <1>3, <1>4, <1>2, <1>6 DEF Single, Posts, KeepsNews, Answers
<1>12. Ledger'
  BY <1>6 DEF Ledger
<1>13. Counting'
  BY <1>3, <1>2, <1>6 DEF Counting, Posts
<1>14. PumpReleased'
  BY <1>6 DEF PumpReleased
<1>15. Blame'
  <2>1. (\A i \in Work("cancel") : aborted[toWorker[i].id] \/ inputError[toWorker[i].id])'
    BY <1>1, <1>2, <1>3, <1>4, <1>5, <1>6, CancelIds, Zenon DEF Blame, Scalars, Tables, Posts, KeepsNews
  <2>2. (job # 0 /\ session.cancelled =>
           aborted[job] \/ inputError[job] \/ intake.error \/ feedError)'
    BY <1>1, <1>5, <1>6 DEF Blame, Tables
  <2> QED
    BY <2>1, <2>2 DEF Blame
<1>16. CancelledOnlyIfAsked'
  BY <1>1, <1>5, <1>6 DEF CancelledOnlyIfAsked, Tables
<1> QED
  BY <1>8, <1>9, <1>10, <1>11, <1>12, <1>13, <1>14, <1>15, <1>16

\* The input loop posts the next number and waits for its acknowledgement.
LEMMA SourceItemStep ==
  ASSUME IInv, NEW r \in Runs, NEW eof \in BOOLEAN, SourceItem(r, eof)
  PROVE  IInv'
<1> USE CommandAssumption DEF IInv, Runs
<1>1. Scalars /\ Tables
  BY TypeParts
<1> DEFINE m == [type |-> "input", id |-> r, sequence |-> sequence[r] + 1, eof |-> eof]
<1>2. m \in ToWorker /\ m.type = "input" /\ m.id = r /\ m.sequence = sequence[r] + 1 /\ m.eof = eof
  BY <1>1 DEF SourceItem, Tables, ToWorker, Counting
<1>3. Posts(m)
  BY <1>2, Posted DEF SourceItem
<1>4. KeepsNews
  BY SameQueues DEF SourceItem, workerVars
<1>5.
     /\ active = r
     /\ nextId = r + 1
     /\ sequence[r] = chunks[r]
     /\ pump[r] = "next"
     /\ eof \/ chunks[r] < MaxChunks
     /\ sequence' = [sequence EXCEPT ![r] = @ + 1]
     /\ chunks' = [chunks EXCEPT ![r] = IF eof THEN @ ELSE @ + 1]
     /\ ended' = [ended EXCEPT ![r] = eof]
     /\ pump' = [pump EXCEPT ![r] = "ack"]
  BY <1>1, <1>2, <1>3, <1>4, SMT, Z3 DEF SourceItem, OnePlace, Counting, Scalars, hostVars, workerVars,
     engineVars
<1>6. UNCHANGED <<host, active, nextId, aborted, inputError, settled, up, runtime, job, lastId,
                  intake, session, feeder, feedError, outcome>>
  BY Zenon DEF SourceItem, OnePlace, Counting, Scalars, hostVars, workerVars, engineVars
<1> HIDE DEF m
<1>7. toWorker' \in Seq(ToWorker) /\ toHost' \in Seq(ToHost)
  BY <1>1, <1>2, <1>3, <1>4, <1>5, <1>6 DEF TypeOK, Posts, KeepsNews
<1>8. TypeOK'
  <2>1. (pump \in [Runs -> {"off", "next", "ack"}])'
    BY <1>5, <1>1 DEF Scalars, Tables
  <2>2. (chunks \in [Runs -> 0 .. MaxChunks])'
    BY <1>5, <1>1 DEF Scalars, Tables
  <2>3. (sequence \in [Runs -> 0 .. MaxChunks + 1])'
    BY <1>5, <1>1 DEF Scalars, Tables
  <2>4. (ended \in [Runs -> BOOLEAN])'
    BY <1>5, <1>1 DEF Scalars, Tables
  <2> HIDE DEF Runs
  <2>5. Streams'
    BY TypeParts, <1>6 DEF Streams
  <2>6. Tables'
    BY <1>1, <1>6, <2>1, <2>2, <2>3, <2>4 DEF Tables
  <2>7. (Scalars /\ host \in {"starting", "ready", "failed", "disposed"})'
    BY <1>1, TypeParts, <1>6, <1>7 DEF Scalars
  <2> QED
    BY <1>7, <2>5, <2>6, <2>7, TypeWhole
<1>9. Lifecycle'
  <2>1. (~up => toWorker = <<>> /\ job = 0)'
    BY <1>3, <1>2, <1>6 DEF Lifecycle, Posts
  <2>2. (host \in {"failed", "disposed"} => ~up /\ toHost = <<>>)'
    BY <1>4, <1>6 DEF Lifecycle, KeepsNews
  <2>3. (Work("init") # {} =>
           Len(toWorker) = 1 /\ host = "starting" /\ News({"ready"}) = {} /\ News({"initError"}) = {})'
    BY <1>1, <1>5, <1>3, <1>4, <1>2, <1>6 DEF Lifecycle, OnePlace, Posts, KeepsNews, Scalars
  <2>4. (News({"initError"}) # {} => host = "starting" /\ News({"ready"}) = {})'
    BY <1>4, <1>6 DEF Lifecycle, KeepsNews
  <2>5. (host = "ready" \/ News({"ready"}) # {} => (up => runtime))'
    BY <1>4, <1>6, Zenon DEF Lifecycle, KeepsNews
  <2> QED
    BY <2>1, <2>2, <2>3, <2>4, <2>5 DEF Lifecycle
<1>10. OnePlace'
  BY <1>3, <1>4, <1>2, <1>6 DEF OnePlace, Posts, KeepsNews, Answers
<1>11. Single'
  BY <1>3, <1>4, <1>2, <1>6 DEF Single, Posts, KeepsNews, Answers
<1>12. Ledger'
  BY <1>6 DEF Ledger
<1>13. Counting'
  <2>1. (\A q \in Runs : pump[q] = "next" => ~ended[q] /\ sequence[q] = chunks[q])'
    BY <1>1, <1>5, <1>6 DEF Counting, Tables
  <2>2. (\A q \in Runs : pump[q] = "ack" => ended[q] \/ sequence[q] = chunks[q])'
    BY <1>1, <1>5, <1>6 DEF Counting, Tables
  <2>3. (\A q \in Runs : q >= nextId => sequence[q] = 0)'
    BY <1>1, <1>5, <1>6 DEF Counting, Tables
  <2>4. (\A i \in Work("input") : toWorker[i].eof \/ toWorker[i].sequence <= MaxChunks)'
    <3>1. m.eof \/ m.sequence <= MaxChunks
      BY <1>1, <1>2, <1>5 DEF Tables
    <3> QED
      BY <1>3, <3>1 DEF Posts, Counting
  <2>5. (intake.received <= intake.sequence)'
    BY <1>1, <1>5, <1>6 DEF Counting, Tables
  <2> QED
    BY <2>1, <2>2, <2>3, <2>4, <2>5 DEF Counting
<1>14. PumpReleased'
  BY <1>1, <1>5, <1>6 DEF PumpReleased, Tables
<1>15. Blame'
  BY <1>3, <1>2, <1>6 DEF Blame, Posts
<1>16. CancelledOnlyIfAsked'
  BY <1>6 DEF CancelledOnlyIfAsked
<1> QED
  BY <1>8, <1>9, <1>10, <1>11, <1>12, <1>13, <1>14, <1>15, <1>16

\* A source that throws is to blame for the cancel it posts.
LEMMA SourceThrowsStep ==
  ASSUME IInv, NEW r \in Runs, SourceThrows(r)
  PROVE  IInv'
<1> USE CommandAssumption DEF IInv, Runs
<1>1. Scalars /\ Tables
  BY TypeParts
<1> DEFINE m == [type |-> "cancel", id |-> r]
<1>2. m \in ToWorker /\ m.type = "cancel" /\ m.id = r
  BY <1>1 DEF SourceThrows, Tables, ToWorker, Counting
<1>3. Posts(m)
  BY <1>2, Posted DEF SourceThrows
<1>4. KeepsNews
  BY SameQueues DEF SourceThrows, workerVars
<1>5.
     /\ active = r
     /\ inputError' = [inputError EXCEPT ![r] = TRUE]
     /\ pump' = [pump EXCEPT ![r] = "off"]
  BY <1>1, <1>2, <1>3, <1>4 DEF SourceThrows, hostVars, workerVars, engineVars
<1>6. UNCHANGED <<host, active, nextId, aborted, chunks, sequence, ended, settled, up, runtime,
                  job, lastId, intake, session, feeder, feedError, outcome>>
  BY DEF SourceThrows, hostVars, workerVars, engineVars
<1> HIDE DEF m
<1>7. toWorker' \in Seq(ToWorker) /\ toHost' \in Seq(ToHost)
  BY <1>1, <1>2, <1>3, <1>4, <1>5, <1>6 DEF TypeOK, Posts, KeepsNews
<1>8. TypeOK'
  <2>1. (pump \in [Runs -> {"off", "next", "ack"}])'
    BY <1>5, <1>1 DEF Scalars, Tables
  <2>2. (inputError \in [Runs -> BOOLEAN])'
    BY <1>5, <1>1 DEF Scalars, Tables
  <2> HIDE DEF Runs
  <2>3. Streams'
    BY TypeParts, <1>6 DEF Streams
  <2>4. Tables'
    BY <1>1, <1>6, <2>1, <2>2 DEF Tables
  <2>5. (Scalars /\ host \in {"starting", "ready", "failed", "disposed"})'
    BY <1>1, TypeParts, <1>6, <1>7 DEF Scalars
  <2> QED
    BY <1>7, <2>3, <2>4, <2>5, TypeWhole
<1>9. Lifecycle'
  <2>1. (~up => toWorker = <<>> /\ job = 0)'
    BY <1>3, <1>2, <1>6 DEF Lifecycle, Posts
  <2>2. (host \in {"failed", "disposed"} => ~up /\ toHost = <<>>)'
    BY <1>4, <1>6 DEF Lifecycle, KeepsNews
  <2>3. (Work("init") # {} =>
           Len(toWorker) = 1 /\ host = "starting" /\ News({"ready"}) = {} /\ News({"initError"}) = {})'
    BY <1>1, <1>5, <1>3, <1>4, <1>2, <1>6 DEF Lifecycle, OnePlace, Posts, KeepsNews, Scalars
  <2>4. (News({"initError"}) # {} => host = "starting" /\ News({"ready"}) = {})'
    BY <1>4, <1>6 DEF Lifecycle, KeepsNews
  <2>5. (host = "ready" \/ News({"ready"}) # {} => (up => runtime))'
    BY <1>4, <1>6, Zenon DEF Lifecycle, KeepsNews
  <2> QED
    BY <2>1, <2>2, <2>3, <2>4, <2>5 DEF Lifecycle
<1>10. OnePlace'
  BY <1>3, <1>4, <1>2, <1>6 DEF OnePlace, Posts, KeepsNews, Answers
<1>11. Single'
  BY <1>3, <1>4, <1>2, <1>6 DEF Single, Posts, KeepsNews, Answers
<1>12. Ledger'
  BY <1>6 DEF Ledger
<1>13. Counting'
  <2>1. (\A q \in Runs : pump[q] = "next" => ~ended[q] /\ sequence[q] = chunks[q])'
    BY <1>1, <1>5, <1>6 DEF Counting, Tables
  <2>2. (\A q \in Runs : pump[q] = "ack" => ended[q] \/ sequence[q] = chunks[q])'
    BY <1>1, <1>5, <1>6 DEF Counting, Tables
  <2>3. (\A q \in Runs : q >= nextId => sequence[q] = 0)'
    BY <1>6, Zenon DEF Counting
  <2>4. (\A i \in Work("input") : toWorker[i].eof \/ toWorker[i].sequence <= MaxChunks)'
    BY <1>3, <1>2, <1>6, Zenon DEF Counting, Posts
  <2>5. (intake.received <= intake.sequence)'
    BY <1>6 DEF Counting
  <2> QED
    BY <2>1, <2>2, <2>3, <2>4, <2>5 DEF Counting
<1>14. PumpReleased'
  BY <1>1, <1>5, <1>6 DEF PumpReleased, Tables
<1>15. Blame'
  <2>1. (\A i \in Work("cancel") : aborted[toWorker[i].id] \/ inputError[toWorker[i].id])'
    <3> SUFFICES ASSUME NEW i \in Work("cancel")'
                 PROVE  (aborted[toWorker[i].id] \/ inputError[toWorker[i].id])'
      OBVIOUS
    <3>1. CASE i \in Work("cancel") /\ toWorker'[i] = toWorker[i]
      <4>1. toWorker[i].id \in Runs /\ (aborted[toWorker[i].id] \/ inputError[toWorker[i].id])
        BY <3>1, CancelIds DEF Blame
      <4> QED
        BY <1>1, <1>5, <1>6, <3>1, <4>1 DEF Tables
    <3>2. CASE toWorker'[i] = m
      BY <1>1, <1>2, <1>5, <1>6, <3>2 DEF Tables
    <3> QED
      BY <1>3, <3>1, <3>2 DEF Posts
  <2>2. (job # 0 /\ session.cancelled =>
           aborted[job] \/ inputError[job] \/ intake.error \/ feedError)'
    BY <1>1, <1>5, <1>6 DEF Blame, Tables
  <2> QED
    BY <2>1, <2>2 DEF Blame
<1>16. CancelledOnlyIfAsked'
  BY <1>1, <1>5, <1>6 DEF CancelledOnlyIfAsked, Tables
<1> QED
  BY <1>8, <1>9, <1>10, <1>11, <1>12, <1>13, <1>14, <1>15, <1>16

\* A source that answers late ends its loop only.
LEMMA SourceLateStep ==
  ASSUME IInv, NEW r \in Runs, SourceLate(r)
  PROVE  IInv'
<1> USE CommandAssumption DEF IInv, Runs
<1>1. Scalars /\ Tables
  BY TypeParts
<1>2. KeepsWork
  BY SameQueues DEF SourceLate, workerVars
<1>3. KeepsNews
  BY SameQueues DEF SourceLate, workerVars
<1>4. pump' = [pump EXCEPT ![r] = "off"]
  BY <1>1, <1>2, <1>3 DEF SourceLate, hostVars, workerVars, engineVars
<1>5. UNCHANGED <<host, active, nextId, aborted, chunks, sequence, ended, inputError, settled,
                  up, runtime, job, lastId, intake, session, feeder, feedError, outcome>>
  BY DEF SourceLate, hostVars, workerVars, engineVars
<1>6. toWorker' \in Seq(ToWorker) /\ toHost' \in Seq(ToHost)
  BY <1>1, <1>2, <1>3, <1>4, <1>5 DEF TypeOK, KeepsWork, KeepsNews
<1>7. TypeOK'
  <2>1. (pump \in [Runs -> {"off", "next", "ack"}])'
    BY <1>4, <1>1 DEF Scalars, Tables
  <2> HIDE DEF Runs
  <2>2. Streams'
    BY TypeParts, <1>5 DEF Streams
  <2>3. Tables'
    BY <1>1, <1>5, <2>1 DEF Tables
  <2>4. (Scalars /\ host \in {"starting", "ready", "failed", "disposed"})'
    BY <1>1, TypeParts, <1>5, <1>6 DEF Scalars
  <2> QED
    BY <1>6, <2>2, <2>3, <2>4, TypeWhole
<1>8. Lifecycle'
  BY <1>2, <1>3, <1>5 DEF Lifecycle, KeepsWork, KeepsNews
<1>9. OnePlace'
  BY <1>2, <1>3, <1>5, Zenon DEF OnePlace, KeepsWork, KeepsNews, Answers
<1>10. Single'
  BY <1>2, <1>3, <1>5 DEF Single, KeepsWork, KeepsNews, Answers
<1>11. Ledger'
  BY <1>5 DEF Ledger
<1>12. Counting'
  <2>1. (\A q \in Runs : pump[q] = "next" => ~ended[q] /\ sequence[q] = chunks[q])'
    BY <1>1, <1>4, <1>5 DEF Counting, Tables
  <2>2. (\A q \in Runs : pump[q] = "ack" => ended[q] \/ sequence[q] = chunks[q])'
    BY <1>1, <1>4, <1>5 DEF Counting, Tables
  <2>3. (\A q \in Runs : q >= nextId => sequence[q] = 0)'
    BY <1>5, Zenon DEF Counting
  <2>4. (\A i \in Work("input") : toWorker[i].eof \/ toWorker[i].sequence <= MaxChunks)'
    BY <1>2, <1>5, Zenon DEF Counting, KeepsWork
  <2>5. (intake.received <= intake.sequence)'
    BY <1>5 DEF Counting
  <2> QED
    BY <2>1, <2>2, <2>3, <2>4, <2>5 DEF Counting
<1>13. PumpReleased'
  BY <1>1, <1>4, <1>5 DEF PumpReleased, Tables
<1>14. Blame'
  BY <1>2, <1>5, Zenon DEF Blame, KeepsWork
<1>15. CancelledOnlyIfAsked'
  BY <1>5 DEF CancelledOnlyIfAsked
<1> QED
  BY <1>7, <1>8, <1>9, <1>10, <1>11, <1>12, <1>13, <1>14, <1>15

\* dispose: no run is open, and the queues go with the worker.
LEMMA DisposeStep ==
  ASSUME IInv, Dispose
  PROVE  IInv'
<1> USE CommandAssumption DEF IInv, Runs
<1>1. Scalars /\ Tables
  BY TypeParts
<1>2. DropsWork
  BY SameQueues DEF Dispose, Terminate
<1>3. DropsNews
  BY SameQueues DEF Dispose, Terminate
<1>4.
     /\ active = 0
     /\ host' = "disposed"
     /\ up' = FALSE
     /\ runtime' = FALSE
     /\ job' = 0
     /\ intake' = NoIntake
     /\ session' = NoSession
     /\ feedError' = FALSE
     /\ feeder' = "off"
  BY <1>1, <1>2, <1>3 DEF Dispose, Terminate, Idle, hostVars, workerVars, engineVars
<1>5. UNCHANGED <<active, nextId, aborted, pump, chunks, sequence, ended, inputError, settled,
                  lastId, outcome>>
  BY DEF Dispose, Terminate, Idle, hostVars, workerVars, engineVars
<1>6. toWorker' \in Seq(ToWorker) /\ toHost' \in Seq(ToHost)
  BY <1>1, <1>2, <1>3, <1>4, <1>5 DEF TypeOK, DropsWork, DropsNews
<1>7. TypeOK'
  <2>1. (host \in {"starting", "ready", "failed", "disposed"})'
    BY <1>4, <1>1 DEF TypeOK
  <2>2. (up \in BOOLEAN)'
    BY <1>4, <1>1, Zenon DEF Scalars, Tables
  <2>3. (runtime \in BOOLEAN)'
    BY <1>4, <1>1, Zenon DEF Scalars, Tables
  <2>4. (job \in 0 .. MaxRuns)'
    BY <1>4, <1>1 DEF Scalars, Tables
  <2>5. (intake \in [streaming : BOOLEAN, queue : Seq(0 .. MaxChunks), eof : BOOLEAN,
                     sequence : 0 .. MaxChunks + 1, received : 0 .. MaxChunks, error : BOOLEAN])'
    BY <1>4, NoTypes
  <2>6. (session \in [state : States, cancelled : BOOLEAN, eof : BOOLEAN,
                      input : Seq(1 .. MaxChunks)])'
    BY <1>4, NoTypes
  <2>7. (feeder \in {"off", "next", "pause"})'
    BY <1>4, <1>1 DEF TypeOK
  <2>8. (feedError \in BOOLEAN)'
    BY <1>4, <1>1, Zenon DEF TypeOK
  <2> HIDE DEF Runs
  <2>9. Streams'
    BY <2>5, <2>6, <2>7, <2>8 DEF Streams
  <2>10. Tables'
    BY <1>1, <1>5 DEF Tables
  <2>11. (Scalars /\ host \in {"starting", "ready", "failed", "disposed"})'
    BY <1>1, TypeParts, <1>5, <1>6, <2>1, <2>2, <2>3, <2>4 DEF Scalars
  <2> QED
    BY <1>6, <2>9, <2>10, <2>11, TypeWhole
<1>8. Lifecycle'
  <2>1. (~up => toWorker = <<>> /\ job = 0)'
    BY <1>1, <1>4, <1>2, <1>5 DEF Lifecycle, DropsWork, Scalars
  <2>2. (host \in {"failed", "disposed"} => ~up /\ toHost = <<>>)'
    BY <1>1, <1>4, <1>3, <1>5 DEF Lifecycle, DropsNews, Scalars
  <2>3. (Work("init") # {} =>
           Len(toWorker) = 1 /\ host = "starting" /\ News({"ready"}) = {} /\ News({"initError"}) = {})'
    BY <1>1, <1>4, <1>2, <1>3, <1>5 DEF Lifecycle, DropsWork, DropsNews, Scalars
  <2>4. (News({"initError"}) # {} => host = "starting" /\ News({"ready"}) = {})'
    BY <1>1, <1>4, <1>3, <1>5 DEF Lifecycle, DropsNews, Scalars
  <2>5. (host = "ready" \/ News({"ready"}) # {} => (up => runtime))'
    BY <1>1, <1>4, <1>3, <1>5 DEF Lifecycle, DropsNews, Scalars
  <2> QED
    BY <2>1, <2>2, <2>3, <2>4, <2>5 DEF Lifecycle
<1>9. OnePlace'
  <2>1. (active # 0 => host = "ready" /\ nextId = active + 1)'
    BY <1>1, <1>4, <1>5 DEF OnePlace
  <2>2. (lastId < nextId)'
    BY <1>5 DEF OnePlace
  <2>3. (\A i \in Work("run") : toWorker[i].id = active)'
    BY <1>2, <1>5 DEF OnePlace, DropsWork
  <2>4. (Work("run") # {} =>
           active # 0 /\ lastId < active /\ outcome[active] = "no" /\ job = 0 /\ Answers = {})'
    BY <1>1, <1>4, <1>2, <1>3, <1>5, Zenon DEF OnePlace, DropsWork, DropsNews, Answers, Scalars
  <2>5. (job # 0 => job = active /\ outcome[active] = "no" /\ Answers = {})'
    BY <1>1, <1>4, <1>3, <1>5 DEF OnePlace, DropsNews, Answers, Scalars
  <2>6. (\A k \in Answers : toHost[k].id = active)'
    BY <1>3, <1>5, Zenon DEF OnePlace, DropsNews, Answers
  <2>7. (Answers # {} => active # 0 /\ outcome[active] # "no")'
    BY <1>3, <1>5 DEF OnePlace, DropsNews, Answers
  <2> QED
    BY <2>1, <2>2, <2>3, <2>4, <2>5, <2>6, <2>7 DEF OnePlace
<1>10. Single'
  BY <1>2, <1>3, <1>5 DEF Single, DropsWork, DropsNews, Answers
<1>11. Ledger'
  <2>1. (\A q \in Runs : settled[q] # "no" <=> q < nextId /\ q # active)'
    BY <1>5 DEF Ledger
  <2>2. (\A q \in Runs : q >= nextId => outcome[q] = "no")'
    BY <1>5 DEF Ledger
  <2>3. (\A q \in Runs : settled[q] \notin {"no", "crashed"} => outcome[q] # "no")'
    BY <1>5 DEF Ledger
  <2>4. (\A q \in Runs : settled[q] = "crashed" => ~up /\ host = "disposed")'
    BY <1>1, <1>4, <1>5, Zenon DEF Ledger
  <2> QED
    BY <2>1, <2>2, <2>3, <2>4 DEF Ledger
<1>12. Counting'
  <2>1. (\A q \in Runs : pump[q] = "next" => ~ended[q] /\ sequence[q] = chunks[q])'
    BY <1>5 DEF Counting
  <2>2. (\A q \in Runs : pump[q] = "ack" => ended[q] \/ sequence[q] = chunks[q])'
    BY <1>5 DEF Counting
  <2>3. (\A q \in Runs : q >= nextId => sequence[q] = 0)'
    BY <1>5 DEF Counting
  <2>4. (\A i \in Work("input") : toWorker[i].eof \/ toWorker[i].sequence <= MaxChunks)'
    BY <1>2, <1>5, Zenon DEF Counting, DropsWork
  <2>5. (intake.received <= intake.sequence)'
    BY <1>1, <1>4, <1>5 DEF Counting, NoIntake
  <2> QED
    BY <2>1, <2>2, <2>3, <2>4, <2>5, Zenon DEF Counting
<1>13. PumpReleased'
  BY <1>5, Zenon DEF PumpReleased
<1>14. Blame'
  <2>1. (\A i \in Work("cancel") : aborted[toWorker[i].id] \/ inputError[toWorker[i].id])'
    BY <1>2, <1>5, Zenon DEF Blame, DropsWork
  <2>2. (job # 0 /\ session.cancelled =>
           aborted[job] \/ inputError[job] \/ intake.error \/ feedError)'
    BY <1>1, <1>4, <1>5 DEF Blame, Scalars, NoIntake, NoSession
  <2> QED
    BY <2>1, <2>2 DEF Blame
<1>15. CancelledOnlyIfAsked'
  BY <1>5 DEF CancelledOnlyIfAsked
<1> QED
  BY <1>7, <1>8, <1>9, <1>10, <1>11, <1>12, <1>13, <1>14, <1>15

\* The worker's first message makes the embedder ready.
LEMMA OnReadyStep ==
  ASSUME IInv, OnReady
  PROVE  IInv'
<1> USE CommandAssumption DEF IInv, Runs
<1>1. Scalars /\ Tables
  BY TypeParts
<1>2. KeepsWork
  BY SameQueues DEF OnReady, workerVars
<1>3. TakesNews
  BY TookNews DEF OnReady, Received
<1>4.
     /\ toHost # <<>>
     /\ toHost[1].type = "ready"
     /\ host' = "ready"
  BY <1>1, <1>2, <1>3 DEF OnReady, Received, Idle, TakesNews, hostVars, workerVars, engineVars
<1>5. UNCHANGED <<active, nextId, aborted, pump, chunks, sequence, ended, inputError, settled,
                  up, runtime, job, lastId, intake, session, feeder, feedError, outcome>>
  BY Zenon DEF OnReady, Received, Idle, TakesNews, hostVars, workerVars, engineVars
<1>6. toWorker' \in Seq(ToWorker) /\ toHost' \in Seq(ToHost)
  BY <1>1, <1>2, <1>3, <1>4, <1>5, Zenon DEF TypeOK, KeepsWork, TakesNews
<1>7. TypeOK'
  <2>1. (host \in {"starting", "ready", "failed", "disposed"})'
    BY <1>4, <1>1, <1>2, <1>3, Zenon DEF TypeOK, TakesNews
  <2> HIDE DEF Runs
  <2>2. Streams'
    BY TypeParts, <1>5 DEF Streams
  <2>3. Tables'
    BY <1>1, <1>5 DEF Tables
  <2>4. (Scalars /\ host \in {"starting", "ready", "failed", "disposed"})'
    BY <1>1, TypeParts, <1>5, <1>6, <2>1 DEF Scalars
  <2> QED
    BY <1>6, <2>2, <2>3, <2>4, TypeWhole
<1>8. Lifecycle'
  <2>1. (~up => toWorker = <<>> /\ job = 0)'
    BY <1>2, <1>5 DEF Lifecycle, KeepsWork
  <2>2. (host \in {"failed", "disposed"} => ~up /\ toHost = <<>>)'
    BY <1>1, <1>4, <1>3, <1>5 DEF Lifecycle, TakesNews, Scalars
  <2>3. (Work("init") # {} =>
           Len(toWorker) = 1 /\ host = "starting" /\ News({"ready"}) = {} /\ News({"initError"}) = {})'
    BY <1>1, <1>4, <1>2, <1>3, <1>5, Zenon DEF Lifecycle, KeepsWork, TakesNews, Scalars
  <2>4. (News({"initError"}) # {} => host = "starting" /\ News({"ready"}) = {})'
    BY <1>1, <1>4, <1>3, <1>5, Zenon DEF Lifecycle, TakesNews, Scalars
  <2>5. (host = "ready" \/ News({"ready"}) # {} => (up => runtime))'
    BY <1>1, <1>4, <1>3, <1>5, Zenon DEF Lifecycle, TakesNews, Scalars
  <2> QED
    BY <2>1, <2>2, <2>3, <2>4, <2>5 DEF Lifecycle
<1>9. OnePlace'
  <2>1. (active # 0 => host = "ready" /\ nextId = active + 1)'
    BY <1>1, <1>4, <1>5 DEF OnePlace
  <2>2. (lastId < nextId)'
    BY <1>5, Zenon DEF OnePlace
  <2>3. (\A i \in Work("run") : toWorker[i].id = active)'
    BY <1>2, <1>5, Zenon DEF OnePlace, KeepsWork
  <2>4. (Work("run") # {} =>
           active # 0 /\ lastId < active /\ outcome[active] = "no" /\ job = 0 /\ Answers = {})'
    BY <1>2, <1>3, <1>5, Zenon DEF OnePlace, KeepsWork, TakesNews, Answers
  <2>5. (job # 0 => job = active /\ outcome[active] = "no" /\ Answers = {})'
    BY <1>3, <1>5, Zenon DEF OnePlace, TakesNews, Answers
  <2>6. (\A k \in Answers : toHost[k].id = active)'
    BY <1>3, <1>5 DEF OnePlace, TakesNews, Answers
  <2>7. (Answers # {} => active # 0 /\ outcome[active] # "no")'
    BY <1>3, <1>5, Zenon DEF OnePlace, TakesNews, Answers
  <2> QED
    BY <2>1, <2>2, <2>3, <2>4, <2>5, <2>6, <2>7 DEF OnePlace
<1>10. Single'
  BY <1>2, <1>3, <1>5 DEF Single, KeepsWork, TakesNews, Answers
<1>11. Ledger'
  <2>1. (\A q \in Runs : settled[q] # "no" <=> q < nextId /\ q # active)'
    BY <1>5 DEF Ledger
  <2>2. (\A q \in Runs : q >= nextId => outcome[q] = "no")'
    BY <1>5 DEF Ledger
  <2>3. (\A q \in Runs : settled[q] \notin {"no", "crashed"} => outcome[q] # "no")'
    BY <1>5 DEF Ledger
  <2>4. (\A q \in Runs : settled[q] = "crashed" => ~up /\ host = "disposed")'
    BY <1>1, <1>4, <1>5, Zenon DEF Ledger, OnePlace, Lifecycle, Answers
  <2> QED
    BY <2>1, <2>2, <2>3, <2>4 DEF Ledger
<1>12. Counting'
  BY <1>2, <1>5 DEF Counting, KeepsWork
<1>13. PumpReleased'
  BY <1>5, Zenon DEF PumpReleased
<1>14. Blame'
  BY <1>2, <1>5 DEF Blame, KeepsWork
<1>15. CancelledOnlyIfAsked'
  BY <1>5 DEF CancelledOnlyIfAsked
<1> QED
  BY <1>7, <1>8, <1>9, <1>10, <1>11, <1>12, <1>13, <1>14, <1>15

\* A runtime that cannot start is terminated before any run.
LEMMA OnInitErrorStep ==
  ASSUME IInv, OnInitError
  PROVE  IInv'
<1> USE CommandAssumption DEF IInv, Runs
<1>1. Scalars /\ Tables
  BY TypeParts
<1>2. DropsWork
  BY SameQueues DEF OnInitError, Terminate
<1>3. DropsNews
  BY SameQueues DEF OnInitError, Terminate
<1>4. toHost[1].type = "initError" /\ 1 \in News({"initError"})
  BY Taken DEF TypeOK, OnInitError, Received, News
<1>5.
     /\ host = "starting"
     /\ active = 0
     /\ host' = "failed"
     /\ up' = FALSE
     /\ runtime' = FALSE
     /\ job' = 0
     /\ intake' = NoIntake
     /\ session' = NoSession
     /\ feedError' = FALSE
     /\ feeder' = "off"
  BY <1>1, <1>2, <1>3, <1>4, Zenon DEF OnInitError, Terminate, Idle, Received, Lifecycle, OnePlace,
     News, TypeOK, hostVars, workerVars, engineVars
<1>6. UNCHANGED <<active, nextId, aborted, pump, chunks, sequence, ended, inputError, settled,
                  lastId, outcome>>
  BY Zenon DEF OnInitError, Terminate, Idle, Received, Lifecycle, OnePlace, News, TypeOK, hostVars,
     workerVars, engineVars
<1>7. toWorker' \in Seq(ToWorker) /\ toHost' \in Seq(ToHost)
  BY <1>1, <1>2, <1>3, <1>4, <1>5, <1>6 DEF TypeOK, DropsWork, DropsNews
<1>8. TypeOK'
  <2>1. (host \in {"starting", "ready", "failed", "disposed"})'
    BY <1>5, <1>1 DEF TypeOK
  <2>2. (up \in BOOLEAN)'
    BY <1>5, <1>1, Zenon DEF Scalars, Tables
  <2>3. (runtime \in BOOLEAN)'
    BY <1>5, <1>1, Zenon DEF Scalars, Tables
  <2>4. (job \in 0 .. MaxRuns)'
    BY <1>5, <1>1 DEF Scalars, Tables
  <2>5. (intake \in [streaming : BOOLEAN, queue : Seq(0 .. MaxChunks), eof : BOOLEAN,
                     sequence : 0 .. MaxChunks + 1, received : 0 .. MaxChunks, error : BOOLEAN])'
    BY <1>5, NoTypes
  <2>6. (session \in [state : States, cancelled : BOOLEAN, eof : BOOLEAN,
                      input : Seq(1 .. MaxChunks)])'
    BY <1>5, NoTypes
  <2>7. (feeder \in {"off", "next", "pause"})'
    BY <1>5, <1>1 DEF TypeOK
  <2>8. (feedError \in BOOLEAN)'
    BY <1>5, <1>1, Zenon DEF TypeOK
  <2> HIDE DEF Runs
  <2>9. Streams'
    BY <2>5, <2>6, <2>7, <2>8 DEF Streams
  <2>10. Tables'
    BY <1>1, <1>6 DEF Tables
  <2>11. (Scalars /\ host \in {"starting", "ready", "failed", "disposed"})'
    BY <1>1, TypeParts, <1>6, <1>7, <2>1, <2>2, <2>3, <2>4 DEF Scalars
  <2> QED
    BY <1>7, <2>9, <2>10, <2>11, TypeWhole
<1>9. Lifecycle'
  <2>1. (~up => toWorker = <<>> /\ job = 0)'
    BY <1>1, <1>5, <1>2, <1>4, <1>6, Zenon DEF Lifecycle, DropsWork, Scalars
  <2>2. (host \in {"failed", "disposed"} => ~up /\ toHost = <<>>)'
    BY <1>1, <1>5, <1>3, <1>4, <1>6, Zenon DEF Lifecycle, DropsNews, Scalars
  <2>3. (Work("init") # {} =>
           Len(toWorker) = 1 /\ host = "starting" /\ News({"ready"}) = {} /\ News({"initError"}) = {})'
    BY <1>1, <1>5, <1>2, <1>3, <1>4, <1>6, Zenon DEF Lifecycle, DropsWork, DropsNews, Scalars
  <2>4. (News({"initError"}) # {} => host = "starting" /\ News({"ready"}) = {})'
    BY <1>1, <1>5, <1>3, <1>4, <1>6, Zenon DEF Lifecycle, DropsNews, Scalars
  <2>5. (host = "ready" \/ News({"ready"}) # {} => (up => runtime))'
    BY <1>1, <1>5, <1>3, <1>4, <1>6, Zenon DEF Lifecycle, DropsNews, Scalars
  <2> QED
    BY <2>1, <2>2, <2>3, <2>4, <2>5 DEF Lifecycle
<1>10. OnePlace'
  <2>1. (active # 0 => host = "ready" /\ nextId = active + 1)'
    BY <1>1, <1>5, <1>4, <1>6, Zenon DEF OnePlace
  <2>2. (lastId < nextId)'
    BY <1>6 DEF OnePlace
  <2>3. (\A i \in Work("run") : toWorker[i].id = active)'
    BY <1>2, <1>6 DEF OnePlace, DropsWork
  <2>4. (Work("run") # {} =>
           active # 0 /\ lastId < active /\ outcome[active] = "no" /\ job = 0 /\ Answers = {})'
    BY <1>1, <1>5, <1>2, <1>3, <1>4, <1>6, Zenon DEF OnePlace, DropsWork, DropsNews, Answers, Scalars
  <2>5. (job # 0 => job = active /\ outcome[active] = "no" /\ Answers = {})'
    BY <1>1, <1>5, <1>3, <1>4, <1>6, Zenon DEF OnePlace, DropsNews, Answers, Scalars
  <2>6. (\A k \in Answers : toHost[k].id = active)'
    BY <1>3, <1>6 DEF OnePlace, DropsNews, Answers
  <2>7. (Answers # {} => active # 0 /\ outcome[active] # "no")'
    BY <1>3, <1>6 DEF OnePlace, DropsNews, Answers
  <2> QED
    BY <2>1, <2>2, <2>3, <2>4, <2>5, <2>6, <2>7 DEF OnePlace
<1>11. Single'
  BY <1>2, <1>3, <1>6 DEF Single, DropsWork, DropsNews, Answers
<1>12. Ledger'
  <2>1. (\A q \in Runs : settled[q] # "no" <=> q < nextId /\ q # active)'
    BY <1>6 DEF Ledger
  <2>2. (\A q \in Runs : q >= nextId => outcome[q] = "no")'
    BY <1>6 DEF Ledger
  <2>3. (\A q \in Runs : settled[q] \notin {"no", "crashed"} => outcome[q] # "no")'
    BY <1>6 DEF Ledger
  <2>4. (\A q \in Runs : settled[q] = "crashed" => ~up /\ host = "disposed")'
    BY <1>1, <1>5, <1>4, <1>6, Zenon DEF Ledger
  <2> QED
    BY <2>1, <2>2, <2>3, <2>4 DEF Ledger
<1>13. Counting'
  <2>1. (\A q \in Runs : pump[q] = "next" => ~ended[q] /\ sequence[q] = chunks[q])'
    BY <1>6 DEF Counting
  <2>2. (\A q \in Runs : pump[q] = "ack" => ended[q] \/ sequence[q] = chunks[q])'
    BY <1>6 DEF Counting
  <2>3. (\A q \in Runs : q >= nextId => sequence[q] = 0)'
    BY <1>6 DEF Counting
  <2>4. (\A i \in Work("input") : toWorker[i].eof \/ toWorker[i].sequence <= MaxChunks)'
    BY <1>2, <1>6, Zenon DEF Counting, DropsWork
  <2>5. (intake.received <= intake.sequence)'
    BY <1>1, <1>5, <1>4, <1>6 DEF Counting, NoIntake
  <2> QED
    BY <2>1, <2>2, <2>3, <2>4, <2>5, Zenon DEF Counting
<1>14. PumpReleased'
  BY <1>6 DEF PumpReleased
<1>15. Blame'
  <2>1. (\A i \in Work("cancel") : aborted[toWorker[i].id] \/ inputError[toWorker[i].id])'
    BY <1>2, <1>6, Zenon DEF Blame, DropsWork
  <2>2. (job # 0 /\ session.cancelled =>
           aborted[job] \/ inputError[job] \/ intake.error \/ feedError)'
    BY <1>1, <1>5, <1>4, <1>6, Zenon DEF Blame, Scalars, NoIntake, NoSession
  <2> QED
    BY <2>1, <2>2 DEF Blame
<1>16. CancelledOnlyIfAsked'
  BY <1>6 DEF CancelledOnlyIfAsked
<1> QED
  BY <1>8, <1>9, <1>10, <1>11, <1>12, <1>13, <1>14, <1>15, <1>16

\* result: the answer is that of the active run, which is settled.
LEMMA OnResultStep ==
  ASSUME IInv, OnResult
  PROVE  IInv'
<1> USE CommandAssumption DEF IInv, Runs
<1>1. Scalars /\ Tables
  BY TypeParts
<1>2. KeepsWork
  BY SameQueues DEF OnResult, workerVars
<1>3. TakesNews
  BY TookNews DEF OnResult, Received
<1>4. 1 \in Answers
  BY <1>3 DEF OnResult, Received, TakesNews, Answers
<1>5. toHost[1].id = active /\ active \in Runs /\ outcome[active] # "no"
  BY <1>1, <1>4 DEF OnePlace, Scalars
<1>6. job = 0 /\ Work("run") = {}
  BY <1>4 DEF OnePlace
<1>7. Answers' = {}
  BY <1>3, <1>4 DEF Single, TakesNews, Answers
<1>8. toHost[1].outcome \in TerminalStates /\ toHost[1].outcome \notin {"no", "crashed"}
  BY <1>3, NewsKinds, Zenon DEF OnResult, Received, TakesNews, TerminalStates
<1>9.
     /\ toHost # <<>>
     /\ toHost[1].type = "result"
     /\ toHost[1].outcome \in TerminalStates
     /\ active \in Runs
     /\ outcome[active] # "no"
     /\ job = 0
     /\ Work("run") = {}
     /\ Answers' = {}
     /\ settled' = [settled EXCEPT ![active] = IF inputError[active] THEN "inputError" ELSE toHost[1].outcome]
     /\ active' = 0
     /\ pump' = [pump EXCEPT ![active] = IF @ = "ack" THEN "off" ELSE @]
  BY <1>1, <1>2, <1>3, <1>4, <1>5, <1>6, <1>7, <1>8 DEF OnResult, Received, Settle, Idle,
     TakesNews, hostVars, workerVars, engineVars
<1>10. UNCHANGED <<host, nextId, aborted, chunks, sequence, ended, inputError, up, runtime, job,
                   lastId, intake, session, feeder, feedError, outcome>>
  BY Zenon DEF OnResult, Received, Settle, Idle, TakesNews, hostVars, workerVars, engineVars
<1>11. toWorker' \in Seq(ToWorker) /\ toHost' \in Seq(ToHost)
  BY <1>1, <1>2, <1>3, <1>4, <1>5, <1>6, <1>7, <1>8, <1>9, <1>10, Zenon DEF TypeOK, KeepsWork, TakesNews
<1>12. TypeOK'
  <2>1. (active \in 0 .. MaxRuns)'
    BY <1>9, <1>1, <1>2, <1>3, NewsKinds, Zenon DEF Scalars, Tables, TakesNews
  <2>2. (pump \in [Runs -> {"off", "next", "ack"}])'
    BY <1>9, <1>1, <1>2, <1>3, NewsKinds, Zenon DEF Scalars, Tables, TakesNews
  <2>3. (settled \in [Runs -> Settlements])'
    BY <1>9, <1>1, <1>2, <1>3, NewsKinds, Zenon DEF Scalars, Tables, Settlements, Ends, TakesNews
  <2> HIDE DEF Runs
  <2>4. Streams'
    BY TypeParts, <1>10 DEF Streams
  <2>5. Tables'
    BY <1>1, <1>10, <2>2, <2>3 DEF Tables
  <2>6. (Scalars /\ host \in {"starting", "ready", "failed", "disposed"})'
    BY <1>1, TypeParts, <1>10, <1>11, <2>1 DEF Scalars
  <2> QED
    BY <1>11, <2>4, <2>5, <2>6, TypeWhole
<1>13. Lifecycle'
  <2>1. (~up => toWorker = <<>> /\ job = 0)'
    BY <1>2, <1>10, Zenon DEF Lifecycle, KeepsWork
  <2>2. (host \in {"failed", "disposed"} => ~up /\ toHost = <<>>)'
    BY <1>4, <1>10, Zenon DEF OnePlace
  <2>3. (Work("init") # {} =>
           Len(toWorker) = 1 /\ host = "starting" /\ News({"ready"}) = {} /\ News({"initError"}) = {})'
    BY <1>2, <1>3, <1>10, Zenon DEF Lifecycle, KeepsWork, TakesNews
  <2>4. (News({"initError"}) # {} => host = "starting" /\ News({"ready"}) = {})'
    BY <1>3, <1>10, Zenon DEF Lifecycle, TakesNews
  <2>5. (host = "ready" \/ News({"ready"}) # {} => (up => runtime))'
    BY <1>3, <1>10, Zenon DEF Lifecycle, TakesNews
  <2> QED
    BY <2>1, <2>2, <2>3, <2>4, <2>5 DEF Lifecycle
<1>14. OnePlace'
  <2>1. (active # 0 => host = "ready" /\ nextId = active + 1)'
    BY <1>9, Zenon
  <2>2. (lastId < nextId)'
    BY <1>10, Zenon DEF OnePlace
  <2>3. (\A i \in Work("run") : toWorker[i].id = active)'
    BY <1>2, <1>6, Zenon DEF KeepsWork
  <2>4. (Work("run") # {} =>
           active # 0 /\ lastId < active /\ outcome[active] = "no" /\ job = 0 /\ Answers = {})'
    BY <1>2, <1>6, Zenon DEF KeepsWork
  <2>5. (job # 0 => job = active /\ outcome[active] = "no" /\ Answers = {})'
    BY <1>6, <1>10, Zenon
  <2>6. (\A k \in Answers : toHost[k].id = active)'
    BY <1>7, Zenon
  <2>7. (Answers # {} => active # 0 /\ outcome[active] # "no")'
    BY <1>7, Zenon
  <2> QED
    BY <2>1, <2>2, <2>3, <2>4, <2>5, <2>6, <2>7 DEF OnePlace
<1>15. Single'
  BY <1>2, <1>7, Zenon DEF Single, KeepsWork
<1>16. Ledger'
  <2>1. (\A q \in Runs : settled[q] # "no" <=> q < nextId /\ q # active)'
    BY <1>1, <1>9, <1>4, <1>5, <1>6, <1>7, <1>8, <1>10, SMT, Z3 DEF Ledger, Tables, Scalars
  <2>2. (\A q \in Runs : q >= nextId => outcome[q] = "no")'
    BY <1>10, Zenon DEF Ledger
  <2>3. (\A q \in Runs : settled[q] \notin {"no", "crashed"} => outcome[q] # "no")'
    BY <1>1, <1>9, <1>4, <1>5, <1>6, <1>7, <1>8, <1>10, Zenon DEF Ledger, Tables
  <2>4. (\A q \in Runs : settled[q] = "crashed" => ~up /\ host = "disposed")'
    BY <1>1, <1>9, <1>4, <1>5, <1>6, <1>7, <1>8, <1>10, Zenon DEF Ledger, Tables
  <2> QED
    BY <2>1, <2>2, <2>3, <2>4 DEF Ledger
<1>17. Counting'
  <2>1. (\A q \in Runs : pump[q] = "next" => ~ended[q] /\ sequence[q] = chunks[q])'
    BY <1>1, <1>9, <1>4, <1>5, <1>6, <1>7, <1>8, <1>10, Zenon DEF Counting, Tables
  <2>2. (\A q \in Runs : pump[q] = "ack" => ended[q] \/ sequence[q] = chunks[q])'
    BY <1>1, <1>9, <1>4, <1>5, <1>6, <1>7, <1>8, <1>10, Zenon DEF Counting, Tables
  <2>3. (\A q \in Runs : q >= nextId => sequence[q] = 0)'
    BY <1>10, Zenon DEF Counting
  <2>4. (\A i \in Work("input") : toWorker[i].eof \/ toWorker[i].sequence <= MaxChunks)'
    BY <1>2, <1>10 DEF Counting, KeepsWork
  <2>5. (intake.received <= intake.sequence)'
    BY <1>10, Zenon DEF Counting
  <2> QED
    BY <2>1, <2>2, <2>3, <2>4, <2>5 DEF Counting
<1>18. PumpReleased'
  BY <1>1, <1>9, <1>4, <1>5, <1>6, <1>7, <1>8, <1>10 DEF PumpReleased, Tables, Scalars
<1>19. Blame'
  BY <1>2, <1>10, Zenon DEF Blame, KeepsWork
<1>20. CancelledOnlyIfAsked'
  BY <1>10 DEF CancelledOnlyIfAsked
<1> QED
  BY <1>12, <1>13, <1>14, <1>15, <1>16, <1>17, <1>18, <1>19, <1>20

\* error: likewise.
LEMMA OnErrorStep ==
  ASSUME IInv, OnError
  PROVE  IInv'
<1> USE CommandAssumption DEF IInv, Runs
<1>1. Scalars /\ Tables
  BY TypeParts
<1>2. KeepsWork
  BY SameQueues DEF OnError, workerVars
<1>3. TakesNews
  BY TookNews DEF OnError, Received
<1>4. 1 \in Answers
  BY <1>3, Zenon DEF OnError, Received, TakesNews, Answers
<1>5. toHost[1].id = active /\ active \in Runs /\ outcome[active] # "no"
  BY <1>1, <1>4 DEF OnePlace, Scalars
<1>6. job = 0 /\ Work("run") = {}
  BY <1>4 DEF OnePlace
<1>7. Answers' = {}
  BY <1>3, <1>4 DEF Single, TakesNews, Answers
<1>8.
     /\ toHost # <<>>
     /\ toHost[1].type = "error"
     /\ active \in Runs
     /\ outcome[active] # "no"
     /\ job = 0
     /\ Work("run") = {}
     /\ Answers' = {}
     /\ settled' = [settled EXCEPT ![active] = "error"]
     /\ active' = 0
     /\ pump' = [pump EXCEPT ![active] = IF @ = "ack" THEN "off" ELSE @]
  BY <1>1, <1>2, <1>3, <1>4, <1>5, <1>6, <1>7 DEF OnError, Received, Settle, Idle, TakesNews,
     hostVars, workerVars, engineVars
<1>9. UNCHANGED <<host, nextId, aborted, chunks, sequence, ended, inputError, up, runtime, job,
                  lastId, intake, session, feeder, feedError, outcome>>
  BY Zenon DEF OnError, Received, Settle, Idle, TakesNews, hostVars, workerVars, engineVars
<1>10. toWorker' \in Seq(ToWorker) /\ toHost' \in Seq(ToHost)
  BY <1>1, <1>2, <1>3, <1>4, <1>5, <1>6, <1>7, <1>8, <1>9, Zenon DEF TypeOK, KeepsWork, TakesNews
<1>11. TypeOK'
  <2>1. (active \in 0 .. MaxRuns)'
    BY <1>8, <1>1, <1>2, <1>3, NewsKinds, Zenon DEF Scalars, Tables, TakesNews
  <2>2. (pump \in [Runs -> {"off", "next", "ack"}])'
    BY <1>8, <1>1, <1>2, <1>3, NewsKinds, Zenon DEF Scalars, Tables, TakesNews
  <2>3. (settled \in [Runs -> Settlements])'
    BY <1>8, <1>1, <1>2, <1>3, NewsKinds, Zenon DEF Scalars, Tables, Settlements, Ends, TakesNews
  <2> HIDE DEF Runs
  <2>4. Streams'
    BY TypeParts, <1>9 DEF Streams
  <2>5. Tables'
    BY <1>1, <1>9, <2>2, <2>3 DEF Tables
  <2>6. (Scalars /\ host \in {"starting", "ready", "failed", "disposed"})'
    BY <1>1, TypeParts, <1>9, <1>10, <2>1 DEF Scalars
  <2> QED
    BY <1>10, <2>4, <2>5, <2>6, TypeWhole
<1>12. Lifecycle'
  <2>1. (~up => toWorker = <<>> /\ job = 0)'
    BY <1>2, <1>9 DEF Lifecycle, KeepsWork
  <2>2. (host \in {"failed", "disposed"} => ~up /\ toHost = <<>>)'
    BY <1>4, <1>9, Zenon DEF OnePlace
  <2>3. (Work("init") # {} =>
           Len(toWorker) = 1 /\ host = "starting" /\ News({"ready"}) = {} /\ News({"initError"}) = {})'
    BY <1>2, <1>3, <1>9, Zenon DEF Lifecycle, KeepsWork, TakesNews
  <2>4. (News({"initError"}) # {} => host = "starting" /\ News({"ready"}) = {})'
    BY <1>3, <1>9, Zenon DEF Lifecycle, TakesNews
  <2>5. (host = "ready" \/ News({"ready"}) # {} => (up => runtime))'
    BY <1>3, <1>9, Zenon DEF Lifecycle, TakesNews
  <2> QED
    BY <2>1, <2>2, <2>3, <2>4, <2>5 DEF Lifecycle
<1>13. OnePlace'
  <2>1. (active # 0 => host = "ready" /\ nextId = active + 1)'
    BY <1>8, Zenon
  <2>2. (lastId < nextId)'
    BY <1>9, SMT, Z3 DEF OnePlace
  <2>3. (\A i \in Work("run") : toWorker[i].id = active)'
    BY <1>2, <1>6, Zenon DEF KeepsWork
  <2>4. (Work("run") # {} =>
           active # 0 /\ lastId < active /\ outcome[active] = "no" /\ job = 0 /\ Answers = {})'
    BY <1>2, <1>6, Zenon DEF KeepsWork
  <2>5. (job # 0 => job = active /\ outcome[active] = "no" /\ Answers = {})'
    BY <1>6, <1>9, Zenon
  <2>6. (\A k \in Answers : toHost[k].id = active)'
    BY <1>7, Zenon
  <2>7. (Answers # {} => active # 0 /\ outcome[active] # "no")'
    BY <1>7, Zenon
  <2> QED
    BY <2>1, <2>2, <2>3, <2>4, <2>5, <2>6, <2>7 DEF OnePlace
<1>14. Single'
  BY <1>2, <1>7, Zenon DEF Single, KeepsWork
<1>15. Ledger'
  <2>1. (\A q \in Runs : settled[q] # "no" <=> q < nextId /\ q # active)'
    BY <1>1, <1>8, <1>4, <1>5, <1>6, <1>7, <1>9 DEF Ledger, Tables, Scalars
  <2>2. (\A q \in Runs : q >= nextId => outcome[q] = "no")'
    BY <1>9 DEF Ledger
  <2>3. (\A q \in Runs : settled[q] \notin {"no", "crashed"} => outcome[q] # "no")'
    BY <1>1, <1>8, <1>4, <1>5, <1>6, <1>7, <1>9, Zenon DEF Ledger, Tables
  <2>4. (\A q \in Runs : settled[q] = "crashed" => ~up /\ host = "disposed")'
    BY <1>1, <1>8, <1>4, <1>5, <1>6, <1>7, <1>9, Zenon DEF Ledger, Tables
  <2> QED
    BY <2>1, <2>2, <2>3, <2>4 DEF Ledger
<1>16. Counting'
  <2>1. (\A q \in Runs : pump[q] = "next" => ~ended[q] /\ sequence[q] = chunks[q])'
    BY <1>1, <1>8, <1>4, <1>5, <1>6, <1>7, <1>9, Zenon DEF Counting, Tables
  <2>2. (\A q \in Runs : pump[q] = "ack" => ended[q] \/ sequence[q] = chunks[q])'
    BY <1>1, <1>8, <1>4, <1>5, <1>6, <1>7, <1>9, Zenon DEF Counting, Tables
  <2>3. (\A q \in Runs : q >= nextId => sequence[q] = 0)'
    BY <1>9 DEF Counting
  <2>4. (\A i \in Work("input") : toWorker[i].eof \/ toWorker[i].sequence <= MaxChunks)'
    BY <1>2, <1>9 DEF Counting, KeepsWork
  <2>5. (intake.received <= intake.sequence)'
    BY <1>9 DEF Counting
  <2> QED
    BY <2>1, <2>2, <2>3, <2>4, <2>5 DEF Counting
<1>17. PumpReleased'
  BY <1>1, <1>8, <1>4, <1>5, <1>6, <1>7, <1>9, Zenon DEF PumpReleased, Tables, Scalars
<1>18. Blame'
  BY <1>2, <1>9, Zenon DEF Blame, KeepsWork
<1>19. CancelledOnlyIfAsked'
  BY <1>9 DEF CancelledOnlyIfAsked
<1> QED
  BY <1>11, <1>12, <1>13, <1>14, <1>15, <1>16, <1>17, <1>18, <1>19

\* ack: the input loop that waits goes on or ends.
LEMMA OnAckStep ==
  ASSUME IInv, OnAck
  PROVE  IInv'
<1> USE CommandAssumption DEF IInv, Runs
<1>1. Scalars /\ Tables
  BY TypeParts
<1>2. KeepsWork
  BY SameQueues DEF OnAck, workerVars
<1>3. TakesNews
  BY TookNews DEF OnAck, Received
<1>4.
     /\ toHost # <<>>
     /\ toHost[1].type = "ack"
     /\ \/ UNCHANGED pump
        \/ /\ active = toHost[1].id /\ pump[toHost[1].id] = "ack"
           /\ pump' = [pump EXCEPT ![toHost[1].id] = IF ended[toHost[1].id] THEN "off" ELSE "next"]
  BY <1>1, <1>2, <1>3, Zenon DEF OnAck, Received, TakesNews, hostVars, workerVars, engineVars
<1>5. UNCHANGED <<host, active, nextId, aborted, chunks, sequence, ended, inputError, settled,
                  up, runtime, job, lastId, intake, session, feeder, feedError, outcome>>
  BY Zenon DEF OnAck, Received, TakesNews, hostVars, workerVars, engineVars
<1>6. toWorker' \in Seq(ToWorker) /\ toHost' \in Seq(ToHost)
  BY <1>1, <1>2, <1>3, <1>4, <1>5 DEF TypeOK, KeepsWork, TakesNews
<1>7. TypeOK'
  <2>1. (pump \in [Runs -> {"off", "next", "ack"}])'
    BY <1>4, <1>1, <1>2, <1>3, NewsKinds, Zenon DEF Scalars, Tables, TakesNews
  <2> HIDE DEF Runs
  <2>2. Streams'
    BY TypeParts, <1>5 DEF Streams
  <2>3. Tables'
    BY <1>1, <1>5, <2>1 DEF Tables
  <2>4. (Scalars /\ host \in {"starting", "ready", "failed", "disposed"})'
    BY <1>1, TypeParts, <1>5, <1>6 DEF Scalars
  <2> QED
    BY <1>6, <2>2, <2>3, <2>4, TypeWhole
<1>8. Lifecycle'
  <2>1. (~up => toWorker = <<>> /\ job = 0)'
    BY <1>2, <1>5, Zenon DEF Lifecycle, KeepsWork
  <2>2. (host \in {"failed", "disposed"} => ~up /\ toHost = <<>>)'
    BY <1>1, <1>4, <1>3, <1>5, Zenon DEF Lifecycle, OnePlace, TakesNews, Scalars
  <2>3. (Work("init") # {} =>
           Len(toWorker) = 1 /\ host = "starting" /\ News({"ready"}) = {} /\ News({"initError"}) = {})'
    BY <1>2, <1>3, <1>5, Zenon DEF Lifecycle, KeepsWork, TakesNews
  <2>4. (News({"initError"}) # {} => host = "starting" /\ News({"ready"}) = {})'
    BY <1>3, <1>5, Zenon DEF Lifecycle, TakesNews
  <2>5. (host = "ready" \/ News({"ready"}) # {} => (up => runtime))'
    BY <1>3, <1>5, Zenon DEF Lifecycle, TakesNews
  <2> QED
    BY <2>1, <2>2, <2>3, <2>4, <2>5 DEF Lifecycle
<1>9. OnePlace'
  <2>1. \A k \in Answers' : k + 1 \in Answers /\ toHost'[k] = toHost[k + 1]
    BY <1>3, Zenon DEF TakesNews, Answers
  <2>2. Work("run")' = Work("run") /\ toWorker' = toWorker
    BY <1>2, Zenon DEF KeepsWork
  <2>3. (\A k \in Answers : toHost[k].id = active)'
    BY <1>5, <2>1, Zenon DEF OnePlace
  <2>4. (/\ job # 0 => job = active /\ outcome[active] = "no" /\ Answers = {}
         /\ Answers # {} => active # 0 /\ outcome[active] # "no")'
    BY <1>5, <2>1, Zenon DEF OnePlace
  <2>5. (/\ \A i \in Work("run") : toWorker[i].id = active
         /\ Work("run") # {} => /\ active # 0 /\ lastId < active /\ outcome[active] = "no"
                                /\ job = 0 /\ Answers = {})'
    BY <1>5, <2>1, <2>2, Zenon DEF OnePlace
  <2>6. (/\ active # 0 => host = "ready" /\ nextId = active + 1
         /\ lastId < nextId)'
    BY <1>5, Zenon DEF OnePlace
  <2> QED
    BY <2>3, <2>4, <2>5, <2>6, Zenon DEF OnePlace
<1>10. Single'
  BY <1>2, <1>3, <1>5 DEF Single, KeepsWork, TakesNews, Answers
<1>11. Ledger'
  BY <1>5 DEF Ledger
<1>12. Counting'
  <2>1. (\A q \in Runs : pump[q] = "next" => ~ended[q] /\ sequence[q] = chunks[q])'
    BY <1>1, <1>4, <1>5, Zenon DEF Counting, Tables
  <2>2. (\A q \in Runs : pump[q] = "ack" => ended[q] \/ sequence[q] = chunks[q])'
    BY <1>1, <1>4, <1>5, Zenon DEF Counting, Tables
  <2>3. (\A q \in Runs : q >= nextId => sequence[q] = 0)'
    BY <1>5, Zenon DEF Counting
  <2>4. (\A i \in Work("input") : toWorker[i].eof \/ toWorker[i].sequence <= MaxChunks)'
    BY <1>2, <1>5, Zenon DEF Counting, KeepsWork
  <2>5. (intake.received <= intake.sequence)'
    BY <1>5 DEF Counting
  <2> QED
    BY <2>1, <2>2, <2>3, <2>4, <2>5 DEF Counting
<1>13. PumpReleased'
  BY <1>1, <1>4, <1>5, Zenon DEF PumpReleased, Tables
<1>14. Blame'
  BY <1>2, <1>5 DEF Blame, KeepsWork
<1>15. CancelledOnlyIfAsked'
  BY <1>5 DEF CancelledOnlyIfAsked
<1> QED
  BY <1>7, <1>8, <1>9, <1>10, <1>11, <1>12, <1>13, <1>14, <1>15

\* failAll settles the open run and takes the worker away.
LEMMA FailAllStep ==
  ASSUME IInv, FailAll
  PROVE  IInv'
<1> USE CommandAssumption DEF IInv, Runs
<1>1. Scalars /\ Tables
  BY TypeParts
<1>2. DropsWork
  BY SameQueues DEF FailAll, Terminate
<1>3. DropsNews
  BY SameQueues DEF FailAll, Terminate
<1>4.
     /\ host' = IF host = "starting" THEN "failed" ELSE "disposed"
     /\ IF active # 0 THEN
          /\ settled' = [settled EXCEPT ![active] = "crashed"]
          /\ active' = 0
          /\ pump' = [pump EXCEPT ![active] = IF @ = "ack" THEN "off" ELSE @]
        ELSE UNCHANGED <<settled, active, pump>>
     /\ up' = FALSE
     /\ runtime' = FALSE
     /\ job' = 0
     /\ intake' = NoIntake
     /\ session' = NoSession
     /\ feedError' = FALSE
     /\ feeder' = "off"
  BY <1>1, <1>2, <1>3 DEF FailAll, Terminate, Settle, Idle, hostVars, workerVars, engineVars
<1>5. UNCHANGED <<nextId, aborted, chunks, sequence, ended, inputError, lastId, outcome>>
  BY Zenon DEF FailAll, Terminate, Settle, Idle, hostVars, workerVars, engineVars
<1>6. toWorker' \in Seq(ToWorker) /\ toHost' \in Seq(ToHost)
  BY <1>1, <1>2, <1>3, <1>4, <1>5, SMT, Z3 DEF TypeOK, DropsWork, DropsNews
<1>7. TypeOK'
  <2>1. (host \in {"starting", "ready", "failed", "disposed"})'
    BY <1>4, <1>1 DEF TypeOK
  <2>2. (active \in 0 .. MaxRuns)'
    BY <1>4, <1>1 DEF Scalars, Tables
  <2>3. (pump \in [Runs -> {"off", "next", "ack"}])'
    BY <1>4, <1>1, SMT, Z3 DEF Scalars, Tables
  <2>4. (settled \in [Runs -> Settlements])'
    BY <1>4, <1>1, Zenon DEF Scalars, Tables, Settlements, Ends
  <2>5. (up \in BOOLEAN)'
    BY <1>4, <1>1, Zenon DEF Scalars, Tables
  <2>6. (runtime \in BOOLEAN)'
    BY <1>4, <1>1, Zenon DEF Scalars, Tables
  <2>7. (job \in 0 .. MaxRuns)'
    BY <1>4, <1>1 DEF Scalars, Tables
  <2>8. (intake \in [streaming : BOOLEAN, queue : Seq(0 .. MaxChunks), eof : BOOLEAN,
                     sequence : 0 .. MaxChunks + 1, received : 0 .. MaxChunks, error : BOOLEAN])'
    BY <1>4, NoTypes
  <2>9. (session \in [state : States, cancelled : BOOLEAN, eof : BOOLEAN,
                      input : Seq(1 .. MaxChunks)])'
    BY <1>4, NoTypes
  <2>10. (feeder \in {"off", "next", "pause"})'
    BY <1>4, <1>1 DEF TypeOK
  <2>11. (feedError \in BOOLEAN)'
    BY <1>4, <1>1, Zenon DEF TypeOK
  <2> HIDE DEF Runs
  <2>12. Streams'
    BY <2>8, <2>9, <2>10, <2>11 DEF Streams
  <2>13. Tables'
    BY <1>1, <1>5, <2>3, <2>4 DEF Tables
  <2>14. (Scalars /\ host \in {"starting", "ready", "failed", "disposed"})'
    BY <1>1, TypeParts, <1>5, <1>6, <2>1, <2>2, <2>5, <2>6, <2>7, SMT, Z3 DEF Scalars
  <2> QED
    BY <1>6, <2>12, <2>13, <2>14, TypeWhole
<1>8. Lifecycle'
  <2>1. (~up => toWorker = <<>> /\ job = 0)'
    BY <1>1, <1>4, <1>2, <1>5 DEF Lifecycle, DropsWork, Scalars
  <2>2. (host \in {"failed", "disposed"} => ~up /\ toHost = <<>>)'
    BY <1>1, <1>4, <1>3, <1>5, Zenon DEF Lifecycle, DropsNews, Scalars
  <2>3. (Work("init") # {} =>
           Len(toWorker) = 1 /\ host = "starting" /\ News({"ready"}) = {} /\ News({"initError"}) = {})'
    BY <1>1, <1>4, <1>2, <1>3, <1>5 DEF Lifecycle, DropsWork, DropsNews, Scalars
  <2>4. (News({"initError"}) # {} => host = "starting" /\ News({"ready"}) = {})'
    BY <1>1, <1>4, <1>3, <1>5, Zenon DEF Lifecycle, DropsNews, Scalars
  <2>5. (host = "ready" \/ News({"ready"}) # {} => (up => runtime))'
    BY <1>1, <1>4, <1>3, <1>5, Zenon DEF Lifecycle, DropsNews, Scalars
  <2> QED
    BY <2>1, <2>2, <2>3, <2>4, <2>5 DEF Lifecycle
<1>9. OnePlace'
  <2>1. (active # 0 => host = "ready" /\ nextId = active + 1)'
    BY <1>1, <1>4, <1>5, Zenon DEF OnePlace, Scalars
  <2>2. (lastId < nextId)'
    BY <1>5, Zenon DEF OnePlace
  <2>3. (\A i \in Work("run") : toWorker[i].id = active)'
    BY <1>1, <1>4, <1>2, <1>5, Zenon DEF OnePlace, DropsWork, Scalars
  <2>4. (Work("run") # {} =>
           active # 0 /\ lastId < active /\ outcome[active] = "no" /\ job = 0 /\ Answers = {})'
    BY <1>1, <1>4, <1>2, <1>3, <1>5, Zenon DEF OnePlace, DropsWork, DropsNews, Answers, Scalars
  <2>5. (job # 0 => job = active /\ outcome[active] = "no" /\ Answers = {})'
    BY <1>1, <1>4, <1>3, <1>5, Zenon DEF OnePlace, DropsNews, Answers, Scalars
  <2>6. (\A k \in Answers : toHost[k].id = active)'
    BY <1>1, <1>4, <1>3, <1>5, Zenon DEF OnePlace, DropsNews, Answers, Scalars
  <2>7. (Answers # {} => active # 0 /\ outcome[active] # "no")'
    BY <1>1, <1>4, <1>3, <1>5 DEF OnePlace, DropsNews, Answers, Scalars
  <2> QED
    BY <2>1, <2>2, <2>3, <2>4, <2>5, <2>6, <2>7 DEF OnePlace
<1>10. Single'
  BY <1>2, <1>3, <1>5, Zenon DEF Single, DropsWork, DropsNews, Answers
<1>11. Ledger'
  <2>1. (\A q \in Runs : settled[q] # "no" <=> q < nextId /\ q # active)'
    BY <1>1, <1>4, <1>5, SMT, Z3 DEF Ledger, OnePlace, Lifecycle, Answers, Tables, Scalars
  <2>2. (\A q \in Runs : q >= nextId => outcome[q] = "no")'
    BY <1>5 DEF Ledger
  <2>3. (\A q \in Runs : settled[q] \notin {"no", "crashed"} => outcome[q] # "no")'
    BY <1>1, <1>4, <1>5, Zenon DEF Ledger, Tables
  <2>4. (\A q \in Runs : settled[q] = "crashed" => ~up /\ host = "disposed")'
    BY <1>1, <1>4, <1>5 DEF Ledger, OnePlace, Lifecycle, Answers, Tables
  <2> QED
    BY <2>1, <2>2, <2>3, <2>4 DEF Ledger
<1>12. Counting'
  <2>1. (\A q \in Runs : pump[q] = "next" => ~ended[q] /\ sequence[q] = chunks[q])'
    BY <1>1, <1>4, <1>5, ZenonT(60) DEF Counting, Tables
  <2>2. (\A q \in Runs : pump[q] = "ack" => ended[q] \/ sequence[q] = chunks[q])'
    BY <1>1, <1>4, <1>5, Zenon DEF Counting, Tables
  <2>3. (\A q \in Runs : q >= nextId => sequence[q] = 0)'
    BY <1>5 DEF Counting
  <2>4. (\A i \in Work("input") : toWorker[i].eof \/ toWorker[i].sequence <= MaxChunks)'
    BY <1>2, <1>5 DEF Counting, DropsWork
  <2>5. (intake.received <= intake.sequence)'
    BY <1>1, <1>4, <1>5 DEF Counting, NoIntake
  <2> QED
    BY <2>1, <2>2, <2>3, <2>4, <2>5 DEF Counting
<1>13. PumpReleased'
  BY <1>1, <1>4, <1>5, Zenon DEF PumpReleased, Tables, Scalars
<1>14. Blame'
  <2>1. (\A i \in Work("cancel") : aborted[toWorker[i].id] \/ inputError[toWorker[i].id])'
    BY <1>2, <1>5, ZenonT(60) DEF Blame, DropsWork
  <2>2. (job # 0 /\ session.cancelled =>
           aborted[job] \/ inputError[job] \/ intake.error \/ feedError)'
    BY <1>1, <1>4, <1>5, Zenon DEF Blame, Scalars, NoIntake, NoSession
  <2> QED
    BY <2>1, <2>2 DEF Blame
<1>15. CancelledOnlyIfAsked'
  BY <1>5 DEF CancelledOnlyIfAsked
<1> QED
  BY <1>7, <1>8, <1>9, <1>10, <1>11, <1>12, <1>13, <1>14, <1>15
=============================================================================
