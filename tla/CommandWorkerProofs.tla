------------------------ MODULE CommandWorkerProofs -------------------------
(***************************************************************************)
(* Proofs about CommandWorker, for any number of runs, any sizes of their  *)
(* inputs and any limit: the actions of the worker's thread keep the       *)
(* invariant too, and from it follow the safety properties and the         *)
(* implementation of JobService.                                           *)
(***************************************************************************)
EXTENDS CommandHostSteps

-----------------------------------------------------------------------------
(* The actions of the worker's thread.                                     *)

\* init: the worker reports once whether it has a runtime.
LEMMA OnInitStep ==
  ASSUME IInv, NEW ok \in BOOLEAN, OnInit(ok)
  PROVE  IInv'
<1> USE CommandAssumption DEF IInv, Runs
<1>1. Scalars /\ Tables
  BY TypeParts
<1> DEFINE m == [type |-> (IF ok THEN "ready" ELSE "initError")]
<1>2. TakesWork
  BY TookWork DEF OnInit, Arrived
<1>3. m \in ToHost /\ m.type = (IF ok THEN "ready" ELSE "initError") /\ m.type \notin {"result", "error"}
  BY <1>2, WorkKinds DEF OnInit, ToHost, Arrived, TakesWork
<1>4. Sends(m)
  BY <1>3, Sent DEF OnInit
<1>5. \A k \in Answers' : k \in Answers /\ toHost'[k] = toHost[k]
  BY <1>3, <1>4 DEF Sends, Answers
<1>6.
     /\ up
     /\ toWorker[1].type = "init"
     /\ runtime' = ok
  BY <1>1, <1>2, <1>3, <1>4, <1>5 DEF OnInit, Arrived, TakesWork, hostVars, workerVars, engineVars
<1>7. UNCHANGED <<host, active, nextId, aborted, pump, chunks, sequence, ended, inputError,
                  settled, up, job, lastId, intake, session, feeder, feedError, outcome>>
  BY DEF OnInit, Arrived, TakesWork, hostVars, workerVars, engineVars
<1> HIDE DEF m
<1>8. toWorker' \in Seq(ToWorker) /\ toHost' \in Seq(ToHost)
  BY <1>1, <1>2, <1>3, <1>4, <1>5, <1>6, <1>7 DEF TypeOK, TakesWork, Sends
<1>9. TypeOK'
  <2>1. (runtime \in BOOLEAN)'
    BY <1>6, <1>1, <1>2 DEF Scalars, Tables, TakesWork
  <2> HIDE DEF Runs
  <2>2. Streams'
    BY TypeParts, <1>7 DEF Streams
  <2>3. Tables'
    BY <1>1, <1>7 DEF Tables
  <2>4. (Scalars /\ host \in {"starting", "ready", "failed", "disposed"})'
    BY <1>1, TypeParts, <1>7, <1>8, <2>1 DEF Scalars
  <2> QED
    BY <1>8, <2>2, <2>3, <2>4, TypeWhole
<1>10. Lifecycle'
  <2>1. (~up => toWorker = <<>> /\ job = 0)'
    BY <1>1, <1>6, <1>2, <1>5, <1>7 DEF Lifecycle, TakesWork, Scalars
  <2>2. (host \in {"failed", "disposed"} => ~up /\ toHost = <<>>)'
    BY <1>1, <1>6, <1>4, <1>3, <1>5, <1>7 DEF Lifecycle, OnePlace, Sends, Scalars
  <2>3. (Work("init") # {} =>
           Len(toWorker) = 1 /\ host = "starting" /\ News({"ready"}) = {} /\ News({"initError"}) = {})'
    BY <1>2, <1>4, <1>3, <1>7 DEF Lifecycle, TakesWork, Sends
  <2>4. (News({"initError"}) # {} => host = "starting" /\ News({"ready"}) = {})'
    BY <1>1, <1>2, <1>3, <1>4, <1>5, <1>6, <1>7 DEF Lifecycle, Scalars, TakesWork, Sends
  <2>5. (host = "ready" \/ News({"ready"}) # {} => (up => runtime))'
    BY <1>1, <1>2, <1>3, <1>4, <1>5, <1>6, <1>7 DEF Lifecycle, OnePlace, Scalars, TakesWork, Sends
  <2> QED
    BY <2>1, <2>2, <2>3, <2>4, <2>5 DEF Lifecycle
<1>11. OnePlace'
  <2>1. (active # 0 => host = "ready" /\ nextId = active + 1)'
    BY <1>7 DEF OnePlace
  <2>2. (lastId < nextId)'
    BY <1>7 DEF OnePlace
  <2>3. (\A i \in Work("run") : toWorker[i].id = active)'
    BY <1>2, <1>7 DEF OnePlace, TakesWork
  <2>4. (Work("run") # {} =>
           active # 0 /\ lastId < active /\ outcome[active] = "no" /\ job = 0 /\ Answers = {})'
    BY <1>2, <1>4, <1>3, <1>7, Zenon DEF OnePlace, TakesWork, Sends, Answers
  <2>5. (job # 0 => job = active /\ outcome[active] = "no" /\ Answers = {})'
    BY <1>4, <1>3, <1>7 DEF OnePlace, Sends, Answers
  <2>6. (\A k \in Answers : toHost[k].id = active)'
    BY <1>4, <1>3, <1>7 DEF OnePlace, Sends, Answers
  <2>7. (Answers # {} => active # 0 /\ outcome[active] # "no")'
    BY <1>4, <1>3, <1>7 DEF OnePlace, Sends, Answers
  <2> QED
    BY <2>1, <2>2, <2>3, <2>4, <2>5, <2>6, <2>7 DEF OnePlace
<1>12. Single'
  BY <1>2, <1>4, <1>3, <1>7 DEF Single, TakesWork, Sends, Answers
<1>13. Ledger'
  BY <1>7 DEF Ledger
<1>14. Counting'
  BY <1>2, <1>7 DEF Counting, TakesWork
<1>15. PumpReleased'
  BY <1>7 DEF PumpReleased
<1>16. Blame'
  BY <1>2, <1>7 DEF Blame, TakesWork
<1>17. CancelledOnlyIfAsked'
  BY <1>7 DEF CancelledOnlyIfAsked
<1> QED
  BY <1>9, <1>10, <1>11, <1>12, <1>13, <1>14, <1>15, <1>16, <1>17

\* run, refused: the request becomes the answer.
LEMMA OnRunRefusedStep ==
  ASSUME IInv, OnRunRefused(Head(toWorker))
  PROVE  IInv'
<1> USE CommandAssumption DEF IInv, Runs
<1>1. Scalars /\ Tables
  BY TypeParts
<1> DEFINE m == [type |-> "error", id |-> Head(toWorker).id]
<1>2. TakesWork
  BY TookWork DEF OnRunRefused, Arrived
<1>3. m \in ToHost /\ m.type = "error" /\ m.id = toWorker[1].id
  BY <1>2, WorkKinds DEF OnRunRefused, ToHost, Arrived, TakesWork
<1>4. Sends(m)
  BY <1>3, Sent DEF OnRunRefused
<1>5. 1 \in Work("run")
  BY <1>2 DEF OnRunRefused, Arrived, TakesWork
<1>6. /\ toWorker[1].id = active /\ active \in Runs /\ nextId = active + 1 /\ host = "ready"
      /\ lastId < active /\ job = 0 /\ outcome[active] = "no" /\ Answers = {}
  BY <1>1, <1>5 DEF OnePlace, Scalars
<1>7. up /\ runtime
  BY <1>6 DEF OnRunRefused, Arrived, Lifecycle
<1>8. Work("run")' = {}
  BY <1>2, <1>5 DEF Single, TakesWork
<1>9. ~Busy(Head(toWorker))
  BY <1>1, <1>2, <1>7, <1>6 DEF Busy, TakesWork, Scalars
<1>10. \A k \in Answers' : k = Len(toHost) + 1 /\ toHost'[k] = m
  BY <1>3, <1>4, <1>6 DEF Sends, Answers
<1>11.
     /\ up
     /\ toWorker[1].type = "run"
     /\ lastId' = active
     /\ outcome' = [outcome EXCEPT ![active] = "error"]
  BY <1>1, <1>2, <1>3, <1>4, <1>6, <1>7, <1>8, <1>9, <1>10, Zenon DEF OnRunRefused, Arrived, TakesWork,
     hostVars, workerVars, engineVars
<1>12. UNCHANGED <<host, active, nextId, aborted, pump, chunks, sequence, ended, inputError,
                   settled, up, runtime, job, intake, session, feeder, feedError>>
  BY DEF OnRunRefused, Arrived, TakesWork, hostVars, workerVars, engineVars
<1> HIDE DEF m
<1>13. toWorker' \in Seq(ToWorker) /\ toHost' \in Seq(ToHost)
  BY <1>1, <1>2, <1>3, <1>4, <1>6, <1>7, <1>8, <1>9, <1>10, <1>11, <1>12 DEF TypeOK, TakesWork,
     Sends
<1>14. TypeOK'
  <2>1. (lastId \in 0 .. MaxRuns)'
    BY <1>11, <1>1, <1>2, WorkKinds DEF Scalars, Tables, TakesWork
  <2>2. (outcome \in [Runs -> {"no"} \cup Ends])'
    BY <1>11, <1>1, <1>2, WorkKinds, Zenon DEF Scalars, Tables, Settlements, Ends, TakesWork
  <2> HIDE DEF Runs
  <2>3. Streams'
    BY TypeParts, <1>12 DEF Streams
  <2>4. Tables'
    BY <1>1, <1>12, <2>2 DEF Tables
  <2>5. (Scalars /\ host \in {"starting", "ready", "failed", "disposed"})'
    BY <1>1, TypeParts, <1>12, <1>13, <2>1 DEF Scalars
  <2> QED
    BY <1>13, <2>3, <2>4, <2>5, TypeWhole
<1>15. Lifecycle'
  BY <1>2, <1>4, <1>3, <1>12 DEF Lifecycle, TakesWork, Sends
<1>16. OnePlace'
  <2>1. (active # 0 => host = "ready" /\ nextId = active + 1)'
    BY <1>12 DEF OnePlace
  <2>2. (lastId < nextId)'
    BY <1>1, <1>11, <1>6, <1>7, <1>8, <1>9, <1>10, <1>12 DEF OnePlace, Scalars
  <2>3. (\A i \in Work("run") : toWorker[i].id = active)'
    BY <1>2, <1>12 DEF OnePlace, TakesWork
  <2>4. (Work("run") # {} =>
           active # 0 /\ lastId < active /\ outcome[active] = "no" /\ job = 0 /\ Answers = {})'
    BY <1>1, <1>11, <1>2, <1>4, <1>3, <1>6, <1>7, <1>8, <1>9, <1>10, <1>12, Zenon DEF OnePlace,
       TakesWork, Sends, Answers, Tables, Scalars
  <2>5. (job # 0 => job = active /\ outcome[active] = "no" /\ Answers = {})'
    BY <1>1, <1>11, <1>4, <1>3, <1>6, <1>7, <1>8, <1>9, <1>10, <1>12, Zenon DEF OnePlace, Sends,
       Answers, Tables, Scalars
  <2>6. (\A k \in Answers : toHost[k].id = active)'
    BY <1>1, <1>11, <1>4, <1>3, <1>6, <1>7, <1>8, <1>9, <1>10, <1>12 DEF OnePlace, Single,
       Answers, Sends, Scalars
  <2>7. (Answers # {} => active # 0 /\ outcome[active] # "no")'
    BY <1>1, <1>11, <1>4, <1>3, <1>6, <1>7, <1>8, <1>9, <1>10, <1>12 DEF OnePlace, Sends,
       Answers, Tables, Scalars
  <2> QED
    BY <2>1, <2>2, <2>3, <2>4, <2>5, <2>6, <2>7, Zenon DEF OnePlace
<1>17. Single'
  <2>1. (\A i, j \in Work("run") : i = j)'
    BY <1>2, <1>12 DEF Single, TakesWork
  <2>2. (\A k, l \in Answers : k = l)'
    BY <1>1, <1>11, <1>4, <1>3, <1>6, <1>7, <1>8, <1>9, <1>10, <1>12 DEF Single, OnePlace,
       Answers, Sends, Scalars
  <2> QED
    BY <2>1, <2>2 DEF Single
<1>18. Ledger'
  <2>1. (\A q \in Runs : settled[q] # "no" <=> q < nextId /\ q # active)'
    BY <1>12 DEF Ledger
  <2>2. (\A q \in Runs : q >= nextId => outcome[q] = "no")'
    BY <1>1, <1>11, <1>6, <1>7, <1>8, <1>9, <1>10, <1>12 DEF Ledger, Tables
  <2>3. (\A q \in Runs : settled[q] \notin {"no", "crashed"} => outcome[q] # "no")'
    BY <1>1, <1>11, <1>6, <1>7, <1>8, <1>9, <1>10, <1>12 DEF Ledger, Tables
  <2>4. (\A q \in Runs : settled[q] = "crashed" => ~up /\ host = "disposed")'
    BY <1>12 DEF Ledger
  <2> QED
    BY <2>1, <2>2, <2>3, <2>4 DEF Ledger
<1>19. Counting'
  BY <1>2, <1>12 DEF Counting, TakesWork
<1>20. PumpReleased'
  BY <1>12, Zenon DEF PumpReleased
<1>21. Blame'
  BY <1>2, <1>12 DEF Blame, TakesWork
<1>22. CancelledOnlyIfAsked'
  BY <1>1, <1>11, <1>6, <1>7, <1>8, <1>9, <1>10, <1>12 DEF CancelledOnlyIfAsked, Tables
<1> QED
  BY <1>14, <1>15, <1>16, <1>17, <1>18, <1>19, <1>20, <1>21, <1>22

\* run, over at its first step: the request becomes the answer.
LEMMA OnRunEndsStep ==
  ASSUME IInv, NEW st \in TerminalStates, OnRunEnds(Head(toWorker), st)
  PROVE  IInv'
<1> USE CommandAssumption DEF IInv, Runs
<1>1. Scalars /\ Tables
  BY TypeParts
<1> DEFINE m == [type |-> "result", id |-> Head(toWorker).id, outcome |-> st]
<1>2. TakesWork
  BY TookWork DEF OnRunEnds, Arrived
<1>3. m \in ToHost /\ m.type = "result" /\ m.id = toWorker[1].id
  BY <1>2, WorkKinds, Zenon DEF OnRunEnds, ToHost, Arrived, TakesWork
<1>4. Sends(m)
  BY <1>3, Sent DEF OnRunEnds
<1>5. 1 \in Work("run")
  BY <1>2 DEF OnRunEnds, Arrived, TakesWork
<1>6. /\ toWorker[1].id = active /\ active \in Runs /\ nextId = active + 1 /\ host = "ready"
      /\ lastId < active /\ job = 0 /\ outcome[active] = "no" /\ Answers = {}
  BY <1>1, <1>5 DEF OnePlace, Scalars
<1>7. up /\ runtime
  BY <1>6 DEF OnRunEnds, Arrived, Lifecycle
<1>8. Work("run")' = {}
  BY <1>2, <1>5, SMT, Z3 DEF Single, TakesWork
<1>9. \A k \in Answers' : k = Len(toHost) + 1 /\ toHost'[k] = m
  BY <1>3, <1>4, <1>6 DEF Sends, Answers
<1>10.
     /\ up
     /\ toWorker[1].type = "run"
     /\ st \notin {"cancelled", "no"}
     /\ lastId' = active
     /\ outcome' = [outcome EXCEPT ![active] = st]
  BY <1>1, <1>2, <1>3, <1>4, <1>6, <1>7, <1>8, <1>9, Zenon DEF OnRunEnds, Arrived, TakesWork,
     StepStates, Configured, WithInput, NewSession, NoSession, TerminalStates, hostVars,
     workerVars, engineVars
<1>11. UNCHANGED <<host, active, nextId, aborted, pump, chunks, sequence, ended, inputError,
                   settled, up, runtime, job, intake, session, feeder, feedError>>
  BY Zenon DEF OnRunEnds, Arrived, TakesWork, StepStates, Configured, WithInput, NewSession, NoSession,
     TerminalStates, hostVars, workerVars, engineVars
<1> HIDE DEF m
<1>12. toWorker' \in Seq(ToWorker) /\ toHost' \in Seq(ToHost)
  BY <1>1, <1>2, <1>3, <1>4, <1>6, <1>7, <1>8, <1>9, <1>10, <1>11 DEF TypeOK, TakesWork, Sends
<1>13. TypeOK'
  <2>1. (lastId \in 0 .. MaxRuns)'
    BY <1>10, <1>1, <1>2, WorkKinds DEF Scalars, Tables, TakesWork
  <2>2. (outcome \in [Runs -> {"no"} \cup Ends])'
    BY <1>10, <1>1, <1>2, WorkKinds, ZenonT(60) DEF Scalars, Tables, Settlements, Ends, TakesWork
  <2> HIDE DEF Runs
  <2>3. Streams'
    BY TypeParts, <1>11 DEF Streams
  <2>4. Tables'
    BY <1>1, <1>11, <2>2 DEF Tables
  <2>5. (Scalars /\ host \in {"starting", "ready", "failed", "disposed"})'
    BY <1>1, TypeParts, <1>11, <1>12, <2>1 DEF Scalars
  <2> QED
    BY <1>12, <2>3, <2>4, <2>5, TypeWhole
<1>14. Lifecycle'
  BY <1>2, <1>4, <1>3, <1>11 DEF Lifecycle, TakesWork, Sends
<1>15. OnePlace'
  <2>1. (active # 0 => host = "ready" /\ nextId = active + 1)'
    BY <1>11, Zenon DEF OnePlace
  <2>2. (lastId < nextId)'
    BY <1>1, <1>10, <1>6, <1>7, <1>8, <1>9, <1>11 DEF OnePlace, Scalars
  <2>3. (\A i \in Work("run") : toWorker[i].id = active)'
    BY <1>2, <1>11 DEF OnePlace, TakesWork
  <2>4. (Work("run") # {} =>
           active # 0 /\ lastId < active /\ outcome[active] = "no" /\ job = 0 /\ Answers = {})'
    BY <1>1, <1>10, <1>2, <1>4, <1>3, <1>6, <1>7, <1>8, <1>9, <1>11, Zenon DEF OnePlace, TakesWork,
       Sends, Answers, Tables, Scalars
  <2>5. (job # 0 => job = active /\ outcome[active] = "no" /\ Answers = {})'
    BY <1>1, <1>10, <1>4, <1>3, <1>6, <1>7, <1>8, <1>9, <1>11, Zenon DEF OnePlace, Sends, Answers,
       Tables, Scalars
  <2>6. (\A k \in Answers : toHost[k].id = active)'
    BY <1>1, <1>10, <1>4, <1>3, <1>6, <1>7, <1>8, <1>9, <1>11, Zenon DEF OnePlace, Single, Answers,
       Sends, Scalars
  <2>7. (Answers # {} => active # 0 /\ outcome[active] # "no")'
    BY <1>1, <1>10, <1>4, <1>3, <1>6, <1>7, <1>8, <1>9, <1>11 DEF OnePlace, Sends, Answers,
       Tables, Scalars
  <2> QED
    BY <2>1, <2>2, <2>3, <2>4, <2>5, <2>6, <2>7, Zenon DEF OnePlace
<1>16. Single'
  <2>1. (\A i, j \in Work("run") : i = j)'
    BY <1>2, <1>11 DEF Single, TakesWork
  <2>2. (\A k, l \in Answers : k = l)'
    BY <1>1, <1>10, <1>4, <1>3, <1>6, <1>7, <1>8, <1>9, <1>11 DEF Single, OnePlace, Answers,
       Sends, Scalars
  <2> QED
    BY <2>1, <2>2 DEF Single
<1>17. Ledger'
  <2>1. (\A q \in Runs : settled[q] # "no" <=> q < nextId /\ q # active)'
    BY <1>11 DEF Ledger
  <2>2. (\A q \in Runs : q >= nextId => outcome[q] = "no")'
    BY <1>1, <1>10, <1>6, <1>7, <1>8, <1>9, <1>11 DEF Ledger, Tables
  <2>3. (\A q \in Runs : settled[q] \notin {"no", "crashed"} => outcome[q] # "no")'
    BY <1>1, <1>10, <1>6, <1>7, <1>8, <1>9, <1>11 DEF Ledger, Tables
  <2>4. (\A q \in Runs : settled[q] = "crashed" => ~up /\ host = "disposed")'
    BY <1>11 DEF Ledger
  <2> QED
    BY <2>1, <2>2, <2>3, <2>4 DEF Ledger
<1>18. Counting'
  BY <1>2, <1>11 DEF Counting, TakesWork
<1>19. PumpReleased'
  BY <1>11 DEF PumpReleased
<1>20. Blame'
  BY <1>2, <1>11 DEF Blame, TakesWork
<1>21. CancelledOnlyIfAsked'
  BY <1>1, <1>10, <1>6, <1>7, <1>8, <1>9, <1>11 DEF CancelledOnlyIfAsked, Tables
<1> QED
  BY <1>13, <1>14, <1>15, <1>16, <1>17, <1>18, <1>19, <1>20, <1>21

\* run, waiting: the request becomes the job.
LEMMA OnRunWaitsStep ==
  ASSUME IInv, OnRunWaits(Head(toWorker))
  PROVE  IInv'
<1> USE CommandAssumption DEF IInv, Runs
<1>1. Scalars /\ Tables
  BY TypeParts
<1>2. TakesWork
  BY TookWork DEF OnRunWaits, Arrived
<1>3. KeepsNews
  BY SameQueues DEF OnRunWaits, workerVars
<1>4. 1 \in Work("run")
  BY <1>2 DEF OnRunWaits, Arrived, TakesWork
<1>5. /\ toWorker[1].id = active /\ active \in Runs /\ nextId = active + 1 /\ host = "ready"
      /\ lastId < active /\ job = 0 /\ outcome[active] = "no" /\ Answers = {}
  BY <1>1, <1>4 DEF OnePlace, Scalars
<1>6. up /\ runtime
  BY <1>5 DEF OnRunWaits, Arrived, Lifecycle
<1>7. Work("run")' = {}
  BY <1>2, <1>4 DEF Single, TakesWork
<1>8.
     /\ up
     /\ toWorker[1].type = "run"
     /\ lastId' = active
     /\ job' = active
     /\ intake'.received = 0 /\ intake'.sequence = 0
     /\ ~session'.cancelled
  BY <1>1, <1>2, <1>3, <1>5, <1>6, <1>7, ZenonT(60) DEF OnRunWaits, Arrived, TakesWork, Configured,
     WithInput, NewSession, NoSession, NoIntake, hostVars, workerVars, engineVars
<1>9. UNCHANGED <<host, active, nextId, aborted, pump, chunks, sequence, ended, inputError,
                  settled, up, runtime, outcome>>
  BY Zenon DEF OnRunWaits, Arrived, TakesWork, Configured, WithInput, NewSession, NoSession, NoIntake,
     hostVars, workerVars, engineVars
<1>10. toWorker' \in Seq(ToWorker) /\ toHost' \in Seq(ToHost)
  BY <1>1, <1>2, <1>3, <1>5, <1>6, <1>7, <1>8, <1>9, Zenon DEF TypeOK, TakesWork, KeepsNews
<1>11. TypeOK'
  <2>1. (job \in 0 .. MaxRuns)'
    BY <1>8, <1>1, <1>2, WorkKinds DEF Scalars, Tables, TakesWork
  <2>2. (lastId \in 0 .. MaxRuns)'
    BY <1>8, <1>1, <1>2, WorkKinds DEF Scalars, Tables, TakesWork
  <2>3. (intake \in [streaming : BOOLEAN, queue : Seq(0 .. MaxChunks), eof : BOOLEAN,
                     sequence : 0 .. MaxChunks + 1, received : 0 .. MaxChunks, error : BOOLEAN])'
    <3>1. intake' = [streaming |-> toWorker[1].streaming, queue |-> <<>>, eof |-> FALSE,
                      sequence |-> 0, received |-> 0, error |-> FALSE]
      BY <1>2, Zenon DEF OnRunWaits, NoIntake, TakesWork
    <3>2. toWorker[1].streaming \in BOOLEAN
      BY <1>2, WorkKinds DEF OnRunWaits, Arrived, TakesWork
    <3>3. <<>> \in Seq(0 .. MaxChunks)
      OBVIOUS
    <3> QED
      BY <3>1, <3>2, <3>3
  <2>4. (session \in [state : States, cancelled : BOOLEAN, eof : BOOLEAN,
                      input : Seq(1 .. MaxChunks)])'
    <3> DEFINE bytes == IF toWorker[1].streaming THEN <<>> ELSE [n \in 1 .. toWorker[1].size |-> n]
    <3>1. toWorker[1].size \in 0 .. MaxChunks /\ toWorker[1].streaming \in BOOLEAN
      BY <1>2, WorkKinds DEF OnRunWaits, Arrived, TakesWork
    <3>2. bytes \in Seq(1 .. MaxChunks)
      <4>1. [n \in 1 .. toWorker[1].size |-> n] \in Seq(1 .. MaxChunks)
        BY <3>1
      <4>2. <<>> \in Seq(1 .. MaxChunks)
        OBVIOUS
      <4> QED
        BY <4>1, <4>2, Zenon
    <3>3. session' = [state |-> "waiting", cancelled |-> FALSE, eof |-> ~toWorker[1].streaming, input |-> bytes]
      <4>1. session' = [Configured(toWorker[1]) EXCEPT !.state = "waiting"]
        BY <1>2 DEF OnRunWaits, TakesWork
      <4>2. CASE toWorker[1].streaming
        BY <4>1, <4>2, Zenon DEF Configured, NewSession, NoSession
      <4>3. CASE ~toWorker[1].streaming
        <5>1. <<>> \o bytes = bytes
          BY <3>2 
        <5>2. Configured(toWorker[1]) = [NewSession EXCEPT !.input = @ \o bytes, !.eof = TRUE]
          BY <4>3 DEF Configured, WithInput
        <5> QED
          BY <4>1, <4>3, <5>1, <5>2, Zenon DEF NewSession, NoSession
      <4> QED
        BY <4>2, <4>3
    <3> HIDE DEF bytes
    <3> QED
      BY <3>2, <3>3 DEF States
  <2>5. (feeder \in {"off", "next", "pause"})'
    BY DEF OnRunWaits
  <2>6. (feedError \in BOOLEAN)'
    BY Zenon DEF OnRunWaits
  <2> HIDE DEF Runs
  <2>7. Streams'
    BY <2>3, <2>4, <2>5, <2>6 DEF Streams
  <2>8. Tables'
    BY <1>1, <1>9 DEF Tables
  <2>9. (Scalars /\ host \in {"starting", "ready", "failed", "disposed"})'
    BY <1>1, TypeParts, <1>9, <1>10, <2>1, <2>2 DEF Scalars
  <2> QED
    BY <1>10, <2>7, <2>8, <2>9, TypeWhole
<1>12. Lifecycle'
  <2>1. (~up => toWorker = <<>> /\ job = 0)'
    BY <1>1, <1>8, <1>2, <1>5, <1>6, <1>7, <1>9 DEF Lifecycle, TakesWork, Scalars
  <2>2. (host \in {"failed", "disposed"} => ~up /\ toHost = <<>>)'
    BY <1>3, <1>9 DEF Lifecycle, KeepsNews
  <2>3. (Work("init") # {} =>
           Len(toWorker) = 1 /\ host = "starting" /\ News({"ready"}) = {} /\ News({"initError"}) = {})'
    BY <1>2, <1>3, <1>9 DEF Lifecycle, TakesWork, KeepsNews
  <2>4. (News({"initError"}) # {} => host = "starting" /\ News({"ready"}) = {})'
    BY <1>3, <1>9 DEF Lifecycle, KeepsNews
  <2>5. (host = "ready" \/ News({"ready"}) # {} => (up => runtime))'
    BY <1>3, <1>9 DEF Lifecycle, KeepsNews
  <2> QED
    BY <2>1, <2>2, <2>3, <2>4, <2>5 DEF Lifecycle
<1>13. OnePlace'
  <2>1. (active # 0 => host = "ready" /\ nextId = active + 1)'
    BY <1>9 DEF OnePlace
  <2>2. (lastId < nextId)'
    BY <1>1, <1>8, <1>5, <1>6, <1>7, <1>9 DEF OnePlace, Scalars
  <2>3. (\A i \in Work("run") : toWorker[i].id = active)'
    BY <1>2, <1>9 DEF OnePlace, TakesWork
  <2>4. (Work("run") # {} =>
           active # 0 /\ lastId < active /\ outcome[active] = "no" /\ job = 0 /\ Answers = {})'
    BY <1>1, <1>8, <1>2, <1>3, <1>5, <1>6, <1>7, <1>9, Zenon DEF OnePlace, TakesWork, KeepsNews,
       Answers, Scalars
  <2>5. (job # 0 => job = active /\ outcome[active] = "no" /\ Answers = {})'
    BY <1>1, <1>8, <1>3, <1>5, <1>6, <1>7, <1>9, Zenon DEF OnePlace, KeepsNews, Answers, Scalars
  <2>6. (\A k \in Answers : toHost[k].id = active)'
    BY <1>3, <1>9 DEF OnePlace, KeepsNews, Answers
  <2>7. (Answers # {} => active # 0 /\ outcome[active] # "no")'
    BY <1>3, <1>9 DEF OnePlace, KeepsNews, Answers
  <2> QED
    BY <2>1, <2>2, <2>3, <2>4, <2>5, <2>6, <2>7, Zenon DEF OnePlace
<1>14. Single'
  BY <1>2, <1>3, <1>9 DEF Single, TakesWork, KeepsNews, Answers
<1>15. Ledger'
  BY <1>9 DEF Ledger
<1>16. Counting'
  <2>1. (\A q \in Runs : pump[q] = "next" => ~ended[q] /\ sequence[q] = chunks[q])'
    BY <1>9 DEF Counting
  <2>2. (\A q \in Runs : pump[q] = "ack" => ended[q] \/ sequence[q] = chunks[q])'
    BY <1>9 DEF Counting
  <2>3. (\A q \in Runs : q >= nextId => sequence[q] = 0)'
    BY <1>9, Zenon DEF Counting
  <2>4. (\A i \in Work("input") : toWorker[i].eof \/ toWorker[i].sequence <= MaxChunks)'
    BY <1>2, <1>9 DEF Counting, TakesWork
  <2>5. (intake.received <= intake.sequence)'
    BY <1>1, <1>8, <1>5, <1>6, <1>7, <1>9 DEF Counting, NoIntake
  <2> QED
    BY <2>1, <2>2, <2>3, <2>4, <2>5 DEF Counting
<1>17. PumpReleased'
  BY <1>9 DEF PumpReleased
<1>18. Blame'
  <2>1. (\A i \in Work("cancel") : aborted[toWorker[i].id] \/ inputError[toWorker[i].id])'
    BY <1>2, <1>9 DEF Blame, TakesWork
  <2>2. (job # 0 /\ session.cancelled =>
           aborted[job] \/ inputError[job] \/ intake.error \/ feedError)'
    BY <1>1, <1>8, <1>5, <1>6, <1>7, <1>9 DEF Blame, Scalars, NoIntake, NoSession
  <2> QED
    BY <2>1, <2>2 DEF Blame
<1>19. CancelledOnlyIfAsked'
  BY <1>9 DEF CancelledOnlyIfAsked
<1> QED
  BY <1>11, <1>12, <1>13, <1>14, <1>15, <1>16, <1>17, <1>18, <1>19

\* cancel: it is for the job, with somebody to blame, or has no effect.
LEMMA OnCancelStep ==
  ASSUME IInv, OnCancel
  PROVE  IInv'
<1> USE CommandAssumption DEF IInv, Runs
<1>1. Scalars /\ Tables
  BY TypeParts
<1>2. TakesWork
  BY TookWork DEF OnCancel, Arrived
<1>3. KeepsNews
  BY SameQueues DEF OnCancel, workerVars
<1>4.
     /\ up
     /\ toWorker[1].type = "cancel"
     /\ session' = IF job = toWorker[1].id THEN Cancelled(session) ELSE session
  BY <1>1, <1>2, <1>3 DEF OnCancel, Arrived, TakesWork, hostVars, workerVars, engineVars
<1>5. UNCHANGED <<host, active, nextId, aborted, pump, chunks, sequence, ended, inputError,
                  settled, up, runtime, job, lastId, intake, feeder, feedError, outcome>>
  BY DEF OnCancel, Arrived, TakesWork, hostVars, workerVars, engineVars
<1>6. toWorker' \in Seq(ToWorker) /\ toHost' \in Seq(ToHost)
  BY <1>1, <1>2, <1>3, <1>4, <1>5 DEF TypeOK, TakesWork, KeepsNews
<1>7. TypeOK'
  <2>1. (session \in [state : States, cancelled : BOOLEAN, eof : BOOLEAN,
                      input : Seq(1 .. MaxChunks)])'
    BY <1>4, <1>1, <1>2, WorkKinds, Zenon DEF TypeOK, TakesWork, Cancelled, Terminal, States,
       TerminalStates
  <2> HIDE DEF Runs
  <2>2. Streams'
    BY TypeParts, <1>5, <2>1 DEF Streams
  <2>3. Tables'
    BY <1>1, <1>5 DEF Tables
  <2>4. (Scalars /\ host \in {"starting", "ready", "failed", "disposed"})'
    BY <1>1, TypeParts, <1>5, <1>6 DEF Scalars
  <2> QED
    BY <1>6, <2>2, <2>3, <2>4, TypeWhole
<1>8. Lifecycle'
  BY <1>2, <1>3, <1>5 DEF Lifecycle, TakesWork, KeepsNews
<1>9. OnePlace'
  BY <1>2, <1>3, <1>5, SMT, Z3 DEF OnePlace, TakesWork, KeepsNews, Answers
<1>10. Single'
  BY <1>2, <1>3, <1>5 DEF Single, TakesWork, KeepsNews, Answers
<1>11. Ledger'
  BY <1>5 DEF Ledger
<1>12. Counting'
  BY <1>2, <1>5 DEF Counting, TakesWork
<1>13. PumpReleased'
  BY <1>5 DEF PumpReleased
<1>14. Blame'
  <2>1. (\A i \in Work("cancel") : aborted[toWorker[i].id] \/ inputError[toWorker[i].id])'
    BY <1>2, <1>5 DEF Blame, TakesWork
  <2>2. (job # 0 /\ session.cancelled =>
           aborted[job] \/ inputError[job] \/ intake.error \/ feedError)'
    <3>1. aborted[toWorker[1].id] \/ inputError[toWorker[1].id]
      BY <1>2, <1>4 DEF TakesWork, Blame
    <3>2. CASE job = toWorker[1].id
      BY <1>5, <3>1, <3>2
    <3>3. CASE job # toWorker[1].id
      BY <1>4, <1>5, <3>3 DEF Blame
    <3> QED
      BY <3>2, <3>3
  <2> QED
    BY <2>1, <2>2 DEF Blame
<1>15. CancelledOnlyIfAsked'
  BY <1>5 DEF CancelledOnlyIfAsked
<1> QED
  BY <1>7, <1>8, <1>9, <1>10, <1>11, <1>12, <1>13, <1>14, <1>15

\* The worker's input loop.
LEMMA FeedStep ==
  ASSUME IInv, Feed
  PROVE  IInv'
<1> USE CommandAssumption DEF IInv, Runs
<1>1. Scalars /\ Tables
  BY TypeParts
<1>2. Streams
  BY DEF TypeOK, Streams
<1>3. KeepsWork
  BY SameQueues DEF Feed, workerVars
<1>4. KeepsNews
  BY SameQueues DEF Feed, workerVars
<1>5.
     /\ Streams'
     /\ OnRecord
     /\ intake'.received = intake.received /\ intake'.sequence = intake.sequence
  BY <1>2, FeedsStream
<1>6. UNCHANGED <<host, active, nextId, aborted, pump, chunks, sequence, ended, inputError,
                  settled, up, runtime, job, lastId, outcome>>
  BY DEF Feed, hostVars, workerVars, engineVars
<1>7. toWorker' \in Seq(ToWorker) /\ toHost' \in Seq(ToHost)
  BY <1>1, <1>3, <1>4, <1>5, <1>6 DEF TypeOK, KeepsWork, KeepsNews
<1>8. TypeOK'
  <2>1. (intake \in [streaming : BOOLEAN, queue : Seq(0 .. MaxChunks), eof : BOOLEAN,
                     sequence : 0 .. MaxChunks + 1, received : 0 .. MaxChunks, error : BOOLEAN])'
    BY <1>5 DEF Streams
  <2>2. (session \in [state : States, cancelled : BOOLEAN, eof : BOOLEAN,
                      input : Seq(1 .. MaxChunks)])'
    BY <1>5 DEF Streams
  <2>3. (feeder \in {"off", "next", "pause"})'
    BY <1>5 DEF Streams
  <2>4. (feedError \in BOOLEAN)'
    BY <1>5 DEF Streams
  <2> HIDE DEF Runs
  <2>5. Streams'
    BY <2>1, <2>2, <2>3, <2>4 DEF Streams
  <2>6. Tables'
    BY <1>1, <1>6 DEF Tables
  <2>7. (Scalars /\ host \in {"starting", "ready", "failed", "disposed"})'
    BY <1>1, TypeParts, <1>6, <1>7 DEF Scalars
  <2> QED
    BY <1>7, <2>5, <2>6, <2>7, TypeWhole
<1>9. Lifecycle'
  BY <1>3, <1>4, <1>6, Zenon DEF Lifecycle, KeepsWork, KeepsNews
<1>10. OnePlace'
  BY <1>3, <1>4, <1>6 DEF OnePlace, KeepsWork, KeepsNews, Answers
<1>11. Single'
  BY <1>3, <1>4, <1>6 DEF Single, KeepsWork, KeepsNews, Answers
<1>12. Ledger'
  BY <1>6 DEF Ledger
<1>13. Counting'
  <2>1. (\A q \in Runs : pump[q] = "next" => ~ended[q] /\ sequence[q] = chunks[q])'
    BY <1>6 DEF Counting
  <2>2. (\A q \in Runs : pump[q] = "ack" => ended[q] \/ sequence[q] = chunks[q])'
    BY <1>6 DEF Counting
  <2>3. (\A q \in Runs : q >= nextId => sequence[q] = 0)'
    BY <1>6 DEF Counting
  <2>4. (\A i \in Work("input") : toWorker[i].eof \/ toWorker[i].sequence <= MaxChunks)'
    BY <1>3, <1>6 DEF Counting, KeepsWork
  <2>5. (intake.received <= intake.sequence)'
    BY <1>1, <1>5, <1>6 DEF Counting, NoIntake
  <2> QED
    BY <2>1, <2>2, <2>3, <2>4, <2>5, Zenon DEF Counting
<1>14. PumpReleased'
  BY <1>6 DEF PumpReleased
<1>15. Blame'
  <2>1. (\A i \in Work("cancel") : aborted[toWorker[i].id] \/ inputError[toWorker[i].id])'
    BY <1>3, <1>6 DEF Blame, KeepsWork, OnRecord
  <2>2. (job # 0 /\ session.cancelled =>
           aborted[job] \/ inputError[job] \/ intake.error \/ feedError)'
    BY <1>1, <1>5, <1>6 DEF Blame, NoIntake, NoSession, OnRecord
  <2> QED
    BY <2>1, <2>2 DEF Blame
<1>16. CancelledOnlyIfAsked'
  BY <1>6 DEF CancelledOnlyIfAsked
<1> QED
  BY <1>8, <1>9, <1>10, <1>11, <1>12, <1>13, <1>14, <1>15, <1>16

\* input: taken for the job that streams, or without effect.
LEMMA OnInputStep ==
  ASSUME IInv, OnInput
  PROVE  IInv'
<1> USE CommandAssumption DEF IInv, Runs
<1>1. Scalars /\ Tables
  BY TypeParts
<1>2. Streams
  BY DEF TypeOK, Streams
<1>3. TakesWork
  BY TookWork DEF OnInput, Arrived
<1>4. OnlyAcks
  BY TakesStream
<1>5.
     /\ up
     /\ toWorker[1].type = "input"
     /\ Streams'
     /\ OnRecord
     /\ intake'.received <= intake'.sequence
  BY <1>3, TakesStream DEF OnInput, Arrived, TakesWork
<1>6. UNCHANGED <<host, active, nextId, aborted, pump, chunks, sequence, ended, inputError,
                  settled, up, runtime, job, lastId, outcome>>
  BY Zenon DEF OnInput, Arrived, TakesWork, hostVars, workerVars, engineVars
<1>7. toWorker' \in Seq(ToWorker) /\ toHost' \in Seq(ToHost)
  BY <1>1, <1>3, <1>4, <1>5, <1>6 DEF TypeOK, TakesWork, OnlyAcks
<1>8. TypeOK'
  <2>1. (intake \in [streaming : BOOLEAN, queue : Seq(0 .. MaxChunks), eof : BOOLEAN,
                     sequence : 0 .. MaxChunks + 1, received : 0 .. MaxChunks, error : BOOLEAN])'
    BY <1>5 DEF Streams
  <2>2. (session \in [state : States, cancelled : BOOLEAN, eof : BOOLEAN,
                      input : Seq(1 .. MaxChunks)])'
    BY <1>5 DEF Streams
  <2>3. (feeder \in {"off", "next", "pause"})'
    BY <1>5 DEF Streams
  <2>4. (feedError \in BOOLEAN)'
    BY <1>5, Zenon DEF Streams
  <2> HIDE DEF Runs
  <2>5. Streams'
    BY <2>1, <2>2, <2>3, <2>4 DEF Streams
  <2>6. Tables'
    BY <1>1, <1>6 DEF Tables
  <2>7. (Scalars /\ host \in {"starting", "ready", "failed", "disposed"})'
    BY <1>1, TypeParts, <1>6, <1>7 DEF Scalars
  <2> QED
    BY <1>7, <2>5, <2>6, <2>7, TypeWhole
<1>9. Lifecycle'
  <2>1. (~up => toWorker = <<>> /\ job = 0)'
    BY <1>1, <1>5, <1>3, <1>6, Zenon DEF Lifecycle, TakesWork, Scalars
  <2>2. (host \in {"failed", "disposed"} => ~up /\ toHost = <<>>)'
    BY <1>1, <1>5, <1>4, <1>6 DEF Lifecycle, OnePlace, OnlyAcks, Scalars
  <2>3. (Work("init") # {} =>
           Len(toWorker) = 1 /\ host = "starting" /\ News({"ready"}) = {} /\ News({"initError"}) = {})'
    <3>1. Work("init")' = {}
      BY <1>1, <1>3 DEF Lifecycle, Scalars, TakesWork
    <3> QED
      BY <3>1
  <2>4. (News({"initError"}) # {} => host = "starting" /\ News({"ready"}) = {})'
    BY <1>4, <1>6 DEF Lifecycle, OnlyAcks
  <2>5. (host = "ready" \/ News({"ready"}) # {} => (up => runtime))'
    BY <1>4, <1>6, Zenon DEF Lifecycle, OnlyAcks
  <2> QED
    BY <2>1, <2>2, <2>3, <2>4, <2>5 DEF Lifecycle
<1>10. OnePlace'
  BY <1>3, <1>4, <1>6, SMT, Z3 DEF OnePlace, TakesWork, OnlyAcks, Answers
<1>11. Single'
  BY <1>3, <1>4, <1>6 DEF Single, TakesWork, OnlyAcks, Answers
<1>12. Ledger'
  BY <1>6 DEF Ledger
<1>13. Counting'
  <2>1. (\A q \in Runs : pump[q] = "next" => ~ended[q] /\ sequence[q] = chunks[q])'
    BY <1>6 DEF Counting
  <2>2. (\A q \in Runs : pump[q] = "ack" => ended[q] \/ sequence[q] = chunks[q])'
    BY <1>6 DEF Counting
  <2>3. (\A q \in Runs : q >= nextId => sequence[q] = 0)'
    BY <1>6 DEF Counting
  <2>4. (\A i \in Work("input") : toWorker[i].eof \/ toWorker[i].sequence <= MaxChunks)'
    BY <1>3, <1>6, Zenon DEF Counting, TakesWork
  <2>5. (intake.received <= intake.sequence)'
    BY <1>1, <1>5, <1>6, Zenon DEF Counting, NoIntake
  <2> QED
    BY <2>1, <2>2, <2>3, <2>4, <2>5 DEF Counting
<1>14. PumpReleased'
  BY <1>6 DEF PumpReleased
<1>15. Blame'
  <2>1. (\A i \in Work("cancel") : aborted[toWorker[i].id] \/ inputError[toWorker[i].id])'
    BY <1>3, <1>6, Zenon DEF Blame, TakesWork, OnRecord
  <2>2. (job # 0 /\ session.cancelled =>
           aborted[job] \/ inputError[job] \/ intake.error \/ feedError)'
    BY <1>1, <1>5, <1>6 DEF Blame, NoIntake, NoSession, OnRecord
  <2> QED
    BY <2>1, <2>2 DEF Blame
<1>16. CancelledOnlyIfAsked'
  BY <1>6 DEF CancelledOnlyIfAsked
<1> QED
  BY <1>8, <1>9, <1>10, <1>11, <1>12, <1>13, <1>14, <1>15, <1>16

\* The job's last step: the job becomes the answer.
LEMMA StepStep ==
  ASSUME IInv, NEW st \in TerminalStates, Step(st)
  PROVE  IInv'
<1> USE CommandAssumption DEF IInv, Runs
<1>1. Scalars /\ Tables
  BY TypeParts
<1> DEFINE m == IF feedError \/ intake.error THEN [type |-> "error", id |-> job]
                 ELSE [type |-> "result", id |-> job, outcome |-> st]
<1>2. KeepsWork
  BY SameQueues, Zenon DEF Step, workerVars
<1>3. m \in ToHost /\ m.id = job /\ m.type \in {"result", "error"}
  <2>1. job \in Runs
    BY <1>1, SMT, Z3 DEF Step, Scalars
  <2> QED
    BY <2>1, AnswerTypes
<1>4. Sends(m)
  BY <1>3, Sent DEF Step
<1>5. job # 0
  BY DEF Step
<1>6. /\ job = active /\ active \in Runs /\ nextId = active + 1 /\ host = "ready" /\ up
      /\ outcome[active] = "no" /\ Answers = {} /\ Work("run") = {}
  <2>1. job = active /\ outcome[active] = "no" /\ Answers = {}
    BY <1>5 DEF OnePlace
  <2>2. nextId = active + 1 /\ host = "ready" /\ Work("run") = {}
    BY <1>5, <2>1 DEF OnePlace
  <2>3. up /\ active \in Runs
    BY <1>1, <1>5, <2>1 DEF Lifecycle, Scalars
  <2> QED
    BY <2>1, <2>2, <2>3
<1>7. \A k \in Answers' : k = Len(toHost) + 1 /\ toHost'[k] = m
  BY <1>3, <1>4, <1>6, Zenon DEF Sends, Answers
<1>8.
     /\ outcome' = [outcome EXCEPT ![active] = IF feedError \/ intake.error THEN "error" ELSE st]
     /\ st = "cancelled" => session.cancelled
     /\ st # "no"
     /\ job' = 0
     /\ intake' = NoIntake
     /\ session' = NoSession
     /\ feeder' = "off"
     /\ feedError' = FALSE
  BY <1>1, <1>2, <1>3, <1>4, <1>6, <1>7 DEF Step, StepStates, TerminalStates, hostVars,
     workerVars, engineVars
<1>9. UNCHANGED <<host, active, nextId, aborted, pump, chunks, sequence, ended, inputError,
                  settled, up, runtime, lastId>>
  BY Zenon DEF Step, StepStates, TerminalStates, hostVars, workerVars, engineVars
<1> HIDE DEF m
<1>10. toWorker' \in Seq(ToWorker) /\ toHost' \in Seq(ToHost)
  BY <1>1, <1>2, <1>3, <1>4, <1>6, <1>7, <1>8, <1>9 DEF TypeOK, KeepsWork, Sends
<1>11. TypeOK'
  <2>1. (job \in 0 .. MaxRuns)'
    BY <1>8, <1>1 DEF Scalars, Tables
  <2>2. (intake \in [streaming : BOOLEAN, queue : Seq(0 .. MaxChunks), eof : BOOLEAN,
                     sequence : 0 .. MaxChunks + 1, received : 0 .. MaxChunks, error : BOOLEAN])'
    BY <1>8, NoTypes
  <2>3. (session \in [state : States, cancelled : BOOLEAN, eof : BOOLEAN,
                      input : Seq(1 .. MaxChunks)])'
    BY <1>8, NoTypes
  <2>4. (feeder \in {"off", "next", "pause"})'
    BY <1>8, <1>1 DEF TypeOK
  <2>5. (feedError \in BOOLEAN)'
    BY <1>8, <1>1, Zenon DEF TypeOK
  <2>6. (outcome \in [Runs -> {"no"} \cup Ends])'
    BY <1>8, <1>1, Zenon DEF Scalars, Tables, Settlements, Ends
  <2> HIDE DEF Runs
  <2>7. Streams'
    BY <2>2, <2>3, <2>4, <2>5 DEF Streams
  <2>8. Tables'
    BY <1>1, <1>9, <2>6 DEF Tables
  <2>9. (Scalars /\ host \in {"starting", "ready", "failed", "disposed"})'
    BY <1>1, TypeParts, <1>9, <1>10, <2>1 DEF Scalars
  <2> QED
    BY <1>10, <2>7, <2>8, <2>9, TypeWhole
<1>12. Lifecycle'
  <2>1. (~up => toWorker = <<>> /\ job = 0)'
    BY <1>1, <1>8, <1>2, <1>6, <1>7, <1>9, Zenon DEF Lifecycle, KeepsWork, Scalars
  <2>2. (host \in {"failed", "disposed"} => ~up /\ toHost = <<>>)'
    BY <1>1, <1>8, <1>4, <1>3, <1>6, <1>7, <1>9, Zenon DEF Lifecycle, OnePlace, Sends, Scalars
  <2>3. (Work("init") # {} =>
           Len(toWorker) = 1 /\ host = "starting" /\ News({"ready"}) = {} /\ News({"initError"}) = {})'
    BY <1>2, <1>4, <1>3, <1>9, Zenon DEF Lifecycle, KeepsWork, Sends
  <2>4. (News({"initError"}) # {} => host = "starting" /\ News({"ready"}) = {})'
    BY <1>4, <1>3, <1>9, Zenon DEF Lifecycle, Sends
  <2>5. (host = "ready" \/ News({"ready"}) # {} => (up => runtime))'
    BY <1>4, <1>3, <1>9, Zenon DEF Lifecycle, Sends
  <2> QED
    BY <2>1, <2>2, <2>3, <2>4, <2>5 DEF Lifecycle
<1>13. OnePlace'
  <2>1. (active # 0 => host = "ready" /\ nextId = active + 1)'
    BY <1>9 DEF OnePlace
  <2>2. (lastId < nextId)'
    BY <1>9 DEF OnePlace
  <2>3. (\A i \in Work("run") : toWorker[i].id = active)'
    BY <1>2, <1>9, Zenon DEF OnePlace, KeepsWork
  <2>4. (Work("run") # {} =>
           active # 0 /\ lastId < active /\ outcome[active] = "no" /\ job = 0 /\ Answers = {})'
    BY <1>1, <1>8, <1>2, <1>4, <1>3, <1>6, <1>7, <1>9 DEF OnePlace, KeepsWork, Sends, Answers,
       Tables, Scalars
  <2>5. (job # 0 => job = active /\ outcome[active] = "no" /\ Answers = {})'
    BY <1>1, <1>8, <1>4, <1>3, <1>6, <1>7, <1>9, ZenonT(60) DEF OnePlace, Sends, Answers, Tables, Scalars
  <2>6. (\A k \in Answers : toHost[k].id = active)'
    BY <1>1, <1>8, <1>4, <1>3, <1>6, <1>7, <1>9, ZenonT(60) DEF OnePlace, Single, Answers, Sends, Scalars
  <2>7. (Answers # {} => active # 0 /\ outcome[active] # "no")'
    <3>1. active' = active /\ active # 0
      BY <1>5, <1>6, <1>9, Zenon
    <3>2. outcome'[active] # "no"
      <4>1. active \in DOMAIN outcome
        BY <1>1, <1>6, Zenon DEF Tables
      <4> QED
        BY <1>8, <4>1, Zenon
    <3> QED
      BY <3>1, <3>2, Zenon
  <2> QED
    BY <2>1, <2>2, <2>3, <2>4, <2>5, <2>6, <2>7, Zenon DEF OnePlace
<1>14. Single'
  <2>1. (\A i, j \in Work("run") : i = j)'
    BY <1>2, <1>9 DEF Single, KeepsWork
  <2>2. (\A k, l \in Answers : k = l)'
    BY <1>1, <1>8, <1>4, <1>3, <1>6, <1>7, <1>9, Zenon DEF Single, OnePlace, Answers, Sends, Scalars
  <2> QED
    BY <2>1, <2>2 DEF Single
<1>15. Ledger'
  <2>1. (\A q \in Runs : settled[q] # "no" <=> q < nextId /\ q # active)'
    BY <1>9 DEF Ledger
  <2>2. (\A q \in Runs : q >= nextId => outcome[q] = "no")'
    BY <1>1, <1>8, <1>6, <1>7, <1>9 DEF Ledger, Tables
  <2>3. (\A q \in Runs : settled[q] \notin {"no", "crashed"} => outcome[q] # "no")'
    BY <1>1, <1>8, <1>6, <1>7, <1>9 DEF Ledger, Tables
  <2>4. (\A q \in Runs : settled[q] = "crashed" => ~up /\ host = "disposed")'
    BY <1>9, Zenon DEF Ledger
  <2> QED
    BY <2>1, <2>2, <2>3, <2>4 DEF Ledger
<1>16. Counting'
  <2>1. (\A q \in Runs : pump[q] = "next" => ~ended[q] /\ sequence[q] = chunks[q])'
    BY <1>9, Zenon DEF Counting
  <2>2. (\A q \in Runs : pump[q] = "ack" => ended[q] \/ sequence[q] = chunks[q])'
    BY <1>9 DEF Counting
  <2>3. (\A q \in Runs : q >= nextId => sequence[q] = 0)'
    BY <1>9 DEF Counting
  <2>4. (\A i \in Work("input") : toWorker[i].eof \/ toWorker[i].sequence <= MaxChunks)'
    BY <1>2, <1>9, Zenon DEF Counting, KeepsWork
  <2>5. (intake.received <= intake.sequence)'
    BY <1>1, <1>8, <1>6, <1>7, <1>9 DEF Counting, NoIntake
  <2> QED
    BY <2>1, <2>2, <2>3, <2>4, <2>5, Zenon DEF Counting
<1>17. PumpReleased'
  BY <1>9, Zenon DEF PumpReleased
<1>18. Blame'
  <2>1. (\A i \in Work("cancel") : aborted[toWorker[i].id] \/ inputError[toWorker[i].id])'
    BY <1>2, <1>9, Zenon DEF Blame, KeepsWork
  <2>2. (job # 0 /\ session.cancelled =>
           aborted[job] \/ inputError[job] \/ intake.error \/ feedError)'
    BY <1>1, <1>8, <1>6, <1>7, <1>9 DEF Blame, Scalars, NoIntake, NoSession
  <2> QED
    BY <2>1, <2>2, Zenon DEF Blame
<1>19. CancelledOnlyIfAsked'
  <2>1. outcome'[active] = "cancelled" => aborted[active] \/ inputError[active]
    <3>1. job # 0 /\ session.cancelled =>
            aborted[active] \/ inputError[active] \/ intake.error \/ feedError
      BY <1>6 DEF Blame
    <3>2. outcome'[active] = IF feedError \/ intake.error THEN "error" ELSE st
      BY <1>1, <1>6, <1>8 DEF Tables
    <3> QED
      BY <1>5, <1>8, <3>1, <3>2
  <2>2. \A r \in Runs : r # active => outcome'[r] = outcome[r]
    BY <1>1, <1>6, <1>8 DEF Tables
  <2> QED
    BY <1>9, <2>1, <2>2 DEF CancelledOnlyIfAsked
<1> QED
  BY <1>11, <1>12, <1>13, <1>14, <1>15, <1>16, <1>17, <1>18, <1>19

\* A failure of the worker that ends its thread drops the job.
LEMMA CrashStopsStep ==
  ASSUME IInv, Crash(TRUE)
  PROVE  IInv'
<1> USE CommandAssumption DEF IInv, Runs
<1>1. Scalars /\ Tables
  BY TypeParts, Zenon
<1> DEFINE m == [type |-> "crash"]
<1>2. DropsWork
  BY SameQueues, Zenon DEF Crash, Terminate
<1>3. m \in ToHost /\ m.type = "crash"
  BY <1>2, WorkKinds DEF Crash, ToHost, Arrived, TakesWork
<1>4. Sends(m)
  BY <1>3, Sent DEF Crash
<1>5. \A k \in Answers' : k \in Answers /\ toHost'[k] = toHost[k]
  BY <1>3, <1>4, Zenon DEF Sends, Answers
<1>6.
     /\ up
     /\ up' = FALSE
     /\ runtime' = FALSE
     /\ job' = 0
     /\ intake' = NoIntake
     /\ session' = NoSession
     /\ feeder' = "off"
     /\ feedError' = FALSE
  BY <1>1, <1>2, <1>3, <1>4, <1>5 DEF Crash, hostVars, workerVars, engineVars
<1>7. UNCHANGED <<host, active, nextId, aborted, pump, chunks, sequence, ended, inputError,
                  settled, lastId, outcome>>
  BY ZenonT(60) DEF Crash, hostVars, workerVars, engineVars
<1> HIDE DEF m
<1>8. toWorker' \in Seq(ToWorker) /\ toHost' \in Seq(ToHost)
  BY <1>1, <1>2, <1>3, <1>4, <1>5, <1>6, <1>7 DEF TypeOK, DropsWork, Sends
<1>9. TypeOK'
  <2>1. (up \in BOOLEAN)'
    BY <1>6, <1>1, Zenon DEF Scalars, Tables
  <2>2. (runtime \in BOOLEAN)'
    BY <1>6, <1>1, Zenon DEF Scalars, Tables
  <2>3. (job \in 0 .. MaxRuns)'
    BY <1>6, <1>1 DEF Scalars, Tables
  <2>4. (intake \in [streaming : BOOLEAN, queue : Seq(0 .. MaxChunks), eof : BOOLEAN,
                     sequence : 0 .. MaxChunks + 1, received : 0 .. MaxChunks, error : BOOLEAN])'
    BY <1>6, NoTypes
  <2>5. (session \in [state : States, cancelled : BOOLEAN, eof : BOOLEAN,
                      input : Seq(1 .. MaxChunks)])'
    BY <1>6, NoTypes
  <2>6. (feeder \in {"off", "next", "pause"})'
    BY <1>6, <1>1 DEF TypeOK
  <2>7. (feedError \in BOOLEAN)'
    BY <1>6, <1>1, Zenon DEF TypeOK
  <2> HIDE DEF Runs
  <2>8. Streams'
    BY <2>4, <2>5, <2>6, <2>7 DEF Streams
  <2>9. Tables'
    BY <1>1, <1>7 DEF Tables
  <2>10. (Scalars /\ host \in {"starting", "ready", "failed", "disposed"})'
    BY <1>1, TypeParts, <1>7, <1>8, <2>1, <2>2, <2>3 DEF Scalars
  <2> QED
    BY <1>8, <2>8, <2>9, <2>10, TypeWhole
<1>10. Lifecycle'
  <2>1. (~up => toWorker = <<>> /\ job = 0)'
    BY <1>1, <1>6, <1>2, <1>5, <1>7, Zenon DEF Lifecycle, DropsWork, Scalars
  <2>2. (host \in {"failed", "disposed"} => ~up /\ toHost = <<>>)'
    BY <1>1, <1>6, <1>4, <1>3, <1>5, <1>7, Zenon DEF Lifecycle, Sends, Scalars
  <2>3. (Work("init") # {} =>
           Len(toWorker) = 1 /\ host = "starting" /\ News({"ready"}) = {} /\ News({"initError"}) = {})'
    BY <1>2, <1>4, <1>3, <1>7, Zenon DEF Lifecycle, DropsWork, Sends
  <2>4. (News({"initError"}) # {} => host = "starting" /\ News({"ready"}) = {})'
    BY <1>4, <1>3, <1>7, Zenon DEF Lifecycle, Sends
  <2>5. (host = "ready" \/ News({"ready"}) # {} => (up => runtime))'
    BY <1>1, <1>6, <1>4, <1>3, <1>5, <1>7, Zenon DEF Lifecycle, Sends, Scalars
  <2> QED
    BY <2>1, <2>2, <2>3, <2>4, <2>5 DEF Lifecycle
<1>11. OnePlace'
  <2>1. (active # 0 => host = "ready" /\ nextId = active + 1)'
    BY <1>7, Zenon DEF OnePlace
  <2>2. (lastId < nextId)'
    BY <1>7, Zenon DEF OnePlace
  <2>3. (\A i \in Work("run") : toWorker[i].id = active)'
    BY <1>2, <1>7, Zenon DEF OnePlace, DropsWork
  <2>4. (Work("run") # {} =>
           active # 0 /\ lastId < active /\ outcome[active] = "no" /\ job = 0 /\ Answers = {})'
    BY <1>1, <1>6, <1>2, <1>4, <1>3, <1>5, <1>7, Zenon DEF OnePlace, DropsWork, Sends, Answers, Scalars
  <2>5. (job # 0 => job = active /\ outcome[active] = "no" /\ Answers = {})'
    BY <1>1, <1>6, <1>4, <1>3, <1>5, <1>7, Zenon DEF OnePlace, Sends, Answers, Scalars
  <2>6. (\A k \in Answers : toHost[k].id = active)'
    BY <1>4, <1>3, <1>7 DEF OnePlace, Sends, Answers
  <2>7. (Answers # {} => active # 0 /\ outcome[active] # "no")'
    BY <1>4, <1>3, <1>7, Zenon DEF OnePlace, Sends, Answers
  <2> QED
    BY <2>1, <2>2, <2>3, <2>4, <2>5, <2>6, <2>7 DEF OnePlace
<1>12. Single'
  BY <1>2, <1>4, <1>3, <1>7 DEF Single, DropsWork, Sends, Answers
<1>13. Ledger'
  <2>1. (\A q \in Runs : settled[q] # "no" <=> q < nextId /\ q # active)'
    BY <1>7 DEF Ledger
  <2>2. (\A q \in Runs : q >= nextId => outcome[q] = "no")'
    BY <1>7 DEF Ledger
  <2>3. (\A q \in Runs : settled[q] \notin {"no", "crashed"} => outcome[q] # "no")'
    BY <1>7 DEF Ledger
  <2>4. (\A q \in Runs : settled[q] = "crashed" => ~up /\ host = "disposed")'
    BY <1>1, <1>6, <1>5, <1>7, Zenon DEF Ledger
  <2> QED
    BY <2>1, <2>2, <2>3, <2>4 DEF Ledger
<1>14. Counting'
  <2>1. (\A q \in Runs : pump[q] = "next" => ~ended[q] /\ sequence[q] = chunks[q])'
    BY <1>7, Zenon DEF Counting
  <2>2. (\A q \in Runs : pump[q] = "ack" => ended[q] \/ sequence[q] = chunks[q])'
    BY <1>7, Zenon DEF Counting
  <2>3. (\A q \in Runs : q >= nextId => sequence[q] = 0)'
    BY <1>7 DEF Counting
  <2>4. (\A i \in Work("input") : toWorker[i].eof \/ toWorker[i].sequence <= MaxChunks)'
    BY <1>2, <1>7, Zenon DEF Counting, DropsWork
  <2>5. (intake.received <= intake.sequence)'
    BY <1>1, <1>6, <1>5, <1>7 DEF Counting, NoIntake
  <2> QED
    BY <2>1, <2>2, <2>3, <2>4, <2>5 DEF Counting
<1>15. PumpReleased'
  BY <1>7, Zenon DEF PumpReleased
<1>16. Blame'
  <2>1. (\A i \in Work("cancel") : aborted[toWorker[i].id] \/ inputError[toWorker[i].id])'
    BY <1>2, <1>7, Zenon DEF Blame, DropsWork
  <2>2. (job # 0 /\ session.cancelled =>
           aborted[job] \/ inputError[job] \/ intake.error \/ feedError)'
    BY <1>1, <1>6, <1>5, <1>7 DEF Blame, Scalars, NoIntake, NoSession
  <2> QED
    BY <2>1, <2>2, Zenon DEF Blame
<1>17. CancelledOnlyIfAsked'
  BY <1>7 DEF CancelledOnlyIfAsked
<1> QED
  BY <1>9, <1>10, <1>11, <1>12, <1>13, <1>14, <1>15, <1>16, <1>17

\* A failure that the thread survives.
LEMMA CrashGoesOnStep ==
  ASSUME IInv, Crash(FALSE)
  PROVE  IInv'
<1> USE CommandAssumption DEF IInv, Runs
<1>1. Scalars /\ Tables
  BY TypeParts
<1> DEFINE m == [type |-> "crash"]
<1>2. KeepsWork
  BY SameQueues, Zenon DEF Crash, workerVars
<1>3. m \in ToHost /\ m.type = "crash"
  BY <1>2, WorkKinds DEF Crash, ToHost, Arrived, TakesWork
<1>4. Sends(m)
  BY <1>3, Sent DEF Crash
<1>5. \A k \in Answers' : k \in Answers /\ toHost'[k] = toHost[k]
  BY <1>3, <1>4, Zenon DEF Sends, Answers
<1>6. up
  BY <1>1, <1>2, <1>3, <1>4, <1>5, Zenon DEF Crash, hostVars, workerVars, engineVars
<1>7. UNCHANGED <<host, active, nextId, aborted, pump, chunks, sequence, ended, inputError,
                  settled, up, runtime, job, lastId, intake, session, feeder, feedError, outcome>>
  BY Zenon DEF Crash, hostVars, workerVars, engineVars
<1> HIDE DEF m
<1>8. toWorker' \in Seq(ToWorker) /\ toHost' \in Seq(ToHost)
  BY <1>1, <1>2, <1>3, <1>4, <1>5, <1>6, <1>7 DEF TypeOK, KeepsWork, Sends
<1>9. TypeOK'
  <2> HIDE DEF Runs
  <2>1. Streams'
    BY TypeParts, <1>7 DEF Streams
  <2>2. Tables'
    BY <1>1, <1>7 DEF Tables
  <2>3. (Scalars /\ host \in {"starting", "ready", "failed", "disposed"})'
    BY <1>1, TypeParts, <1>7, <1>8 DEF Scalars
  <2> QED
    BY <1>8, <2>1, <2>2, <2>3, TypeWhole, Zenon
<1>10. Lifecycle'
  <2>1. (~up => toWorker = <<>> /\ job = 0)'
    BY <1>2, <1>7, Zenon DEF Lifecycle, KeepsWork
  <2>2. (host \in {"failed", "disposed"} => ~up /\ toHost = <<>>)'
    BY <1>1, <1>6, <1>4, <1>3, <1>5, <1>7, Zenon DEF Lifecycle, OnePlace, Sends, Scalars
  <2>3. (Work("init") # {} =>
           Len(toWorker) = 1 /\ host = "starting" /\ News({"ready"}) = {} /\ News({"initError"}) = {})'
    BY <1>2, <1>4, <1>3, <1>7 DEF Lifecycle, KeepsWork, Sends
  <2>4. (News({"initError"}) # {} => host = "starting" /\ News({"ready"}) = {})'
    BY <1>4, <1>3, <1>7, Zenon DEF Lifecycle, Sends
  <2>5. (host = "ready" \/ News({"ready"}) # {} => (up => runtime))'
    BY <1>4, <1>3, <1>7, Zenon DEF Lifecycle, Sends
  <2> QED
    BY <2>1, <2>2, <2>3, <2>4, <2>5 DEF Lifecycle
<1>11. OnePlace'
  BY <1>2, <1>4, <1>3, <1>7, SMT, Z3 DEF OnePlace, KeepsWork, Sends, Answers
<1>12. Single'
  BY <1>2, <1>4, <1>3, <1>7 DEF Single, KeepsWork, Sends, Answers
<1>13. Ledger'
  BY <1>7, Zenon DEF Ledger
<1>14. Counting'
  BY <1>2, <1>7 DEF Counting, KeepsWork
<1>15. PumpReleased'
  BY <1>7, Zenon DEF PumpReleased
<1>16. Blame'
  BY <1>2, <1>7 DEF Blame, KeepsWork
<1>17. CancelledOnlyIfAsked'
  BY <1>7 DEF CancelledOnlyIfAsked
<1> QED
  BY <1>9, <1>10, <1>11, <1>12, <1>13, <1>14, <1>15, <1>16, <1>17

-----------------------------------------------------------------------------
(* The invariant and what follows from it.                                 *)

\* The first state, with init on its way, satisfies the invariant.
LEMMA InitInv == Init => IInv
<1> SUFFICES ASSUME Init PROVE IInv
  OBVIOUS
<1> USE CommandAssumption DEF CommandAssumption, Runs
<1>1. Len(toWorker) = 1 /\ toWorker[1].type = "init" /\ toWorker \in Seq(ToWorker)
  BY DEF Init, ToWorker
<1>2. /\ \A type : type # "init" => Work(type) = {}
      /\ \A types : News(types) = {}
  BY <1>1 DEF Init, Work, News
<1>3. TypeOK
  <2>1. intake \in [streaming : BOOLEAN, queue : Seq(0 .. MaxChunks), eof : BOOLEAN,
                    sequence : 0 .. MaxChunks + 1, received : 0 .. MaxChunks, error : BOOLEAN]
    BY DEF Init, NoIntake
  <2>2. session \in [state : States, cancelled : BOOLEAN, eof : BOOLEAN,
                     input : Seq(1 .. MaxChunks)]
    BY DEF Init, NoSession, States
  <2>3. /\ active \in 0 .. MaxRuns /\ nextId \in 1 .. MaxRuns + 1
        /\ job \in 0 .. MaxRuns /\ lastId \in 0 .. MaxRuns
    BY DEF Init
  <2>4. chunks \in [Runs -> 0 .. MaxChunks] /\ sequence \in [Runs -> 0 .. MaxChunks + 1]
    BY DEF Init
  <2>5. toHost \in Seq(ToHost)
    BY DEF Init
  <2> HIDE DEF Runs
  <2>6. /\ aborted \in [Runs -> BOOLEAN] /\ ended \in [Runs -> BOOLEAN] /\ inputError \in [Runs -> BOOLEAN]
        /\ pump \in [Runs -> {"off", "next", "ack"}]
        /\ settled \in [Runs -> Settlements] /\ outcome \in [Runs -> {"no"} \cup Ends]
    BY DEF Init, Settlements
  <2>7. /\ host = "starting" /\ up = TRUE /\ runtime = FALSE /\ feeder = "off" /\ feedError = FALSE
    BY DEF Init
  <2> QED
    BY <1>1, <2>1, <2>2, <2>3, <2>4, <2>5, <2>6, <2>7, Zenon DEF TypeOK
<1>4. Lifecycle
  BY <1>1, <1>2, Zenon DEF Init, Lifecycle
<1>5. OnePlace /\ Single
  BY <1>2, SMT, Z3 DEF Init, OnePlace, Single, Answers
<1>6. Ledger /\ Counting /\ PumpReleased
  BY <1>2 DEF Init, Ledger, Counting, PumpReleased, NoIntake
<1>7. Blame /\ CancelledOnlyIfAsked
  BY <1>2, SMT, Z3 DEF Init, Blame, CancelledOnlyIfAsked
<1> QED
  BY <1>3, <1>4, <1>5, <1>6, <1>7 DEF IInv

\* Every step keeps the invariant.
LEMMA NextInv == IInv /\ [Next]_vars => IInv'
<1> SUFFICES ASSUME IInv, [Next]_vars PROVE IInv'
  OBVIOUS
<1>1. CASE HostNext
  BY <1>1, RunStep, AbortStep, SourceItemStep, SourceThrowsStep, SourceLateStep,
     DisposeStep DEF HostNext
<1>2. CASE HostMessage
  BY <1>2, OnReadyStep, OnInitErrorStep, OnResultStep, OnErrorStep, OnAckStep,
     FailAllStep DEF HostMessage
<1>3. CASE WorkerMessage
  BY <1>3, OnInitStep, OnRunRefusedStep, OnRunEndsStep, OnRunWaitsStep, OnCancelStep, OnInputStep
  DEF WorkerMessage
<1>4. CASE Feed \/ \E st \in TerminalStates : Step(st)
  BY <1>4, FeedStep, StepStep
<1>5. CASE \E stops \in BOOLEAN : Crash(stops)
  <2>1. Crash(TRUE) \/ Crash(FALSE)
    BY <1>5, Zenon
  <2> QED
    BY <2>1, CrashStopsStep, CrashGoesOnStep, Zenon
<1>6. CASE UNCHANGED vars
  <2>1. UNCHANGED <<Work("run"), Work("init"), Work("input"), Work("cancel"), Answers,
                    News({"ready"}), News({"initError"})>>
    BY <1>6, Zenon DEF vars, Work, News, Answers
  <2>2. TypeOK'
    BY <1>6, SMT, Z3 DEF vars, hostVars, workerVars, engineVars, IInv, TypeOK
  <2>3. Lifecycle' /\ OnePlace' /\ Single'
    BY <1>6, <2>1 DEF vars, hostVars, workerVars, engineVars, IInv, Lifecycle, OnePlace, Single
  <2>4. Ledger' /\ Counting' /\ PumpReleased'
    BY <1>6, <2>1, ZenonT(60) DEF vars, hostVars, workerVars, engineVars, IInv, Ledger, Counting, PumpReleased
  <2>5. Blame' /\ CancelledOnlyIfAsked'
    BY <1>6, <2>1, Zenon DEF vars, hostVars, workerVars, engineVars, IInv, Blame, CancelledOnlyIfAsked
  <2> QED
    BY <2>2, <2>3, <2>4, <2>5 DEF IInv
<1> QED
  BY <1>1, <1>2, <1>3, <1>4, <1>5, <1>6 DEF Next

\* The inductive invariant holds of every behaviour of the command host.
THEOREM Invariance == Spec => []IInv
  BY InitInv, NextInv, PTL DEF Spec

\* The invariant implies OneJob.
LEMMA InvOneJob == IInv => OneJob
<1> SUFFICES ASSUME IInv PROVE OneJob
  OBVIOUS
<1>1. Scalars /\ Tables
  BY TypeParts, Zenon DEF IInv
<1>2. CleanupBoundary
  BY <1>1 DEF CleanupBoundary, IInv, Ledger, OnePlace, Scalars, Runs
<1>3. NeverBusy
  <2> SUFFICES ASSUME Arrived("run") PROVE ~Busy(Head(toWorker))
    BY DEF NeverBusy
  <2>1. Head(toWorker) = toWorker[1] /\ 1 \in Work("run")
    BY Taken DEF Arrived, IInv, TypeOK, Work
  <2> QED
    BY <1>1, <2>1 DEF Busy, Arrived, IInv, OnePlace, Lifecycle, Scalars
<1> QED
  BY <1>2, <1>3 DEF OneJob, IInv

\* One job at a time: a run is answered only once its session is over and
\* destroyed (or its worker gone), so the worker is never given a run while
\* it has another; and no input loop waits for an acknowledgement that
\* nobody will send (OneJob).
THEOREM OneJobAlways == Spec => []OneJob
  BY Invariance, InvOneJob, PTL

\* A run that is answered "cancelled" was aborted by its own signal, or its
\* own input source has thrown (CancelledOnlyIfAsked).
THEOREM CancelledAsked == Spec => []CancelledOnlyIfAsked
<1>1. IInv => CancelledOnlyIfAsked
  BY DEF IInv
<1> QED
  BY <1>1, Invariance, PTL

-----------------------------------------------------------------------------
(* CommandWorker implements JobService.                                    *)

Stages == [r \in Runs |-> Stage(r)]

\* The open run, and what the invariant says of the stages of the others.
LEMMA OpenRun ==
  ASSUME IInv, active # 0
  PROVE  /\ active \in Runs /\ settled[active] = "no"
         /\ Stages[active] = IF outcome[active] # "no" THEN "over"
                             ELSE IF ~up THEN "dropped" ELSE IF job = active THEN "running" ELSE "submitted"
<1>1. active \in Runs /\ settled[active] = "no"
  BY DEF IInv, TypeOK, Ledger, Runs
<1> QED
  BY <1>1, Zenon DEF Stages, Stage

\* Steps that leave the run and its job alone keep all stages.
LEMMA Stutter ==
  ASSUME UNCHANGED <<settled, outcome, active, up, job>>
  PROVE  Stages' = Stages
  BY DEF Stages, Stage

\* So do steps without an open run that settle nothing.
LEMMA Silent ==
  ASSUME IInv, active = 0, UNCHANGED <<settled, outcome, active>>
  PROVE  Stages' = Stages
  BY DEF Stages, Stage, Runs

\* run submits the next run, or drops it if the worker is gone.
LEMMA RunSubmits ==
  ASSUME IInv, NEW streaming \in BOOLEAN, NEW size \in 0 .. MaxChunks, Run(streaming, size)
  PROVE  nextId \in Runs /\ Service!Submit(nextId)
<1>1. Scalars /\ Tables
  BY TypeParts DEF IInv
<1>2. /\ host = "ready" /\ active = 0 /\ nextId \in Runs /\ active' = nextId
      /\ UNCHANGED <<settled, outcome, up, job>>
  BY Zenon DEF Run, workerVars, engineVars
<1>3. job = 0
  BY <1>2 DEF IInv, OnePlace
<1>4. \A q \in Runs : Stage(q) = IF q < nextId THEN "answered" ELSE "new"
  BY <1>1, <1>2 DEF IInv, Ledger, Stage, Scalars, Tables, Settlements, Runs
<1>5. \A q \in Runs : Stage(q)' = IF q < nextId THEN "answered"
                                  ELSE IF q # nextId THEN "new" ELSE IF up THEN "submitted" ELSE "dropped"
  BY <1>1, <1>2, <1>3 DEF IInv, Ledger, Stage, Scalars, Tables, Settlements, Runs
<1>6. Stages' = [Stages EXCEPT ![nextId] = IF up THEN "submitted" ELSE "dropped"]
  <2>1. ASSUME NEW r \in Runs, r # nextId PROVE Stage(r)' = Stage(r)
    BY <1>4, <1>5, <2>1
  <2>2. ASSUME NEW r \in Runs, r = nextId PROVE Stage(r)' = IF up THEN "submitted" ELSE "dropped"
    BY <1>1, <1>5, <2>2 DEF Scalars
  <2> QED
    BY <1>2, <2>1, <2>2, Zenon DEF Stages
<1>7. /\ \A q \in Runs : Stages[q] \notin {"submitted", "running", "over", "dropped", "lost"}
      /\ \A q \in 1 .. nextId - 1 : Stages[q] = "answered"
      /\ Stages[nextId] = "new"
  <2>1. \A q \in Runs : Stages[q] = IF q < nextId THEN "answered" ELSE "new"
    BY <1>4 DEF Stages
  <2>2. \A q \in 1 .. nextId - 1 : q \in Runs /\ q < nextId
    BY <1>1, CommandAssumption DEF Scalars, Runs, CommandAssumption
  <2>3. ~(nextId < nextId)
    BY <1>1, SMT, Z3 DEF Scalars
  <2> QED
    BY <1>2, <2>1, <2>2, <2>3
<1> QED
  BY <1>2, <1>6, <1>7, Zenon DEF Service!Submit, Service!Move, Service!Open, Service!Jobs, Stages, Runs

\* The run's request is taken: what the invariant says of it then.
LEMMA RequestTaken ==
  ASSUME IInv, Arrived("run")
  PROVE  /\ Head(toWorker).id = active /\ active # 0 /\ active \in Runs
         /\ up /\ runtime /\ job = 0 /\ outcome[active] = "no" /\ ~Busy(Head(toWorker))
<1>1. Head(toWorker) = toWorker[1] /\ 1 \in Work("run")
  BY Taken DEF Arrived, IInv, TypeOK, Work
<1>2. OneJob
  BY InvOneJob
<1> QED
  BY <1>1, <1>2 DEF OneJob, NeverBusy, Arrived, IInv, OnePlace, Lifecycle, TypeOK, Runs

\* A request that gets a session begins its run.
LEMMA RequestBegins ==
  ASSUME IInv, OnRunWaits(Head(toWorker))
  PROVE  active \in Runs /\ Service!Begin(active)
<1>1. /\ active # 0 /\ active \in Runs /\ up /\ job = 0 /\ outcome[active] = "no" /\ job' = active
      /\ UNCHANGED <<settled, outcome, active, up>>
  BY RequestTaken DEF OnRunWaits, hostVars
<1>2. Stages[active] = "submitted"
  BY <1>1, OpenRun
<1>3. Stages' = [Stages EXCEPT ![active] = "running"]
  BY <1>1, OpenRun, Zenon DEF Stages, Stage
<1> QED
  BY <1>1, <1>2, <1>3 DEF Service!Begin, Service!Move, Stages

\* A session that ends, or a refusal, is the end of its run.
LEMMA SessionOver ==
  ASSUME IInv, active # 0, outcome[active] = "no", up, UNCHANGED <<settled, active, up>>, job' = 0,
         NEW end \in Ends, outcome' = [outcome EXCEPT ![active] = end]
  PROVE  active \in Runs /\ Service!Finish(active)
<1>1. active \in Runs /\ settled[active] = "no" /\ Stages[active] \in {"submitted", "running"}
  BY OpenRun, Zenon
<1>2. outcome'[active] = end /\ end # "no"
  BY <1>1 DEF IInv, TypeOK, Ends, TerminalStates
<1>3. ASSUME NEW r \in Runs, r # active PROVE Stage(r)' = Stage(r)
  BY <1>3, <1>1 DEF IInv, TypeOK, Stage
<1>4. Stages' = [Stages EXCEPT ![active] = "over"]
  BY <1>1, <1>2, <1>3, Zenon DEF Stages, Stage
<1> QED
  BY <1>1, <1>4 DEF Service!Finish, Service!Move, Stages

\* A result or an error answers its run.
LEMMA RunAnswered ==
  ASSUME IInv, active # 0, outcome[active] # "no", UNCHANGED <<outcome, up, job>>, active' = 0,
         NEW how \in Settlements \ {"no", "crashed"}, settled' = [settled EXCEPT ![active] = how]
  PROVE  active \in Runs /\ Service!Answer(active)
<1>1. active \in Runs /\ settled[active] = "no" /\ Stages[active] = "over"
  BY OpenRun
<1>2. settled'[active] = how
  BY <1>1 DEF IInv, TypeOK
<1>3. ASSUME NEW r \in Runs, r # active PROVE Stage(r)' = Stage(r)
  BY <1>3, <1>1, SMT, Z3 DEF IInv, TypeOK, Stage, Runs
<1>4. Stages' = [Stages EXCEPT ![active] = "answered"]
  BY <1>1, <1>2, <1>3, Zenon DEF Stages, Stage
<1> QED
  BY <1>1, <1>4 DEF Service!Answer, Service!Move, Stages

\* failAll loses the open run.
LEMMA RunLost ==
  ASSUME IInv, active # 0, ~up', active' = 0, UNCHANGED outcome,
         settled' = [settled EXCEPT ![active] = "crashed"]
  PROVE  active \in Runs /\ Service!Lose(active)
<1>1. active \in Runs /\ settled[active] = "no" /\ Stages[active] \in {"submitted", "running", "over", "dropped"}
  BY OpenRun, Zenon
<1>2. settled'[active] = "crashed"
  BY <1>1 DEF IInv, TypeOK
<1>3. ASSUME NEW r \in Runs, r # active PROVE Stage(r)' = Stage(r)
  BY <1>3, <1>1 DEF IInv, TypeOK, Stage, Runs
<1>4. Stages' = [Stages EXCEPT ![active] = "lost"]
  BY <1>1, <1>2, <1>3, Zenon DEF Stages, Stage
<1> QED
  BY <1>1, <1>4 DEF Service!Lose, Service!Open, Service!Move, Stages

\* The worker stops under an open run.
LEMMA RunDropped ==
  ASSUME IInv, active # 0, up, ~up', UNCHANGED <<settled, outcome, active>>
  PROVE  \/ Stages' = Stages
         \/ active \in Runs /\ Service!Drop(active)
<1>1. active \in Runs /\ settled[active] = "no"
  BY OpenRun
<1>2. ASSUME NEW r \in Runs, r # active PROVE Stage(r)' = Stage(r)
  BY <1>2, <1>1 DEF Stage
<1>3. CASE outcome[active] # "no"
  BY <1>1, <1>2, <1>3 DEF Stages, Stage
<1>4. CASE outcome[active] = "no"
  <2>1. Stages[active] \in {"submitted", "running"}
    BY <1>4, OpenRun
  <2>2. Stages' = [Stages EXCEPT ![active] = "dropped"]
    BY <1>1, <1>2, <1>4, Zenon DEF Stages, Stage
  <2> QED
    BY <1>1, <2>1, <2>2 DEF Service!Drop, Service!Move, Stages
<1> QED
  BY <1>3, <1>4

\* The first state maps to the first state of JobService.
LEMMA InitMaps == Init => Service!Init
<1> SUFFICES ASSUME Init PROVE \A r \in Runs : Stage(r) = "new"
  BY DEF Service!Init, Service!Jobs, Runs
<1> QED
  BY DEF Init, Stage, Runs

\* Every step maps to a step of JobService or to none.
LEMMA NextMaps == IInv /\ [Next]_vars => Service!Next \/ Stages' = Stages
<1> SUFFICES ASSUME IInv, [Next]_vars PROVE Service!Next \/ Stages' = Stages
  OBVIOUS
<1>0. Service!Next <=> \E r \in Runs : \/ Service!Submit(r) \/ Service!Begin(r) \/ Service!Finish(r)
                                      \/ Service!Answer(r) \/ Service!Drop(r) \/ Service!Lose(r)
  BY DEF Service!Next, Service!Jobs, Runs
<1>1. CASE HostNext
  <2>1. ASSUME NEW streaming \in BOOLEAN, NEW size \in 0 .. MaxChunks, Run(streaming, size) PROVE Service!Next
    BY <1>0, <2>1, RunSubmits
  <2>2. ASSUME NEW r \in Runs, Abort(r) \/ SourceThrows(r) \/ SourceLate(r) \/ \E eof \in BOOLEAN : SourceItem(r, eof)
        PROVE  Stages' = Stages
    BY <2>2, Stutter, Zenon DEF Abort, SourceThrows, SourceLate, SourceItem, workerVars, engineVars
  <2>3. CASE Dispose
    BY <2>3, Silent DEF Dispose, Terminate, Idle
  <2> QED
    BY <1>1, <2>1, <2>2, <2>3 DEF HostNext
<1>2. CASE HostMessage
  <2>1. CASE OnReady \/ OnAck
    BY <2>1, Stutter, Zenon DEF OnReady, OnAck, Idle, workerVars, engineVars
  <2>2. CASE OnInitError
    <3>1. 1 \in News({"initError"})
      BY <2>2, Taken DEF OnInitError, Received, News, IInv, TypeOK
    <3>2. active = 0
      BY <3>1, Zenon DEF IInv, Lifecycle, OnePlace
    <3> QED
      BY <2>2, <3>2, Silent, Zenon DEF OnInitError, Terminate, Idle
  <2>3. ASSUME Received("result") \/ Received("error")
        PROVE  Head(toHost).id = active /\ active # 0 /\ outcome[active] # "no"
    <3>1. Head(toHost) = toHost[1] /\ 1 \in Answers
      BY <2>3, Taken, SMT, Z3 DEF Received, IInv, TypeOK, News, Answers
    <3> QED
      BY <3>1, Zenon DEF IInv, OnePlace
  <2>4. CASE OnResult
    <3> DEFINE how == IF inputError[active] THEN "inputError" ELSE Head(toHost).outcome
    <3>1. Head(toHost).outcome \in TerminalStates
      <4>1. toHost \in Seq(ToHost) /\ toHost # <<>> /\ Head(toHost).type = "result"
        BY <2>4 DEF OnResult, Received, IInv, TypeOK
      <4>2. Head(toHost) \in ToHost
        BY <4>1
      <4> QED
        BY <4>1, <4>2, NewsKinds, Zenon
    <3>2. how \in Settlements \ {"no", "crashed"}
      BY <3>1 DEF Settlements, Ends, TerminalStates
    <3>3. /\ UNCHANGED <<outcome, up, job>> /\ active' = 0
          /\ settled' = [settled EXCEPT ![active] = how]
      BY <2>3, <2>4 DEF OnResult, Settle, workerVars, engineVars
    <3> HIDE DEF how
    <3> QED
      BY <1>0, <2>3, <2>4, <3>2, <3>3, RunAnswered, Zenon DEF OnResult
  <2>5. CASE OnError
    <3>1. /\ UNCHANGED <<outcome, up, job>> /\ active' = 0
          /\ settled' = [settled EXCEPT ![active] = "error"]
      BY <2>3, <2>5 DEF OnError, Settle, workerVars, engineVars
    <3>2. "error" \in Settlements \ {"no", "crashed"}
      BY DEF Settlements, Ends
    <3> QED
      BY <1>0, <2>3, <2>5, <3>1, <3>2, RunAnswered, Zenon DEF OnError
  <2>6. CASE FailAll
    <3>1. CASE active = 0
      BY <2>6, <3>1, Silent DEF FailAll, Terminate, Idle
    <3>2. CASE active # 0
      BY <1>0, <2>6, <3>2, RunLost DEF FailAll, Terminate, Settle
    <3> QED
      BY <3>1, <3>2
  <2> QED
    BY <1>2, <2>1, <2>2, <2>4, <2>5, <2>6 DEF HostMessage
<1>3. CASE WorkerMessage
  <2>1. CASE OnCancel \/ OnInput \/ \E ok \in BOOLEAN : OnInit(ok)
    BY <2>1, Stutter, Zenon DEF OnCancel, OnInput, OnInit, hostVars, engineVars
  <2>2. CASE OnRunRefused(Head(toWorker))
    <3>1. /\ active # 0 /\ outcome[active] = "no" /\ up /\ UNCHANGED <<settled, active, up>> /\ job' = 0
          /\ outcome' = [outcome EXCEPT ![active] = "error"]
      BY <2>2, RequestTaken, Zenon DEF OnRunRefused, hostVars
    <3> QED
      BY <1>0, <3>1, SessionOver, Zenon DEF Ends
  <2>3. ASSUME NEW st \in TerminalStates, OnRunEnds(Head(toWorker), st) PROVE Service!Next
    <3>1. /\ active # 0 /\ outcome[active] = "no" /\ up /\ UNCHANGED <<settled, active, up>> /\ job' = 0
          /\ outcome' = [outcome EXCEPT ![active] = st]
      BY <2>3, RequestTaken, Zenon DEF OnRunEnds, hostVars
    <3> QED
      BY <1>0, <3>1, SessionOver, Zenon DEF Ends
  <2>4. CASE OnRunWaits(Head(toWorker))
    BY <1>0, <2>4, RequestBegins
  <2> QED
    BY <1>3, <2>1, <2>2, <2>3, <2>4 DEF WorkerMessage
<1>4. CASE Feed
  BY <1>4, Stutter DEF Feed, hostVars
<1>5. ASSUME NEW st \in TerminalStates, Step(st) PROVE Service!Next
  <2> DEFINE end == IF feedError \/ intake.error THEN "error" ELSE st
  <2>1. /\ job # 0 /\ UNCHANGED <<settled, active, up>> /\ job' = 0
        /\ outcome' = [outcome EXCEPT ![job] = end]
    BY <1>5, Zenon DEF Step, hostVars
  <2>2. active # 0 /\ job = active /\ outcome[active] = "no" /\ up
    BY <2>1 DEF IInv, OnePlace, Lifecycle
  <2>3. end \in Ends
    BY DEF Ends
  <2> HIDE DEF end
  <2> QED
    BY <1>0, <2>1, <2>2, <2>3, SessionOver, Zenon
<1>6. ASSUME NEW stops \in BOOLEAN, Crash(stops) PROVE Service!Next \/ Stages' = Stages
  <2>1. CASE ~stops
    BY <1>6, <2>1, Stutter DEF Crash, hostVars, workerVars, engineVars
  <2>2. CASE stops
    <3>1. up /\ ~up' /\ UNCHANGED <<settled, outcome, active>>
      BY <1>6, <2>2 DEF Crash, hostVars
    <3> QED
      BY <1>0, <3>1, Silent, RunDropped, Zenon
  <2> QED
    BY <2>1, <2>2, Zenon
<1>7. CASE UNCHANGED vars
  BY <1>7, Stutter DEF vars, hostVars, workerVars, engineVars
<1> QED
  BY <1>1, <1>2, <1>3, <1>4, <1>5, <1>6, <1>7 DEF Next

\* The two threads with their queues implement the abstract job service:
\* whatever the order of their messages, a run is begun, ended and answered
\* once and in this order, and a runtime that fails loses at most one run
\* and takes no other (ImplementsService).
THEOREM ServiceImplemented == Spec => ImplementsService
<1>1. IInv /\ [Next]_vars => [Service!Next]_Stages
  BY NextMaps
<1>2. Spec => Service!Init /\ [][Service!Next]_Stages
  BY <1>1, InitMaps, Invariance, PTL DEF Spec
<1> QED
  BY <1>2, PTL DEF ImplementsService, Service!Spec, Stages

-----------------------------------------------------------------------------
(* The input of a job.                                                     *)

\* A message on its way agrees with what the source of its run has yielded.
Letter(m, c, e, n) ==
  /\ m.type = "input" => /\ m.id < n
                         /\ m.eof => e[m.id] /\ m.sequence = c[m.id] + 1
                         /\ ~m.eof => m.sequence <= c[m.id]
  /\ m.type = "run" => /\ m.id < n
                       /\ m.streaming \/ (e[m.id] /\ m.size = c[m.id])

Mail == \A i \in 1 .. Len(toWorker) : Letter(toWorker[i], chunks, ended, nextId)

\* An item k places after the input that the session has, of a source that has
\* yielded n chunks and may have ended.
Follows(item, last, length, k, n, over) ==
  \/ item = length + k /\ item <= n
  \/ item = Done /\ last /\ over /\ length + k = n + 1

\* The items that the input loop of createWaste has yet to append follow the
\* session's input, up to the last one that was accepted.
Pipeline ==
  job # 0 =>
    /\ ~intake.streaming => feeder = "off"
    /\ feeder = "next" => intake.queue = <<>>
    /\ feeder # "off" =>
         /\ ~session.eof
         /\ \A k \in 1 .. Len(intake.queue) :
              Follows(intake.queue[k], k = Len(intake.queue), Len(session.input), k,
                      chunks[job], ended[job])
         /\ ~intake.eof /\ intake.received <= MaxInput =>
              Len(session.input) + Len(intake.queue) = intake.sequence

FInv == Mail /\ Pipeline /\ InputFaithful

\* What the sources have yielded only grows, and not after their end.
Grows ==
  /\ nextId' >= nextId
  /\ \A r \in Runs : r < nextId => /\ chunks'[r] >= chunks[r]
                                   /\ ended[r] => ended'[r] /\ chunks'[r] = chunks[r]

\* A letter stays true as the sources go on.
LEMMA LetterKept ==
  ASSUME TypeOK, TypeOK', Grows, NEW m \in ToWorker, Letter(m, chunks, ended, nextId)
  PROVE  Letter(m, chunks', ended', nextId')
<1> Tables /\ nextId \in Int
  BY TypeParts DEF Scalars
<1> Tables' /\ nextId' \in Int
  <2>1. chunks' \in [Runs -> 0 .. MaxChunks]
    BY Zenon DEF TypeOK
  <2>2. nextId' \in 1 .. MaxRuns + 1
    BY DEF TypeOK
  <2>3. Tables'
    BY Zenon DEF TypeOK, Tables
  <2> QED
    BY <2>2, <2>3
<1>1. ASSUME m.type = "input" PROVE Letter(m, chunks', ended', nextId')
  <2>1. m.id \in Runs /\ m.sequence \in 1 .. MaxChunks + 1 /\ m.eof \in BOOLEAN
    BY <1>1, WorkKinds, Zenon
  <2>2. m.id < nextId /\ chunks[m.id] \in Int /\ chunks'[m.id] \in Int
    BY <1>1, <2>1 DEF Letter, Tables
  <2> QED
    BY <1>1, <2>1, <2>2 DEF Letter, Grows, Runs
<1>2. ASSUME m.type = "run" PROVE Letter(m, chunks', ended', nextId')
  <2>1. m.id \in Runs /\ m.id < nextId
    BY <1>2, WorkKinds, Zenon DEF Letter
  <2> QED
    BY <1>2, <2>1 DEF Letter, Grows, Runs
<1> QED
  BY <1>1, <1>2 DEF Letter

\* The mail stays true when a letter is taken or all are lost.
LEMMA MailTaken ==
  ASSUME TypeOK, TypeOK', Mail, Grows, KeepsWork \/ DropsWork \/ TakesWork
  PROVE  Mail'
<1> SUFFICES ASSUME NEW i \in 1 .. Len(toWorker')
             PROVE  Letter(toWorker'[i], chunks', ended', nextId')
  BY DEF Mail
<1>1. PICK j \in 1 .. Len(toWorker) : toWorker'[i] = toWorker[j]
  <2>1. toWorker \in Seq(ToWorker) /\ toWorker' \in Seq(ToWorker)
    BY DEF TypeOK
  <2>2. CASE KeepsWork
    BY <2>2 DEF KeepsWork
  <2>3. CASE DropsWork
    BY <2>3 DEF DropsWork
  <2>4. CASE TakesWork
    <3>1. PICK t : t = toWorker'[i].type
      OBVIOUS
    <3>2. i \in Work(t)'
      BY <3>1, Zenon DEF Work
    <3>3. i + 1 \in Work(t) /\ toWorker'[i] = toWorker[i + 1]
      BY <2>4, <3>2 DEF TakesWork
    <3> QED
      BY <3>3 DEF Work
  <2> QED
    BY <2>2, <2>3, <2>4, Zenon
<1>2. toWorker[j] \in ToWorker
  <2>1. toWorker \in Seq(ToWorker)
    BY DEF TypeOK
  <2> QED
    BY <2>1, SMT, Z3
<1> QED
  BY <1>1, <1>2, LetterKept, Zenon DEF Mail

\* It stays true when a true letter is posted.
LEMMA MailPosted ==
  ASSUME TypeOK, TypeOK', Mail, Grows, NEW m, Posts(m), Letter(m, chunks', ended', nextId')
  PROVE  Mail'
<1> SUFFICES ASSUME NEW i \in 1 .. Len(toWorker')
             PROVE  Letter(toWorker'[i], chunks', ended', nextId')
  BY DEF Mail
<1>0. PICK t : t = toWorker'[i].type
  OBVIOUS
<1>1. i \in Work(t)'
  BY <1>0 DEF Work
<1>2. CASE toWorker'[i] = m
  BY <1>2, Zenon
<1>3. CASE i \in Work(t) /\ toWorker'[i] = toWorker[i]
  <2>1. toWorker \in Seq(ToWorker)
    BY DEF TypeOK
  <2>2. i \in 1 .. Len(toWorker) /\ toWorker[i] \in ToWorker
    BY <1>3, <2>1 DEF Work
  <2> QED
    BY <1>3, <2>2, LetterKept, Zenon DEF Mail
<1> QED
  BY <1>1, <1>2, <1>3, Zenon DEF Posts

\* Nothing of a job's input has changed, but its session may be cancelled.
SameInput ==
  /\ job' = job /\ intake' = intake /\ feeder' = feeder
  /\ session'.input = session.input /\ session'.eof = session.eof

\* A step of which the input of the job knows nothing.
LEMMA QuietStep ==
  ASSUME Pipeline, InputFaithful, UNCHANGED <<chunks, ended>>, job' = 0 \/ SameInput
  PROVE  Pipeline' /\ InputFaithful'
<1>1. CASE job' = 0
  BY <1>1, Zenon DEF Pipeline, InputFaithful
<1>2. CASE SameInput
  <2>1. InputFaithful'
    BY <1>2 DEF SameInput, InputFaithful
  <2>2. Pipeline'
    BY <1>2, Zenon DEF SameInput, Pipeline
  <2> QED
    BY <2>1, <2>2, Zenon
<1> QED
  BY <1>1, <1>2

\* Cancelling a session leaves its input alone.
LEMMA CancelKeepsInput ==
  ASSUME Streams
  PROVE  Cancelled(session).input = session.input /\ Cancelled(session).eof = session.eof
  BY DEF Streams, Cancelled

\* The next item of the source is appended, or the input loop ends.
LEMMA NextItem ==
  ASSUME CommandAssumption, TypeOK, InputFaithful, job # 0, ~session.eof,
         NEW item \in 0 .. MaxChunks, NEW last,
         Follows(item, last, Len(session.input), 1, chunks[job], ended[job]),
         Append1(item), UNCHANGED <<job, chunks, ended>>
  PROVE  /\ InputFaithful'
         /\ \/ feeder' = "off"
            \/ /\ feeder' = "pause" /\ item # Done /\ ~session'.eof
               /\ Len(session'.input) = Len(session.input) + 1
<1>1. Streams /\ Tables /\ job \in Runs
  BY TypeParts DEF Scalars, Runs
<1>2. session.input \in Seq(1 .. MaxChunks) /\ Len(session.input) \in Nat
  BY <1>1 DEF Streams
<1>3. chunks[job] \in Nat
  BY <1>1 DEF Tables
<1>4. CASE session' = Cancelled(session) /\ feeder' = "off"
  <2>1. session'.input = session.input /\ session'.eof = session.eof
    BY <1>1, <1>4, CancelKeepsInput
  <2> QED
    BY <1>4, <2>1, Zenon DEF InputFaithful
<1>5. CASE item = Done /\ session' = WithInput(session, <<>>, TRUE) /\ feeder' = "off"
  <2>1. session'.input = session.input
    BY <1>1, <1>2, <1>5 DEF WithInput, Streams
  <2>2. ended[job] /\ Len(session.input) = chunks[job]
    BY <1>2, <1>3, <1>5 DEF Follows, Done
  <2> QED
    BY <1>5, <2>1, <2>2, Zenon DEF InputFaithful
<1>6. CASE /\ item # Done /\ session' = WithInput(session, <<item>>, FALSE)
           /\ feeder' = "pause"
  <2>1. session'.input = session.input \o <<item>> /\ session'.eof = FALSE
    BY <1>1, <1>6, Zenon DEF WithInput, Streams
  <2>2. item = Len(session.input) + 1 /\ item <= chunks[job]
    BY <1>6, Zenon DEF Follows
  <2>3. /\ Len(session'.input) = Len(session.input) + 1
        /\ session'.input[Len(session.input) + 1] = item
        /\ \A n \in 1 .. Len(session.input) : session'.input[n] = session.input[n]
    BY <1>2, <2>1, SMT, Z3
  <2>4. \A n \in 1 .. Len(session'.input) :
          n \in 1 .. Len(session.input) \/ n = Len(session.input) + 1
    BY <1>2, <2>3, SMT, Z3
  <2>5. \A n \in 1 .. Len(session'.input) : session'.input[n] = n
    BY <2>2, <2>3, <2>4 DEF InputFaithful
  <2> QED
    BY <1>6, <2>1, <2>2, <2>3, <2>5, Zenon DEF InputFaithful
<1> QED
  BY <1>4, <1>5, <1>6, Zenon DEF Append1

\* Feed appends the first item of the queue.
LEMMA FeedInput ==
  ASSUME CommandAssumption, IInv, TypeOK', FInv, Feed
  PROVE  FInv'
<1>1. UNCHANGED <<toWorker, job, chunks, ended, nextId>> /\ feeder = "pause"
  BY DEF Feed, hostVars
<1>2. Mail'
  BY <1>1, Zenon DEF Mail, FInv
<1>3. CASE job = 0
  BY <1>1, <1>2, <1>3 DEF FInv, Pipeline, InputFaithful
<1>4. ASSUME job # 0 PROVE Pipeline' /\ InputFaithful'
  <2>1. TypeOK /\ Streams /\ Tables /\ job \in Runs
    BY <1>4, TypeParts DEF IInv, Scalars, Runs
  <2>2. /\ intake.queue \in Seq(0 .. MaxChunks) /\ Len(session.input) \in Nat
        /\ chunks[job] \in Nat
    BY <2>1 DEF Streams, Tables
  <2>3. /\ ~session.eof /\ intake.streaming
        /\ \A k \in 1 .. Len(intake.queue) :
             Follows(intake.queue[k], k = Len(intake.queue), Len(session.input), k,
                     chunks[job], ended[job])
        /\ ~intake.eof /\ intake.received <= MaxInput =>
             Len(session.input) + Len(intake.queue) = intake.sequence
    BY <1>1, <1>4, Zenon DEF FInv, Pipeline
  <2>4. CASE intake.queue = <<>>
    <3>1. feeder' = "next" /\ UNCHANGED <<intake, session>>
      BY <2>4, Zenon DEF Feed
    <3>2. InputFaithful'
      BY <1>1, <3>1 DEF FInv, InputFaithful
    <3>3. Pipeline'
      BY <1>1, <2>3, <2>4, <3>1, Zenon DEF Pipeline
    <3> QED
      BY <3>2, <3>3
  <2>5. CASE intake.queue # <<>>
    <3> DEFINE q == intake.queue
    <3>1. Append1(q[1]) /\ intake' = [intake EXCEPT !.queue = Tail(q)]
      BY <2>2, <2>5, Taken DEF Feed
    <3>2. /\ 1 \in 1 .. Len(q) /\ q[1] \in 0 .. MaxChunks /\ Len(q) \in Nat
          /\ Len(Tail(q)) = Len(q) - 1
          /\ \A k \in 1 .. Len(Tail(q)) : k + 1 \in 1 .. Len(q) /\ Tail(q)[k] = q[k + 1]
      BY <2>2, <2>5, Taken
    <3>3. /\ intake'.queue = Tail(q) /\ intake'.streaming = intake.streaming
          /\ intake'.eof = intake.eof /\ intake'.received = intake.received
          /\ intake'.sequence = intake.sequence
      BY <2>1, <3>1, Zenon DEF Streams
    <3> HIDE DEF q
    <3>4. \A k \in 1 .. Len(q) : Follows(q[k], k = Len(q), Len(session.input), k, chunks[job], ended[job])
      BY <2>3 DEF q
    <3>5. /\ InputFaithful'
          /\ \/ feeder' = "off"
             \/ /\ feeder' = "pause" /\ q[1] # Done /\ ~session'.eof
                /\ Len(session'.input) = Len(session.input) + 1
      <4>1. Follows(q[1], 1 = Len(q), Len(session.input), 1, chunks[job], ended[job])
        BY <3>2, <3>4, Zenon
      <4> QED
        BY <1>1, <1>4, <2>1, <2>3, <3>1, <3>2, <4>1, NextItem DEF FInv
    <3>6. CASE feeder' = "off"
      BY <3>5, <3>6 DEF Pipeline
    <3>7. CASE /\ feeder' = "pause" /\ ~session'.eof
               /\ Len(session'.input) = Len(session.input) + 1
      <4>0. \A i \in Int : Len(session'.input) + i = Len(session.input) + (1 + i)
        <5>1. \A l \in Nat, i \in Int : (l + 1) + i = l + (1 + i)
          OBVIOUS
        <5>2. \A i \in Int : (Len(session.input) + 1) + i = Len(session.input) + (1 + i)
          BY <2>2, <5>1, Zenon
        <5>3. Len(session'.input) = Len(session.input) + 1
          BY <3>7
        <5> QED
          BY <5>2, <5>3, Zenon
      <4>1. ASSUME NEW k \in 1 .. Len(Tail(q))
            PROVE  Follows(Tail(q)[k], k = Len(Tail(q)), Len(session'.input), k, chunks[job], ended[job])
        <5>1. Follows(q[k + 1], k + 1 = Len(q), Len(session.input), k + 1, chunks[job], ended[job])
          BY <3>2, <3>4
        <5>2. Len(session.input) + (k + 1) = Len(session'.input) + k
          <6>1. k \in Int /\ 1 + k = k + 1
            OBVIOUS
          <6> QED
            BY <4>0, <6>1, Zenon
        <5>3. (k + 1 = Len(q)) <=> (k = Len(Tail(q)))
          BY <3>2
        <5> QED
          BY <3>2, <5>1, <5>2, <5>3, Zenon DEF Follows
      <4>2. Len(session'.input) + Len(Tail(q)) = Len(session.input) + Len(q)
        <5>1. Len(Tail(q)) \in Int /\ 1 + Len(Tail(q)) = Len(q)
          BY <3>2
        <5> QED
          BY <4>0, <5>1, Zenon
      <4>3. Pipeline'
        BY <1>1, <2>3, <3>3, <3>7, <4>1, <4>2, Zenon DEF Pipeline, q
      <4> QED
        BY <3>5, <4>3
    <3> QED
      BY <3>5, <3>6, <3>7
  <2> QED
    BY <2>4, <2>5
<1> QED
  BY <1>2, <1>3, <1>4 DEF FInv

\* An item that is accepted is the next of its source: it follows the queue.
LEMMA AcceptInput ==
  ASSUME CommandAssumption, TypeOK, FInv, job # 0, ~intake.eof, intake.streaming,
         NEW m \in ToWorker, m.type = "input", m.id = job,
         Letter(m, chunks, ended, nextId), m.eof \/ m.sequence <= MaxChunks,
         TakeInput(m), UNCHANGED <<job, chunks, ended>>
  PROVE  Pipeline' /\ InputFaithful'
<1> DEFINE received == intake.received + (IF m.eof THEN 0 ELSE 1)
           item == IF m.eof THEN Done ELSE m.sequence
           L == Len(session.input)
           q == intake.queue
<1>1. Streams /\ Tables /\ job \in Runs
  BY TypeParts DEF Scalars, Runs
<1>2. /\ q \in Seq(0 .. MaxChunks) /\ L \in Nat /\ Len(q) \in Nat
      /\ chunks[job] \in Nat /\ intake.sequence \in Nat /\ intake.received \in Nat
  BY <1>1 DEF Streams, Tables
<1>3. m.sequence \in 1 .. MaxChunks + 1 /\ m.eof \in BOOLEAN
  BY WorkKinds
<1>4. /\ item \in 0 .. MaxChunks
      /\ received \in Nat /\ received >= intake.received
  BY <1>2, <1>3 DEF Done, CommandAssumption
<1>5. Pipeline /\ InputFaithful
  BY DEF FInv
<1> HIDE DEF L, q
<1>6. ASSUME session' = Cancelled(session), UNCHANGED feeder,
             \E s, e, n : intake' = [intake EXCEPT !.sequence = s, !.received = n, !.error = e],
             ~intake.eof /\ intake'.received <= MaxInput =>
               intake'.sequence = intake.sequence /\ intake'.received = intake.received
      PROVE  Pipeline' /\ InputFaithful'
  <2>1. session'.input = session.input /\ session'.eof = session.eof
    BY <1>1, <1>6, CancelKeepsInput
  <2>2. /\ intake'.queue = intake.queue /\ intake'.streaming = intake.streaming
        /\ intake'.eof = intake.eof
    BY <1>1, <1>6, Zenon DEF Streams
  <2>3. InputFaithful'
    BY <1>5, <2>1 DEF InputFaithful
  <2>4. Pipeline'
    BY <1>5, <1>6, <2>1, <2>2, Zenon DEF Pipeline
  <2> QED
    BY <2>3, <2>4
<1>7. CASE /\ m.sequence # intake.sequence + 1
           /\ intake' = [intake EXCEPT !.error = TRUE]
           /\ session' = Cancelled(session)
           /\ UNCHANGED feeder
  <2>1. /\ intake' = [intake EXCEPT !.sequence = intake.sequence, !.received = intake.received,
                                    !.error = TRUE]
        /\ intake'.sequence = intake.sequence /\ intake'.received = intake.received
    BY <1>1, <1>7, Zenon DEF Streams
  <2>2. \E s, e, n : intake' = [intake EXCEPT !.sequence = s, !.received = n, !.error = e]
    BY <2>1, Zenon
  <2> QED
    BY <1>6, <1>7, <2>1, <2>2, Zenon
<1>8. CASE /\ received > MaxInput
           /\ intake' = [intake EXCEPT !.sequence = m.sequence, !.received = received, !.error = TRUE]
           /\ session' = Cancelled(session)
           /\ UNCHANGED feeder
  <2>1. intake'.received > MaxInput
    BY <1>1, <1>8 DEF Streams
  <2>2. ~(intake'.received <= MaxInput)
    BY <1>1, <1>4, <1>8, <2>1 DEF CommandAssumption, Streams
  <2> QED
    <3>1. intake' = [intake EXCEPT !.sequence = m.sequence, !.received = received, !.error = TRUE]
      BY <1>8
    <3>2. \E s, e, n : intake' = [intake EXCEPT !.sequence = s, !.received = n, !.error = e]
      <4> HIDE DEF received
      <4> QED
        BY <3>1, Zenon
    <3> QED
      BY <1>6, <1>8, <2>2, <3>2, Zenon
<1>9. CASE /\ m.sequence = intake.sequence + 1
           /\ received <= MaxInput
           /\ intake' = [intake EXCEPT !.sequence = m.sequence, !.received = received, !.eof = m.eof,
                                       !.queue = IF feeder = "next" THEN q ELSE Append(q, item)]
           /\ IF feeder = "next" THEN Append1(item) ELSE UNCHANGED <<session, feeder, feedError>>
  <2>1. /\ intake'.queue = IF feeder = "next" THEN q ELSE Append(q, item)
        /\ intake'.streaming = intake.streaming /\ intake'.sequence = m.sequence
    BY <1>1, <1>9, Zenon DEF Streams
  <2>2. intake.received <= MaxInput
    BY <1>2, <1>4, <1>9 DEF CommandAssumption
  <2>3. CASE feeder = "off"
    <3>1. UNCHANGED <<session, feeder>>
      BY <1>9, <2>3, Zenon
    <3>2. InputFaithful'
      BY <1>5, <3>1 DEF InputFaithful
    <3>3. Pipeline'
      BY <2>1, <2>3, <3>1, Zenon DEF Pipeline
    <3> QED
      BY <3>2, <3>3
  <2>4. ASSUME feeder # "off"
        PROVE  /\ ~session.eof /\ L + Len(q) = intake.sequence
               /\ Follows(item, TRUE, L, Len(q) + 1, chunks[job], ended[job])
    <3>1. ~session.eof /\ L + Len(q) = intake.sequence
      BY <1>5, <2>2, <2>4, Zenon DEF Pipeline, L, q
    <3>2. L + (Len(q) + 1) = m.sequence
      BY <1>2, <1>3, <1>9, <3>1
    <3>3. /\ m.eof => ended[job] /\ m.sequence = chunks[job] + 1
          /\ ~m.eof => m.sequence <= chunks[job]
      BY DEF Letter
    <3> QED
      BY <3>1, <3>2, <3>3 DEF Follows
  <2>5. CASE feeder = "next"
    <3>1. q = <<>> /\ Len(q) = 0
      BY <1>5, <2>5 DEF Pipeline, q
    <3>2. Append1(item) /\ intake'.queue = <<>>
      BY <1>9, <2>1, <2>5, <3>1
    <3>3. Follows(item, TRUE, Len(session.input), 1, chunks[job], ended[job])
      <4>1. Follows(item, TRUE, L, Len(q) + 1, chunks[job], ended[job])
        BY <2>4, <2>5, Zenon
      <4>2. Len(q) + 1 = 1
        BY <3>1
      <4> QED
        BY <4>1, <4>2, Zenon DEF L
    <3>4. /\ InputFaithful'
          /\ \/ feeder' = "off"
             \/ /\ feeder' = "pause" /\ ~session'.eof
                /\ Len(session'.input) = Len(session.input) + 1
      <4> HIDE DEF item
      <4> QED
        BY <1>4, <1>5, <2>4, <2>5, <3>2, <3>3, NextItem, Zenon
    <3>5. L + 1 = m.sequence
      BY <1>2, <1>9, <2>4, <2>5, <3>1
    <3>6. feeder' = "pause" => Len(session'.input) + Len(intake'.queue) = intake'.sequence
      <4>1. Len(intake'.queue) = 0
        BY <3>2
      <4>2. feeder' = "pause" => Len(session'.input) = m.sequence
        BY <3>4, <3>5 DEF L
      <4>3. m.sequence + 0 = m.sequence
        BY <1>3
      <4> QED
        BY <2>1, <4>1, <4>2, <4>3, ZenonT(60)
    <3>7. Pipeline'
      <4>1. \A k \in 1 .. Len(intake'.queue) :
              Follows(intake'.queue[k], k = Len(intake'.queue), Len(session'.input), k,
                      chunks'[job'], ended'[job'])
        BY <3>2
      <4>2. intake'.streaming
        BY <2>1, Zenon
      <4>3. feeder' = "off" \/ (feeder' = "pause" /\ ~session'.eof)
        BY <3>4
      <4> QED
        BY <3>6, <4>1, <4>2, <4>3, Zenon DEF Pipeline
    <3> QED
      BY <3>4, <3>7, Zenon
  <2>6. CASE feeder = "pause"
    <3>1. UNCHANGED <<session, feeder>> /\ intake'.queue = Append(q, item)
      BY <1>9, <2>1, <2>6, Zenon
    <3>2. InputFaithful'
      BY <1>5, <3>1, Zenon DEF InputFaithful
    <3> DEFINE u == Append(q, item)
    <3> HIDE DEF item
    <3>3. /\ Len(u) = Len(q) + 1 /\ u[Len(q) + 1] = item
          /\ \A k \in 1 .. Len(q) : u[k] = q[k]
          /\ \A k \in 1 .. Len(u) : k \in 1 .. Len(q) \/ k = Len(q) + 1
      BY <1>2, Appended
    <3> HIDE DEF u
    <3>4. \A k \in 1 .. Len(q) : Follows(q[k], k = Len(q), L, k, chunks[job], ended[job])
      BY <1>5, <2>6, Zenon DEF Pipeline, L, q
    <3>5. \A k \in 1 .. Len(q) : q[k] # Done
      <4>1. ASSUME NEW k \in 1 .. Len(q), q[k] = Done PROVE FALSE
        <5>1. k = Len(q) /\ L + k = chunks[job] + 1
          BY <1>2, <3>4, <4>1 DEF Follows, Done
        <5>2. m.sequence = chunks[job] + 2
          BY <1>2, <1>9, <2>4, <2>6, <5>1, SMT, Z3
        <5> QED
          BY <1>2, <1>3, <5>2, SMT, Z3 DEF Letter
      <4> QED
        BY <4>1, Zenon
    <3>6. ASSUME NEW k \in 1 .. Len(u)
          PROVE  Follows(u[k], k = Len(u), L, k, chunks[job], ended[job])
      <4>1. CASE k \in 1 .. Len(q)
        BY <3>3, <3>4, <3>5, <4>1 DEF Follows
      <4>2. CASE k = Len(q) + 1
        <5>1. Follows(item, TRUE, L, Len(q) + 1, chunks[job], ended[job])
          BY <2>4, <2>6, Zenon
        <5> QED
          BY <3>3, <4>2, <5>1 DEF Follows
      <4> QED
        BY <3>3, <4>1, <4>2, Zenon
    <3>7. L + Len(u) = m.sequence
      BY <1>2, <1>9, <2>4, <2>6, <3>3
    <3>8. intake'.queue = u
      BY <3>1 DEF u
    <3>9. Pipeline'
      BY <2>1, <2>4, <2>6, <3>1, <3>6, <3>7, <3>8, Zenon DEF Pipeline, L
    <3> QED
      BY <3>2, <3>9
  <2>7. feeder \in {"off", "next", "pause"}
    BY <1>1 DEF Streams
  <2> QED
    BY <2>3, <2>5, <2>6, <2>7
<1> QED
  BY <1>7, <1>8, <1>9 DEF TakeInput, q

\* Nothing has come of the sources.
LEMMA NoGrowth == ASSUME TypeOK, UNCHANGED <<nextId, chunks, ended>> PROVE Grows
<1>1. nextId \in Int /\ Tables
  BY TypeParts DEF Scalars
<1>2. \A r \in Runs : chunks[r] \in Int
  BY <1>1 DEF Tables
<1> QED
  BY <1>1, <1>2 DEF Grows

\* OnInput takes an item of its job, or ignores the message.
LEMMA OnInputInput ==
  ASSUME CommandAssumption, IInv, TypeOK', FInv, OnInput
  PROVE  FInv'
<1> DEFINE m == toWorker[1]
<1>1. TypeOK /\ Counting
  BY DEF IInv
<1>2. TakesWork
  BY <1>1, TookWork DEF OnInput, Arrived
<1>3. UNCHANGED <<nextId, chunks, ended, job>>
  BY DEF OnInput, hostVars
<1>4. Mail'
  BY <1>1, <1>2, <1>3, NoGrowth, MailTaken, Zenon DEF FInv
<1>5. /\ Head(toWorker) = m /\ m \in ToWorker /\ m.type = "input" /\ 1 \in Work("input")
      /\ Letter(m, chunks, ended, nextId)
  BY <1>2, Zenon DEF OnInput, Arrived, TakesWork, FInv, Mail, Work
<1>6. m.id \in Runs /\ (m.eof \/ m.sequence <= MaxChunks)
  BY <1>1, <1>5, WorkKinds DEF Counting
<1> HIDE DEF m
<1>7. CASE UNCHANGED <<intake, session, feeder>>
  BY <1>3, <1>4, <1>7, QuietStep, Zenon DEF FInv, SameInput
<1>8. CASE job = m.id /\ intake.streaming /\ ~intake.eof /\ TakeInput(m)
  <2>1. job # 0
    BY <1>6, <1>8 DEF Runs
  <2> QED
    BY <1>1, <1>3, <1>4, <1>5, <1>6, <1>8, <2>1, AcceptInput DEF FInv
<1> QED
  BY <1>5, <1>7, <1>8, Zenon DEF OnInput

\* A job starts with the whole of an input that is not a stream.
LEMMA OnRunWaitsInput ==
  ASSUME CommandAssumption, IInv, TypeOK', FInv, OnRunWaits(Head(toWorker))
  PROVE  FInv'
<1> DEFINE m == toWorker[1]
<1>1. TypeOK
  BY DEF IInv
<1>2. TakesWork
  BY <1>1, TookWork DEF OnRunWaits, Arrived
<1>3. UNCHANGED <<nextId, chunks, ended>>
  BY DEF OnRunWaits, hostVars
<1>4. Mail'
  BY <1>1, <1>2, <1>3, NoGrowth, MailTaken DEF FInv
<1>5. /\ Head(toWorker) = m /\ m \in ToWorker /\ m.type = "run"
      /\ Letter(m, chunks, ended, nextId)
  BY <1>2, Zenon DEF OnRunWaits, Arrived, TakesWork, FInv, Mail, Work
<1>6. m.id \in Runs /\ m.streaming \in BOOLEAN /\ m.size \in 0 .. MaxChunks
  BY <1>5, WorkKinds
<1>7. /\ job' = m.id
      /\ intake' = [NoIntake EXCEPT !.streaming = m.streaming]
      /\ session' = [Configured(m) EXCEPT !.state = "waiting"]
      /\ feeder' = IF m.streaming THEN "next" ELSE "off"
  BY <1>5 DEF OnRunWaits
<1> HIDE DEF m
<1>8. chunks[m.id] \in Nat
  BY <1>1, <1>6, TypeParts DEF Tables
<1>9. /\ intake'.queue = <<>> /\ intake'.streaming = m.streaming
      /\ intake'.sequence = 0 /\ Len(intake'.queue) = 0
  BY <1>7 DEF NoIntake
<1>10. CASE m.streaming
  <2>1. session'.input = <<>> /\ session'.eof = FALSE /\ Len(session'.input) = 0
    BY <1>7, <1>10 DEF Configured, NewSession, NoSession
  <2>2. InputFaithful'
    BY <1>3, <1>7, <1>8, <2>1, SMT, Z3 DEF InputFaithful
  <2>3. Pipeline'
    <3>1. Len(session'.input) + Len(intake'.queue) = intake'.sequence
      BY <1>9, <2>1
    <3>2. \A k \in 1 .. Len(intake'.queue) : FALSE
      BY <1>9
    <3>3. feeder' = "next" /\ intake'.streaming
      BY <1>7, <1>9, <1>10
    <3> QED
      BY <1>9, <2>1, <3>1, <3>2, <3>3, Zenon DEF Pipeline
  <2> QED
    BY <1>4, <2>2, <2>3 DEF FInv
<1>11. CASE ~m.streaming
  <2> DEFINE f == [n \in 1 .. m.size |-> n]
  <2>1. f \in Seq(Nat) /\ Len(f) = m.size /\ \A n \in 1 .. m.size : f[n] = n
    BY <1>6
  <2>2. m.size \in Nat
    BY <1>6
  <2> HIDE DEF f
  <2>3. Len(<<>> \o f) = m.size /\ \A n \in 1 .. m.size : (<<>> \o f)[n] = n
    BY <2>1, <2>2
  <2>4. session'.input = <<>> \o f /\ session'.eof = TRUE
    BY <1>7, <1>11 DEF Configured, WithInput, NewSession, NoSession, f
  <2>5. ended[m.id] /\ m.size = chunks[m.id]
    BY <1>5, <1>11 DEF Letter
  <2>6. InputFaithful'
    BY <1>3, <1>7, <1>8, <2>3, <2>4, <2>5 DEF InputFaithful
  <2>7. Pipeline'
    BY <1>7, <1>9, <1>11, Zenon DEF Pipeline
  <2> QED
    BY <1>4, <2>6, <2>7 DEF FInv
<1> QED
  BY <1>6, <1>10, <1>11

\* Run submits a source that has yielded what its message says.
LEMMA RunInput ==
  ASSUME CommandAssumption, IInv, TypeOK', FInv,
         NEW streaming \in BOOLEAN, NEW size \in 0 .. MaxChunks, Run(streaming, size)
  PROVE  FInv'
<1> DEFINE m == [type |-> "run", id |-> nextId, streaming |-> streaming, size |-> size]
<1>1. TypeOK /\ nextId \in Runs /\ nextId' = nextId + 1 /\ Tables
  BY TypeParts, Zenon DEF IInv, Run
<1>2. job = 0 /\ job' = 0
  BY Zenon DEF IInv, OnePlace, Run, workerVars
<1>3. m \in ToWorker /\ Post(m)
  BY <1>1, Zenon DEF Run, ToWorker
<1>4. /\ m.type = "run" /\ m.id = nextId /\ m.streaming = streaming /\ m.size = size
  OBVIOUS
<1> HIDE DEF m
<1>5. Posts(m)
  BY <1>1, <1>3, Posted, Zenon
<1>6. /\ chunks'[nextId] = size /\ ended'[nextId] = ~streaming
      /\ \A r \in Runs : r # nextId => chunks'[r] = chunks[r] /\ ended'[r] = ended[r]
  BY <1>1 DEF Run, Tables
<1>7. \A r \in Runs : chunks[r] \in Int
  BY <1>1, SMT, Z3 DEF Tables
<1>8. Grows
  BY <1>1, <1>6, <1>7 DEF Grows, Runs
<1>9. Letter(m, chunks', ended', nextId')
  <2>1. m.type # "input" /\ m.id < nextId'
    BY <1>1, <1>4 DEF Runs
  <2>2. m.streaming \/ (ended'[m.id] /\ m.size = chunks'[m.id])
    BY <1>4, <1>6, ZenonT(60)
  <2> QED
    BY <2>1, <2>2 DEF Letter
<1>10. Mail'
  BY <1>1, <1>5, <1>8, <1>9, MailPosted DEF FInv
<1> QED
  BY <1>2, <1>10, Zenon DEF FInv, Pipeline, InputFaithful

\* SourceItem posts the source's next item; a source that has ended has none.
LEMMA SourceItemInput ==
  ASSUME CommandAssumption, IInv, TypeOK', FInv,
         NEW r \in Runs, NEW eof \in BOOLEAN, SourceItem(r, eof)
  PROVE  FInv'
<1> DEFINE m == [type |-> "input", id |-> r, sequence |-> sequence[r] + 1, eof |-> eof]
<1>1. TypeOK /\ Tables /\ Counting /\ r = active /\ r # 0
  BY TypeParts, SMT, Z3 DEF IInv, SourceItem, Runs
<1>2. ~ended[r] /\ sequence[r] = chunks[r] /\ chunks[r] \in 0 .. MaxChunks
  BY <1>1 DEF Counting, SourceItem, Tables
<1>3. r < nextId
  <2>1. nextId = active + 1
    BY <1>1, Zenon DEF IInv, OnePlace
  <2>2. active \in Int
    BY <1>1, SMT, Z3 DEF Runs
  <2> QED
    BY <1>1, <2>1, <2>2
<1>4. m \in ToWorker /\ Post(m)
  <2>1. sequence[r] + 1 \in 1 .. MaxChunks + 1
    BY <1>2, SMT, Z3 DEF CommandAssumption
  <2> QED
    BY <2>1 DEF SourceItem, ToWorker
<1>5. m.type = "input" /\ m.id = r /\ m.sequence = chunks[r] + 1 /\ m.eof = eof
  BY <1>2
<1> HIDE DEF m
<1>6. Posts(m)
  BY <1>1, <1>4, Posted, Zenon
<1>7. /\ chunks'[r] = (IF eof THEN chunks[r] ELSE chunks[r] + 1) /\ ended'[r] = eof
      /\ \A s \in Runs : s # r => chunks'[s] = chunks[s] /\ ended'[s] = ended[s]
      /\ nextId' = nextId
  BY <1>1 DEF SourceItem, Tables
<1>8. \A s \in Runs : chunks[s] \in Int
  BY <1>1 DEF Tables
<1>9. nextId \in Int
  BY <1>1, TypeParts DEF Scalars
<1>10. Grows
  BY <1>2, <1>7, <1>8, <1>9, SMT, Z3 DEF Grows
<1>11. Letter(m, chunks', ended', nextId')
  BY <1>2, <1>3, <1>5, <1>7 DEF Letter
<1>12. Mail'
  BY <1>1, <1>6, <1>10, <1>11, MailPosted, Zenon DEF FInv
<1>13. UNCHANGED <<job, intake, session, feeder>>
  BY DEF SourceItem, workerVars, engineVars
<1>14. CASE job # r
  <2>1. job # 0 => job \in Runs
    BY <1>1, TypeParts DEF Scalars, Runs
  <2>2. job # 0 => chunks'[job] = chunks[job] /\ ended'[job] = ended[job]
    BY <1>7, <1>14, <2>1, Zenon
  <2>3. InputFaithful'
    BY <1>13, <2>2 DEF FInv, InputFaithful
  <2>4. Pipeline'
    BY <1>13, <2>2, Zenon DEF FInv, Pipeline
  <2> QED
    BY <1>12, <2>3, <2>4 DEF FInv
<1>15. CASE job = r
  <2>1. Len(session.input) \in Nat /\ chunks[r] \in Nat /\ intake.queue \in Seq(0 .. MaxChunks)
    BY <1>1, <1>2, TypeParts DEF Streams
  <2>2. ~session.eof
    BY <1>1, <1>2, <1>15, Zenon DEF FInv, InputFaithful
  <2>3. chunks'[r] \in Nat /\ chunks'[r] >= chunks[r]
    BY <1>7, <2>1, SMT, Z3
  <2>4. InputFaithful'
    <3>1. /\ Len(session.input) <= chunks[r]
          /\ \A n \in 1 .. Len(session.input) : session.input[n] = n
      BY <1>1, <1>15, Zenon DEF FInv, InputFaithful
    <3>2. Len(session.input) <= chunks'[r]
      BY <2>1, <2>3, <3>1
    <3> QED
      BY <1>1, <1>13, <1>15, <2>2, <3>1, <3>2, Zenon DEF InputFaithful
  <2>5. ASSUME feeder # "off", NEW k \in 1 .. Len(intake.queue)
        PROVE  Follows(intake.queue[k], k = Len(intake.queue), Len(session.input), k,
                       chunks'[r], ended'[r])
    <3>1. intake.queue[k] = Len(session.input) + k /\ intake.queue[k] <= chunks[r]
      BY <1>1, <1>2, <1>15, <2>5, Zenon DEF FInv, Pipeline, Follows
    <3>2. intake.queue[k] \in Int
      BY <2>1
    <3> QED
      BY <2>1, <2>3, <3>1, <3>2, SMT, Z3 DEF Follows
  <2>6. Pipeline'
    BY <1>1, <1>13, <1>15, <2>5, Zenon DEF FInv, Pipeline
  <2> QED
    BY <1>12, <2>4, <2>6 DEF FInv
<1> QED
  BY <1>14, <1>15, Zenon

\* A step that takes nothing of the sources nor of the job's input.
LEMMA Uninvolved ==
  ASSUME TypeOK, TypeOK', FInv, UNCHANGED <<nextId, chunks, ended>>,
         KeepsWork \/ DropsWork \/ TakesWork \/ \E m : Posts(m) /\ m.type = "cancel",
         job' = 0 \/ SameInput
  PROVE  FInv'
<1>1. Grows
  BY NoGrowth
<1>2. Mail'
  <2>1. CASE KeepsWork \/ DropsWork \/ TakesWork
    BY <1>1, <2>1, MailTaken DEF FInv
  <2>2. CASE \E m : Posts(m) /\ m.type = "cancel"
    <3>1. PICK m : Posts(m) /\ m.type = "cancel"
      BY <2>2
    <3>2. Letter(m, chunks', ended', nextId')
      BY <3>1 DEF Letter
    <3> QED
      BY <1>1, <3>1, <3>2, MailPosted DEF FInv
  <2> QED
    BY <2>1, <2>2
<1> QED
  BY <1>2, QuietStep DEF FInv

\* Actions of the embedder's thread that only post, listen or terminate.
LEMMA HostInput ==
  ASSUME CommandAssumption, IInv, TypeOK', FInv, HostNext \/ HostMessage
  PROVE  FInv'
<1> DEFINE Keeps == UNCHANGED <<nextId, chunks, ended>>
<1>1. TypeOK
  BY DEF IInv
<1>2. ASSUME NEW r \in Runs, Abort(r) \/ SourceThrows(r) PROVE FInv'
  <2> DEFINE m == [type |-> "cancel", id |-> r]
  <2>1. Post(m) /\ m \in ToWorker /\ m.type = "cancel"
    BY <1>2, Zenon DEF Abort, SourceThrows, ToWorker
  <2>2. Keeps /\ SameInput
    BY <1>2 DEF Abort, SourceThrows, SameInput, workerVars, engineVars
  <2> HIDE DEF m
  <2>3. Posts(m)
    BY <1>1, <2>1, Posted
  <2> QED
    BY <1>1, <2>1, <2>2, <2>3, Uninvolved, Zenon
<1>3. ASSUME toWorker' = toWorker, Keeps, SameInput PROVE FInv'
  BY <1>1, <1>3, SameQueues, Uninvolved
<1>4. ASSUME Terminate, Keeps PROVE FInv'
  <2>1. DropsWork /\ job' = 0
    BY <1>4, SameQueues, Zenon DEF Terminate
  <2> QED
    BY <1>1, <1>4, <2>1, Uninvolved
<1>5. CASE HostNext
  <2>1. ASSUME NEW r \in Runs, SourceLate(r) PROVE FInv'
    BY <1>3, <2>1 DEF SourceLate, SameInput, workerVars, engineVars
  <2>2. CASE Dispose
    BY <1>4, <2>2 DEF Dispose
  <2> QED
    BY <1>2, <1>5, <2>1, <2>2, RunInput, SourceItemInput, Zenon DEF HostNext
<1>6. CASE HostMessage
  <2>1. CASE OnReady \/ OnResult \/ OnError \/ OnAck
    <3>1. toWorker' = toWorker /\ Keeps /\ SameInput
      BY <2>1 DEF OnReady, OnResult, OnError, OnAck, SameInput, workerVars, engineVars
    <3> QED
      BY <1>3, <3>1, Zenon
  <2>2. CASE OnInitError \/ FailAll
    BY <1>4, <2>2 DEF OnInitError, FailAll
  <2> QED
    BY <1>6, <2>1, <2>2 DEF HostMessage
<1> QED
  BY <1>5, <1>6

\* Actions of the worker's thread.
LEMMA WorkerInput ==
  ASSUME CommandAssumption, IInv, TypeOK', FInv, WorkerMessage
  PROVE  FInv'
<1>1. TypeOK /\ Streams
  BY TypeParts DEF IInv
<1>2. ASSUME toWorker # <<>>, toWorker' = Tail(toWorker), UNCHANGED hostVars, SameInput
      PROVE  FInv'
  <2>1. TakesWork
    BY <1>1, <1>2, TookWork
  <2>2. UNCHANGED <<nextId, chunks, ended>>
    BY <1>2 DEF hostVars
  <2> QED
    BY <1>1, <1>2, <2>1, <2>2, Uninvolved
<1>3. ASSUME NEW ok \in BOOLEAN, OnInit(ok) PROVE FInv'
  BY <1>2, <1>3, Zenon DEF OnInit, Arrived, SameInput, engineVars
<1>4. CASE OnRunRefused(Head(toWorker))
  BY <1>2, <1>4, Zenon DEF OnRunRefused, Arrived, SameInput
<1>5. ASSUME NEW st \in TerminalStates, OnRunEnds(Head(toWorker), st) PROVE FInv'
  BY <1>2, <1>5 DEF OnRunEnds, Arrived, SameInput
<1>6. CASE OnCancel
  <2>1. session'.input = session.input /\ session'.eof = session.eof
    BY <1>1, <1>6, CancelKeepsInput DEF OnCancel
  <2> QED
    BY <1>2, <1>6, <2>1 DEF OnCancel, Arrived, SameInput
<1> QED
  BY <1>3, <1>4, <1>5, <1>6, OnRunWaitsInput, OnInputInput DEF WorkerMessage

\* A session's end and a failure of the worker leave no job, or all as it was.
LEMMA EndInput ==
  ASSUME IInv, TypeOK', FInv,
         \/ \E st \in TerminalStates : Step(st)
         \/ \E stops \in BOOLEAN : Crash(stops)
         \/ UNCHANGED vars
  PROVE  FInv'
<1>1. TypeOK
  BY DEF IInv
<1>2. ASSUME NEW st \in TerminalStates, Step(st) PROVE FInv'
  <2>1. toWorker' = toWorker /\ job' = 0 /\ UNCHANGED <<nextId, chunks, ended>>
    BY <1>2 DEF Step, hostVars
  <2> QED
    BY <1>1, <2>1, SameQueues, Uninvolved, Zenon
<1>3. ASSUME NEW stops \in BOOLEAN, Crash(stops) PROVE FInv'
  <2>1. UNCHANGED <<nextId, chunks, ended>>
    BY <1>3, Zenon DEF Crash, hostVars
  <2>2. \/ toWorker' = <<>> /\ job' = 0
        \/ toWorker' = toWorker /\ SameInput
    BY <1>3, Zenon DEF Crash, SameInput, workerVars, engineVars
  <2> QED
    BY <1>1, <2>1, <2>2, SameQueues, Uninvolved, Zenon
<1>4. CASE UNCHANGED vars
  <2>1. UNCHANGED <<nextId, chunks, ended>> /\ toWorker' = toWorker /\ SameInput
    BY <1>4 DEF vars, hostVars, workerVars, engineVars, SameInput
  <2> QED
    BY <1>1, <2>1, SameQueues, Uninvolved, Zenon
<1> QED
  BY <1>2, <1>3, <1>4

\* Initially there is no job, and the worker's first message is not one of a run.
LEMMA InitInput == Init => FInv
<1> SUFFICES ASSUME Init PROVE FInv
  OBVIOUS
<1>1. toWorker = <<[type |-> "init"]>> /\ job = 0
  BY DEF Init
<1>2. Len(toWorker) = 1 /\ toWorker[1].type = "init"
  BY <1>1
<1>3. \A i \in 1 .. Len(toWorker) : i = 1
  BY <1>2
<1>4. Mail
  BY <1>2, <1>3, Zenon DEF Mail, Letter
<1> QED
  BY <1>1, <1>4, Zenon DEF FInv, Pipeline, InputFaithful

\* Every step keeps what is known of the input.
LEMMA NextInput ==
  ASSUME CommandAssumption, IInv, FInv, [Next]_vars
  PROVE  FInv'
<1>1. TypeOK'
  BY NextInv DEF IInv
<1> QED
  BY <1>1, HostInput, WorkerInput, FeedInput, EndInput DEF Next

\* The session's input is its own run's source, in order and without gaps,
\* through both queues and both input loops; its end comes after every chunk.
THEOREM InputKept == Spec => []InputFaithful
<1>1. IInv /\ FInv /\ [Next]_vars => FInv'
  BY CommandAssumption, NextInput
<1>2. FInv => InputFaithful
  BY DEF FInv
<1> QED
  BY Invariance, InitInput, <1>1, <1>2, PTL DEF Spec
=============================================================================
