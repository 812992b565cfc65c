----------------------------- MODULE JobService -----------------------------
(***************************************************************************)
(* What a command runtime behind createWasteWorker promises its embedder:  *)
(* runs are taken one at a time in the order of their ids; the session of  *)
(* a run, if it gets one, is over before the run is answered, and the run  *)
(* is answered once; a runtime that fails takes its unanswered run with it *)
(* and takes no other.                                                     *)
(***************************************************************************)
EXTENDS Integers

CONSTANT MaxRuns

Jobs == 1 .. MaxRuns

VARIABLE stage

Stages == {"new", "submitted", "running", "over", "dropped", "answered", "lost"}

Open == {"submitted", "running", "over", "dropped"}

Init == stage = [r \in Jobs |-> "new"]

Move(r, from, to) ==
  /\ stage[r] \in from
  /\ stage' = [stage EXCEPT ![r] = to]

\* Nobody may be there to take it any more.
Submit(r) ==
  /\ \A q \in Jobs : stage[q] \notin Open \cup {"lost"}
  /\ \A q \in 1 .. r - 1 : stage[q] = "answered"
  /\ Move(r, {"new"}, "submitted") \/ Move(r, {"new"}, "dropped")

\* The run's session starts.
Begin(r) == Move(r, {"submitted"}, "running")

\* The session ends, or the run is refused one.
Finish(r) == Move(r, {"submitted", "running"}, "over")

Answer(r) == Move(r, {"over"}, "answered")

\* The worker goes away under the run, and the embedder hears of it.
Drop(r) == Move(r, {"submitted", "running"}, "dropped")
Lose(r) == Move(r, Open, "lost")

Next ==
  \E r \in Jobs : Submit(r) \/ Begin(r) \/ Finish(r) \/ Answer(r) \/ Drop(r) \/ Lose(r)

Spec == Init /\ [][Next]_stage
=============================================================================
