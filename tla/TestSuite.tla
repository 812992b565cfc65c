------------------------------ MODULE TestSuite ------------------------------
(***************************************************************************)
(* WasteTestSuite (html-rt/src/test-suite.js): the page's controller of    *)
(* batches of tests, each run in a worker of its own.  Three kinds of call *)
(* reach one controller: the page's buttons (list, then run), a guest's    *)
(* waste-test (guestCommand) and run called directly.                      *)
(*                                                                         *)
(* An action is one task of the page's thread: an event and every promise  *)
(* continuation that it settles.  A request is named by what it is for:    *)
(* the call whose list() awaits it, or the test of the batch that runs.    *)
(***************************************************************************)
EXTENDS Integers, FiniteSets, FiniteSetsExt

CONSTANTS Ui, Guest, Direct,  \* the calls, by kind
          MaxTests,           \* the manifest lists the tests 1 .. MaxTests
          Skipped,            \* the tests that have a skipReason
          Expected,           \* the tests that are expected failures
          Jobs

Calls == Ui \cup Guest \cup Direct
Tests == 1 .. MaxTests
Requests == Calls \cup Tests
NoCall == 0

ASSUME SuiteAssumption ==
  /\ MaxTests \in Nat /\ Jobs \in Nat \ {0}
  /\ Skipped \subseteq Tests /\ Expected \subseteq Tests
  /\ NoCall \notin Calls /\ Calls \cap Tests = {}
  /\ Ui \cap Guest = {} /\ Ui \cap Direct = {} /\ Guest \cap Direct = {}

VARIABLES
  catalogue,     \* the manifest has been enumerated
  running,       \* the call whose batch runs
  guestPending,  \* the guest call being served
  phase,         \* phase[c]: "idle", "listing", "running" or "done"
  exit,          \* exit[c]: the exit code of c, "none" before
  cancelled,     \* cancelled[c]: the flag of the state object of c
  asked,         \* the calls being served when cancel() was called (history)
  worker,        \* worker[q]: the worker of a request, "none" unless q is open
  strays,        \* the workers whose request is over, by what they do
  next,          \* the first test that no consumer of the batch has taken
  record,        \* record[t]: the status recorded for t, "none" before
  answered       \* answered[t]: what the worker of t reported (history)

callVars == <<running, guestPending, phase, exit, cancelled, asked>>
requestVars == <<worker, strays>>
batchVars == <<next, record, answered>>
vars == <<catalogue, callVars, requestVars, batchVars>>

Statuses == {"PASS", "FAIL", "XPASS", "XFAIL", "TIMEOUT", "CANCELLED", "SKIP"}
Reports == {"pass", "fail", "broken"}

\* Every variable has its type: no consumer runs past the last test.
TypeOK ==
  /\ catalogue \in BOOLEAN
  /\ running \in Calls \cup {NoCall} /\ guestPending \in Guest \cup {NoCall}
  /\ phase \in [Calls -> {"idle", "listing", "running", "done"}]
  /\ exit \in [Calls -> {"none", "0", "1", "2", "130"}]
  /\ cancelled \in [Calls -> BOOLEAN]
  /\ asked \subseteq Calls
  /\ worker \in [Requests -> {"none", "creating", "live"}]
  /\ strays \in [{"creating", "live"} -> Nat]
  /\ next \in 1 .. MaxTests + 1
  /\ record \in [Tests -> Statuses \cup {"none"}]
  /\ answered \in [Tests -> Reports \cup {"none"}]

Init ==
  /\ catalogue = FALSE /\ running = NoCall /\ guestPending = NoCall
  /\ phase = [c \in Calls |-> "idle"]
  /\ exit = [c \in Calls |-> "none"]
  /\ cancelled = [c \in Calls |-> FALSE]
  /\ asked = {}
  /\ worker = [q \in Requests |-> "none"]
  /\ strays = [creating |-> 0, live |-> 0]
  /\ next = 1
  /\ record = [t \in Tests |-> "none"]
  /\ answered = [t \in Tests |-> "none"]

-----------------------------------------------------------------------------
(* request and complete: what happens to the requests and their workers.   *)

\* complete() on each request of closing: its worker is terminated, or will
\* be delivered to a request that is over.  Then request() for each of opening.
Exchange(closing, opening) ==
  /\ worker' = [q \in Requests |-> IF q \in opening THEN "creating"
                                   ELSE IF q \in closing THEN "none" ELSE worker[q]]
  /\ strays' = [strays EXCEPT !["creating"] =
                  @ + Cardinality({q \in closing : worker[q] = "creating"})]

Open(q) == worker[q] # "none"
OpenTests == {t \in Tests : Open(t)}

-----------------------------------------------------------------------------
(* consume: free consumers go on from test k, and each awaits the request  *)
(* of the first test that it may run.                                      *)

Runnable(k) == {t \in k .. MaxTests : t \notin Skipped}

Taken(k, free, stop) ==
  {t \in Runnable(k) : ~stop /\ Cardinality({u \in Runnable(k) : u <= t}) <= free}

NextAfter_Stale(k, free, stop) ==
  IF ~stop /\ Cardinality(Runnable(k)) >= free THEN Max(Taken(k, free, stop))
                                               ELSE MaxTests + 1

NextAfter(k, free, stop) ==
  IF ~stop /\ Cardinality(Runnable(k)) >= free THEN Max(Taken(k, free, stop)) + 1
                                               ELSE MaxTests + 1

\* The records of the tests that the consumers pass without a request.
Passed(rec, k, free, stop) ==
  [t \in Tests |->
     IF t \notin k .. NextAfter(k, free, stop) - 1 \/ t \in Taken(k, free, stop) THEN rec[t]
     ELSE IF t \in Skipped THEN "SKIP" ELSE "CANCELLED"]

Status_ErrorExpected(t, report) ==
  CASE report = "pass" -> IF t \in Expected THEN "XPASS" ELSE "PASS"
    [] report \in {"fail", "broken"} -> IF t \in Expected THEN "XFAIL" ELSE "FAIL"
    [] report = "timeout" -> "TIMEOUT"

Status(t, report) ==
  CASE report = "pass" -> IF t \in Expected THEN "XPASS" ELSE "PASS"
    [] report = "fail" -> IF t \in Expected THEN "XFAIL" ELSE "FAIL"
    [] report = "broken" -> "FAIL"
    [] report = "timeout" -> "TIMEOUT"

ExitCode(rec, stop) ==
  IF stop THEN "130"
  ELSE IF \A t \in Tests : rec[t] \in {"PASS", "XFAIL", "SKIP"} THEN "0" ELSE "1"

\* The call c is settled: the promise of run or guestCommand, with its finally.
Settle(c, code) ==
  /\ phase' = [phase EXCEPT ![c] = "done"]
  /\ exit' = [exit EXCEPT ![c] = code]
  /\ running' = IF running = c THEN NoCall ELSE running
  /\ guestPending' = IF guestPending = c THEN NoCall ELSE guestPending

\* Of the batch of c, free consumers go on from test k; closing are the
\* requests that have just ended, rec the records so far.  The batch ends
\* with its last consumer.
Consume(c, k, rec, closing, free) ==
  LET stop == cancelled[c]
      rest == Passed(rec, k, free, stop)
      taken == Taken(k, free, stop)
  IN /\ record' = rest
     /\ next' = NextAfter(k, free, stop)
     /\ Exchange(closing, taken)
     /\ UNCHANGED <<cancelled, asked>>
     /\ IF (OpenTests \ closing) \cup taken = {}
        THEN Settle(c, ExitCode(rest, stop))
        ELSE /\ phase' = [phase EXCEPT ![c] = "running"]
             /\ running' = c
             /\ guestPending' = IF c \in Guest THEN c ELSE guestPending
             /\ UNCHANGED exit

-----------------------------------------------------------------------------
(* The calls.                                                              *)

\* A batch that runs goes on; the records of one that has ended are its
\* caller's.
OtherBatch ==
  IF running # NoCall
  THEN UNCHANGED batchVars
  ELSE next' = 1 /\ record' = [t \in Tests |-> "none"] /\ answered' = [t \in Tests |-> "none"]

\* c ends with code, and has no batch.
Leave(c, code, closing) ==
  /\ Settle(c, code)
  /\ Exchange(closing, {})
  /\ OtherBatch
  /\ UNCHANGED <<cancelled, asked>>

\* run, once the manifest is known: the batch starts, or another one runs.
Enter(c, closing) ==
  \/ /\ running \in {NoCall, c}
     /\ Consume(c, 1, [t \in Tests |-> "none"], closing, Jobs)
     /\ answered' = [t \in Tests |-> "none"]
  \/ /\ running \notin {NoCall, c}
     /\ Leave(c, "2", closing)

\* What follows list(): the selection is not valid, only the listing was
\* wanted, or the batch is run.
AfterList(c, closing) ==
  \/ Leave(c, "2", closing)
  \/ /\ c \notin Direct
     /\ Leave(c, "0", closing)
  \/ Enter(c, closing)

\* list() has to enumerate the manifest.  The state object of a guest's call
\* can cancel that request; the others' cannot.
OpenList(c) ==
  /\ phase' = [phase EXCEPT ![c] = "listing"]
  /\ running' = IF c \in Direct THEN c ELSE running
  /\ guestPending' = IF c \in Guest THEN c ELSE guestPending
  /\ Exchange({}, {c})
  /\ OtherBatch
  /\ UNCHANGED <<exit, cancelled, asked>>

Refused(c) ==
  \/ c \in Guest /\ (running # NoCall \/ guestPending # NoCall)
  \/ c \in Direct /\ running # NoCall

\* A button is pressed (they are disabled while one is served), a guest asks
\* for a batch, or run is called.
Call(c) ==
  /\ phase[c] = "idle"
  /\ c \in Ui => \A d \in Ui : phase[d] \in {"idle", "done"}
  /\ \/ Refused(c) /\ Leave(c, "2", {})
     \/ ~Refused(c) /\ ~catalogue /\ OpenList(c)
     \/ ~Refused(c) /\ catalogue /\ AfterList(c, {})
  /\ UNCHANGED catalogue

-----------------------------------------------------------------------------
(* The end of a request.                                                   *)

Listed(c, report) ==
  \/ report = "pass" /\ AfterList(c, {c}) /\ catalogue' = TRUE
  \/ report # "pass" /\ Leave(c, "2", {c}) /\ UNCHANGED catalogue

Tested(t, report) ==
  /\ Consume(running, next, [record EXCEPT ![t] = Status(t, report)], {t}, 1)
  /\ UNCHANGED catalogue

\* The timer of a request, which runs from request() on.
Timeout_OnceCreated(q) ==
  /\ worker[q] = "live"
  /\ \/ q \in Calls /\ Listed(q, "timeout")
     \/ q \in Tests /\ Tested(q, "timeout") /\ UNCHANGED answered

Timeout(q) ==
  /\ Open(q)
  /\ \/ q \in Calls /\ Listed(q, "timeout")
     \/ q \in Tests /\ Tested(q, "timeout") /\ UNCHANGED answered

\* The worker of a request that waits for it exists, or cannot be had.
Created(q) ==
  /\ worker[q] = "creating"
  /\ worker' = [worker EXCEPT ![q] = "live"]
  /\ UNCHANGED <<catalogue, callVars, strays, batchVars>>

NotCreated(q) ==
  /\ worker[q] = "creating"
  /\ \/ q \in Calls /\ Listed(q, "broken")
     \/ q \in Tests /\ Tested(q, "broken") /\ UNCHANGED answered

\* createWorker ends for a request that is over: a worker is terminated.
CreatedLate_Kept ==
  /\ strays["creating"] > 0
  /\ strays' = [creating |-> strays["creating"] - 1, live |-> strays["live"] + 1]
  /\ UNCHANGED <<catalogue, callVars, worker, batchVars>>

CreatedLate ==
  /\ strays["creating"] > 0
  /\ strays' = [strays EXCEPT !["creating"] = @ - 1]
  /\ UNCHANGED <<catalogue, callVars, worker, batchVars>>

\* A worker's report, complete or not, its crash, or output past the limit.
Answer(q, report) ==
  /\ worker[q] = "live"
  /\ \/ q \in Calls /\ Listed(q, report)
     \/ /\ q \in Tests /\ Tested(q, report)
        /\ answered' = [answered EXCEPT ![q] = report]

-----------------------------------------------------------------------------
(* cancel                                                                  *)

\* The cancel button (enabled while its batch runs), Ctrl-C in a guest that
\* waits for its reply, or the caller of run.
CancelOffered ==
  \/ \E c \in Ui : phase[c] = "running"
  \/ \E c \in Guest \cup Direct : phase[c] \in {"listing", "running"}

\* The requests in the active sets of guestPending and running.
Active == OpenTests \cup {c \in Guest : c = guestPending /\ Open(c)}

\* The state objects of both are cancelled.  A consumer whose request ends
\* passes the remaining tests; a run that still enumerates is not interrupted.
Cancel_OnlyActive ==
  LET targets == {guestPending, running} \ {NoCall}
      batch == IF OpenTests = {} THEN {} ELSE {running}
      ended == batch \cup (Active \cap Calls)
  IN /\ CancelOffered
     /\ asked' = asked \cup targets
     /\ cancelled' = [c \in Calls |-> cancelled[c] \/ c \in ended]
     /\ Exchange(Active, {})
     /\ record' = IF batch = {} THEN record
                  ELSE Passed([t \in Tests |-> IF t \in OpenTests THEN "CANCELLED" ELSE record[t]],
                              next, Jobs, TRUE)
     /\ next' = IF batch = {} THEN next ELSE MaxTests + 1
     /\ phase' = [c \in Calls |-> IF c \in ended THEN "done" ELSE phase[c]]
     /\ exit' = [c \in Calls |-> IF c \in ended THEN "130" ELSE exit[c]]
     /\ running' = IF running \in ended THEN NoCall ELSE running
     /\ guestPending' = IF guestPending \in ended THEN NoCall ELSE guestPending
     /\ UNCHANGED <<catalogue, answered>>

Cancel ==
  LET targets == {guestPending, running} \ {NoCall}
      batch == IF OpenTests = {} THEN {} ELSE {running}
      ended == batch \cup (Active \cap Calls)
  IN /\ CancelOffered
     /\ asked' = asked \cup targets
     /\ cancelled' = [c \in Calls |-> cancelled[c] \/ c \in targets]
     /\ Exchange(Active, {})
     /\ record' = IF batch = {} THEN record
                  ELSE Passed([t \in Tests |-> IF t \in OpenTests THEN "CANCELLED" ELSE record[t]],
                              next, Jobs, TRUE)
     /\ next' = IF batch = {} THEN next ELSE MaxTests + 1
     /\ phase' = [c \in Calls |-> IF c \in ended THEN "done" ELSE phase[c]]
     /\ exit' = [c \in Calls |-> IF c \in ended THEN "130" ELSE exit[c]]
     /\ running' = IF running \in ended THEN NoCall ELSE running
     /\ guestPending' = IF guestPending \in ended THEN NoCall ELSE guestPending
     /\ UNCHANGED <<catalogue, answered>>

Next ==
  \/ \E c \in Calls : Call(c)
  \/ \E q \in Requests : Timeout(q) \/ Created(q) \/ NotCreated(q)
  \/ CreatedLate
  \/ \E q \in Requests, report \in Reports : Answer(q, report)
  \/ Cancel

\* A timer that is set fires unless it is cleared.
Fairness == \A q \in Requests : WF_vars(Timeout(q))

Spec == Init /\ [][Next]_vars /\ Fairness

-----------------------------------------------------------------------------

\* No worker runs for nobody: terminate() reaches every worker, the ones that
\* createWorker delivers after their request has ended included, and a live
\* worker belongs to a request of a call that is being served.
NoOrphan ==
  /\ strays["live"] = 0
  /\ OpenTests # {} => running # NoCall /\ phase[running] = "running"
  /\ \A c \in Calls : Open(c) => phase[c] = "listing"

\* The batch that runs is the only one: it has at most Jobs open requests and
\* no other batch starts before it has closed them all.
OneBatch ==
  /\ Cardinality(OpenTests') <= Jobs
  /\ running # NoCall /\ running' # running => running' = NoCall /\ OpenTests' = {}

\* A batch that ends has a record for every test.
ReportComplete ==
  \A c \in Calls : running = c /\ phase[c] = "running" /\ phase'[c] = "done" =>
    \A t \in Tests : record'[t] # "none"

\* A record says what that test's own worker did in this batch.  An error, a
\* timeout and a cancellation are never an expected failure, and exit code 0
\* means that every test run met its expectation.
ReportHonest ==
  /\ \A t \in Tests :
       /\ record'[t] \in {"PASS", "XPASS"} => answered'[t] = "pass"
       /\ record'[t] = "XFAIL" => answered'[t] = "fail" /\ t \in Expected
  /\ \A c \in Calls : phase[c] = "running" /\ exit[c] # exit'[c] /\ exit'[c] = "0" =>
       \A t \in Tests \ Skipped : answered'[t] = IF t \in Expected THEN "fail" ELSE "pass"

\* A call that was cancelled reports 130 or an error, and no other does; its
\* batch opens no further request.
CancelHonoured ==
  /\ \A c \in Calls : exit[c] # "none" => (exit[c] = "130" => c \in asked)
                                       /\ (c \in asked => exit[c] \in {"130", "2"})
  /\ OpenTests # {} => running \notin asked

\* No test of a batch is run twice.
RunOnce ==
  running # NoCall /\ phase[running] = "running" =>
    \A t \in Tests : record[t] # "none" => ~Open(t)' /\ record'[t] = record[t]

\* Every call is answered, whatever its workers do.
CallsSettle == \A c \in Calls : phase[c] # "idle" ~> phase[c] = "done"

\* running and guestPending name calls that are still being served, so that a
\* call is refused only while another one is.
RefusedOnlyIfBusy ==
  /\ running # NoCall => phase[running] \in {"listing", "running"}
  /\ guestPending # NoCall => phase[guestPending] \in {"listing", "running"}

\* Every worker and every mark of a batch belongs to a call being served.
Served == TypeOK /\ NoOrphan /\ RefusedOnlyIfBusy

\* Batches follow one another, and each test of a batch runs once.
Exclusive == [][OneBatch /\ RunOnce]_vars

\* A report is complete and says what happened.
Truthful == [][ReportComplete /\ ReportHonest]_vars
=============================================================================
