-------------------------- MODULE TestSuiteProofs ---------------------------
(***************************************************************************)
(* What the controller of batches (TestSuite) promises for every set of    *)
(* calls, every manifest and every number of jobs: no worker is left over, *)
(* one batch at a time and each test of it once, reports that say what     *)
(* happened, and cancellations that are honoured.                          *)
(***************************************************************************)
EXTENDS TestSuite, FiniteSetTheorems, WellFoundedInduction, TLAPS

-----------------------------------------------------------------------------
(* The inductive invariant.                                                *)

\* The marks of a call that is being served, and what it leaves behind.
CallOK(c) ==
  /\ phase[c] = "running" => running = c
  /\ phase[c] = "listing" => /\ Open(c)
                             /\ c \in Direct => running = c
                             /\ c \in Guest => guestPending = c
  /\ c \in Guest /\ phase[c] = "running" => guestPending = c
  /\ Open(c) => phase[c] = "listing"
  /\ exit[c] = "none" <=> phase[c] # "done"
  /\ cancelled[c] <=> c \in asked
  /\ c \in asked => \/ phase[c] = "done" /\ exit[c] \in {"130", "2"}
                    \/ phase[c] = "listing" /\ c \in Direct
  /\ exit[c] = "130" => c \in asked

\* A batch has requests open as long as it runs.
Marks ==
  /\ running # NoCall => \/ phase[running] = "running"
                         \/ phase[running] = "listing" /\ running \in Direct
  /\ guestPending # NoCall => phase[guestPending] \in {"listing", "running"}
  /\ OpenTests # {} <=> running # NoCall /\ phase[running] = "running"
  /\ Cardinality(OpenTests) <= Jobs
  /\ strays["live"] = 0

\* Of the batch that runs: the tests before next are open or recorded.
Progress(t) ==
  /\ Open(t) => record[t] = "none" /\ t < next
  /\ t < next /\ ~Open(t) => record[t] # "none"
  /\ t >= next => record[t] = "none"

\* A record says what the worker of the test reported.
Honest(rec, ans, t) ==
  /\ rec[t] = "PASS" => ans[t] = "pass" /\ t \notin Expected
  /\ rec[t] = "XPASS" => ans[t] = "pass"
  /\ rec[t] = "XFAIL" => ans[t] = "fail" /\ t \in Expected
  /\ rec[t] = "SKIP" => t \in Skipped

IInv ==
  /\ TypeOK /\ Marks
  /\ \A c \in Calls : CallOK(c)
  /\ OpenTests # {} => \A t \in Tests : Progress(t)
  /\ \A t \in Tests : Honest(record, answered, t)

-----------------------------------------------------------------------------
(* Numbers and finite sets.                                                *)

\* A set of natural numbers that is not empty has a least one.
LEMMA LeastOf ==
  ASSUME NEW S \in SUBSET Nat, S # {}
  PROVE  \E x \in S : \A y \in S : x <= y
<1> DEFINE Below == {z \in Nat \X Nat : z[1] < z[2]}
<1>1. IsWellFoundedOn(Below, Nat)
  BY NatLessThanWellFounded DEF OpToRel
<1> HIDE DEF Below
<1>2. PICK x \in S : \A y \in S : <<y, x>> \notin Below
  BY <1>1, WFMin, Zenon
<1>3. \A y \in S : ~(y < x)
  BY <1>2, Zenon DEF Below
<1>4. \A y \in S : x <= y
  BY <1>3
<1> QED
  BY <1>4

\* Max of a bounded set: the least of its bounds is in it.
LEMMA MaxIsGreatest ==
  ASSUME NEW n \in Nat, NEW S \in SUBSET (0 .. n), S # {}
  PROVE  Max(S) \in S /\ \A y \in S : y <= Max(S)
<1> DEFINE Bounds == {b \in Nat : \A y \in S : y <= b}
<1>1. Bounds \in SUBSET Nat /\ n \in Bounds
  OBVIOUS
<1>2. PICK b \in Bounds : \A d \in Bounds : b <= d
  BY <1>1, LeastOf, Zenon
<1>3. b \in Nat /\ \A y \in S : y <= b
  BY <1>2
<1>4. b \in S
  <2>1. SUFFICES ASSUME b \notin S PROVE FALSE
    OBVIOUS
  <2>2. \A y \in S : y <= b - 1 /\ b - 1 \in Nat
    BY <1>3, <2>1
  <2>3. b - 1 \in Bounds
    BY <2>2, Zenon
  <2> QED
    BY <1>2, <1>3, <2>3
<1>5. \A y \in S : b >= y
  BY <1>3
<1> QED
  BY <1>4, <1>5, Zenon DEF Max

\* A set of tests is finite.
LEMMA FiniteTests ==
  ASSUME NEW S \in SUBSET Tests
  PROVE  IsFiniteSet(S) /\ Cardinality(S) \in Nat
<1>1. IsFiniteSet(Tests)
  BY SuiteAssumption, FS_Interval DEF Tests
<1>2. IsFiniteSet(S)
  BY <1>1, FS_Subset
<1> QED
  BY <1>2, FS_CardinalityType

-----------------------------------------------------------------------------
(* consume: what free consumers take from test k on.                       *)

\* They take tests that are not skipped, no more than there are consumers, and
\* stop before the first test that is left.
LEMMA Consumers ==
  ASSUME NEW k \in 1 .. MaxTests + 1, NEW free \in Nat \ {0}, NEW stop \in BOOLEAN
  PROVE  /\ Taken(k, free, stop) \in SUBSET (Tests \ Skipped)
         /\ NextAfter(k, free, stop) \in k .. MaxTests + 1
         /\ \A t \in Taken(k, free, stop) : k <= t /\ t < NextAfter(k, free, stop)
         /\ Cardinality(Taken(k, free, stop)) <= free
         /\ stop => Taken(k, free, stop) = {}
         /\ Taken(k, free, stop) = {} => NextAfter(k, free, stop) = MaxTests + 1
<1> DEFINE R == Runnable(k)
           T == Taken(k, free, stop)
           Upto(t) == {u \in R : u <= t}
<1>1. MaxTests \in Nat
  BY SuiteAssumption
<1>2. R \in SUBSET (Tests \ Skipped) /\ \A t \in R : t \in Nat /\ k <= t /\ t <= MaxTests
  BY <1>1 DEF Runnable, Tests
<1>3. T = {t \in R : ~stop /\ Cardinality(Upto(t)) <= free}
  BY DEF Taken
<1>4. T \in SUBSET (Tests \ Skipped) /\ \A t \in T : t \in Nat /\ k <= t /\ t <= MaxTests
  BY <1>2, <1>3
<1>5. T \in SUBSET (0 .. MaxTests)
  BY <1>1, <1>4
<1>6. stop => T = {}
  BY <1>3
<1>7. ~stop /\ R # {} => T # {}
  <2>1. SUFFICES ASSUME ~stop, R # {} PROVE T # {}
    OBVIOUS
  <2>2. R \in SUBSET Nat
    BY <1>2
  <2>3. PICK x \in R : \A y \in R : x <= y
    BY <2>1, <2>2, LeastOf
  <2>4. Upto(x) = {x}
    BY <1>2, <2>3
  <2>5. Cardinality({x}) = 1
    BY FS_Singleton, Zenon
  <2>6. Cardinality(Upto(x)) <= free
    BY <2>4, <2>5
  <2> QED
    BY <1>3, <2>1, <2>3, <2>6
<1>8. T # {} => /\ Max(T) \in T /\ \A y \in T : y <= Max(T)
                /\ Cardinality(T) <= free
  <2>1. SUFFICES ASSUME T # {} PROVE /\ Max(T) \in T /\ \A y \in T : y <= Max(T)
                                     /\ Cardinality(T) <= free
    OBVIOUS
  <2>2. Max(T) \in T /\ \A y \in T : y <= Max(T)
    BY <1>1, <1>5, <2>1, MaxIsGreatest
  <2> HIDE DEF T, R
  <2>3. T \subseteq Upto(Max(T)) /\ Cardinality(Upto(Max(T))) <= free
    BY <1>3, <2>2
  <2>4. Upto(Max(T)) \in SUBSET Tests
    BY <1>2
  <2>5. IsFiniteSet(Upto(Max(T))) /\ Cardinality(Upto(Max(T))) \in Nat
    BY <2>4, FiniteTests
  <2>6. Cardinality(T) <= Cardinality(Upto(Max(T)))
    BY <2>3, <2>5, FS_Subset
  <2>7. T \in SUBSET Tests
    BY <1>4
  <2>8. Cardinality(T) \in Nat
    BY <2>7, FiniteTests
  <2> QED
    BY <2>2, <2>3, <2>5, <2>6, <2>8
<1>9. Cardinality(T) <= free
  <2>1. T = {} => Cardinality(T) = 0
    BY FS_EmptySet
  <2> QED
    BY <1>8, <2>1
<1>10. ~stop /\ Cardinality(R) >= free => R # {}
  <2>1. Cardinality({}) = 0
    BY FS_EmptySet
  <2> QED
    BY <2>1
<1>11. \/ NextAfter(k, free, stop) = MaxTests + 1
       \/ NextAfter(k, free, stop) = Max(T) + 1 /\ T # {}
  BY <1>7, <1>10 DEF NextAfter
<1> HIDE DEF T, R
<1>12. /\ NextAfter(k, free, stop) \in k .. MaxTests + 1
       /\ \A t \in T : k <= t /\ t < NextAfter(k, free, stop)
  BY <1>1, <1>4, <1>8, <1>11
<1>13. T = {} => NextAfter(k, free, stop) = MaxTests + 1
  BY <1>11
<1> QED
  BY <1>4, <1>6, <1>9, <1>12, <1>13 DEF T

\* The records of the tests that are passed: the others keep theirs.
LEMMA PassedRecords ==
  ASSUME NEW k \in 1 .. MaxTests + 1, NEW free \in Nat \ {0}, NEW stop \in BOOLEAN,
         NEW rec \in [Tests -> Statuses \cup {"none"}]
  PROVE  /\ Passed(rec, k, free, stop) \in [Tests -> Statuses \cup {"none"}]
         /\ \A t \in Tests :
              \/ /\ Passed(rec, k, free, stop)[t] = rec[t]
                 /\ \/ t < k \/ t >= NextAfter(k, free, stop)
                    \/ t \in Taken(k, free, stop)
              \/ /\ k <= t /\ t < NextAfter(k, free, stop) /\ t \notin Taken(k, free, stop)
                 /\ Passed(rec, k, free, stop)[t] \in {"SKIP", "CANCELLED"}
                 /\ Passed(rec, k, free, stop)[t] = "SKIP" => t \in Skipped
<1> DEFINE n == NextAfter(k, free, stop)
           T == Taken(k, free, stop)
           rest == Passed(rec, k, free, stop)
<1>1. MaxTests \in Nat /\ n \in k .. MaxTests + 1 /\ n \in Nat /\ k \in Nat
  BY SuiteAssumption, Consumers
<1>2. rest = [t \in Tests |-> IF t \notin k .. n - 1 \/ t \in T THEN rec[t]
                              ELSE IF t \in Skipped THEN "SKIP" ELSE "CANCELLED"]
  BY DEF Passed
<1> HIDE DEF n, T, rest
<1>3. rest \in [Tests -> Statuses \cup {"none"}]
  BY <1>2 DEF Statuses
<1>4. \A t \in Tests : t \in k .. n - 1 <=> k <= t /\ t < n
  BY <1>1 DEF Tests
<1>5. \A t \in Tests : ~(k <= t) => t < k
  BY <1>1 DEF Tests
<1>6. \A t \in Tests : ~(t < n) => t >= n
  BY <1>1 DEF Tests
<1>7. ASSUME NEW t \in Tests
      PROVE  \/ rest[t] = rec[t] /\ (t < k \/ t >= n \/ t \in T)
             \/ /\ k <= t /\ t < n /\ t \notin T
                /\ rest[t] \in {"SKIP", "CANCELLED"}
                /\ rest[t] = "SKIP" => t \in Skipped
  BY <1>2, <1>4, <1>5, <1>6
<1> QED
  BY <1>3, <1>7 DEF n, T, rest

\* request and complete on sets of requests.
LEMMA Exchanged ==
  ASSUME TypeOK, NEW closing \in SUBSET Requests, IsFiniteSet(closing),
         NEW opening \in SUBSET Requests, Exchange(closing, opening)
  PROVE  /\ worker' \in [Requests -> {"none", "creating", "live"}]
         /\ strays' \in [{"creating", "live"} -> Nat] /\ strays'["live"] = strays["live"]
         /\ \A q \in Requests : Open(q)' <=> q \in opening \/ (Open(q) /\ q \notin closing)
<1> DEFINE C == {q \in closing : worker[q] = "creating"}
<1>1. IsFiniteSet(C)
  BY FS_Subset
<1>2. Cardinality(C) \in Nat
  BY <1>1, FS_CardinalityType
<1>3. strays' = [strays EXCEPT !["creating"] = @ + Cardinality(C)]
  BY DEF Exchange
<1> HIDE DEF C
<1>4. strays' \in [{"creating", "live"} -> Nat] /\ strays'["live"] = strays["live"]
  BY <1>2, <1>3 DEF TypeOK
<1>5. worker' = [q \in Requests |-> IF q \in opening THEN "creating"
                                    ELSE IF q \in closing THEN "none" ELSE worker[q]]
  BY DEF Exchange
<1>6. worker' \in [Requests -> {"none", "creating", "live"}]
  BY <1>5 DEF TypeOK
<1>7. \A q \in Requests : Open(q)' <=> q \in opening \/ (Open(q) /\ q \notin closing)
  BY <1>5 DEF Open
<1> QED
  BY <1>4, <1>6, <1>7

-----------------------------------------------------------------------------
(* Every step keeps the invariant and is one that the action properties    *)
(* allow.                                                                  *)

StepOK == IInv' /\ OneBatch /\ RunOnce /\ ReportComplete /\ ReportHonest

\* The kinds of call and what a test and a call never share.
LEMMA Kinds ==
  /\ \A c \in Calls : c # NoCall /\ c \notin Tests /\ c \in Requests
  /\ \A t \in Tests : t \in Requests /\ t \in Nat /\ t >= 1 /\ t <= MaxTests
  /\ \A c \in Guest : c \in Calls /\ c \notin Direct /\ c # NoCall
  /\ \A c \in Direct : c \in Calls
<1>1. \A t \in Tests : t \in Nat /\ t >= 1 /\ t <= MaxTests
  BY SuiteAssumption DEF Tests
<1> QED
  BY <1>1, SuiteAssumption DEF Calls, Requests

\* A step that changes at most the records of a batch that does not run: for
\* the calls that have no batch of their own.
LEMMA OtherBatchKept ==
  ASSUME IInv, OtherBatch, OpenTests' = OpenTests
  PROVE  /\ next' \in 1 .. MaxTests + 1
         /\ record' \in [Tests -> Statuses \cup {"none"}]
         /\ answered' \in [Tests -> Reports \cup {"none"}]
         /\ \A t \in Tests : Honest(record', answered', t)
         /\ running # NoCall => next' = next /\ record' = record /\ answered' = answered
<1>1. CASE running # NoCall
  <2>1. next' = next /\ record' = record /\ answered' = answered
    BY <1>1 DEF OtherBatch, batchVars
  <2> QED
    BY <2>1 DEF IInv, TypeOK
<1>2. CASE running = NoCall
  <2>1. /\ next' = 1 /\ record' = [t \in Tests |-> "none"]
        /\ answered' = [t \in Tests |-> "none"]
    BY <1>2 DEF OtherBatch
  <2>2. next' \in 1 .. MaxTests + 1
    BY <2>1, SuiteAssumption
  <2> QED
    BY <1>2, <2>1, <2>2 DEF Honest
<1> QED
  BY <1>1, <1>2

\* A call ends without a batch.
LEMMA LeaveStep ==
  ASSUME IInv, NEW c \in Calls, NEW code \in {"0", "2"}, NEW closing,
         \/ phase[c] = "idle" /\ closing = {}
         \/ phase[c] = "listing" /\ closing = {c},
         code = "0" => c \notin Direct,
         Leave(c, code, closing), catalogue' \in BOOLEAN
  PROVE  StepOK
<1>1. /\ TypeOK /\ Marks /\ \A d \in Calls : CallOK(d)
  BY DEF IInv
<1>2. /\ phase' = [phase EXCEPT ![c] = "done"]
      /\ exit' = [exit EXCEPT ![c] = code]
      /\ running' = IF running = c THEN NoCall ELSE running
      /\ guestPending' = IF guestPending = c THEN NoCall ELSE guestPending
      /\ cancelled' = cancelled /\ asked' = asked
      /\ Exchange(closing, {}) /\ OtherBatch
  BY DEF Leave, Settle
<1>3. closing \in SUBSET Requests /\ IsFiniteSet(closing) /\ closing \subseteq {c}
  <2>1. IsFiniteSet({}) /\ IsFiniteSet({c})
    BY FS_EmptySet, FS_Singleton, Zenon
  <2> QED
    BY <2>1, Kinds
<1>4. /\ worker' \in [Requests -> {"none", "creating", "live"}]
      /\ strays' \in [{"creating", "live"} -> Nat] /\ strays'["live"] = strays["live"]
      /\ \A q \in Requests : Open(q)' <=> Open(q) /\ q \notin closing
  BY <1>1, <1>2, <1>3, Exchanged
<1>5. /\ \A t \in Tests : Open(t)' <=> Open(t)
      /\ \A d \in Calls : Open(d)' <=> d # c /\ Open(d)
  BY <1>1, <1>3, <1>4, Kinds DEF CallOK
<1>6. OpenTests' = OpenTests
  BY <1>5 DEF OpenTests
<1>7. /\ next' \in 1 .. MaxTests + 1
      /\ record' \in [Tests -> Statuses \cup {"none"}]
      /\ answered' \in [Tests -> Reports \cup {"none"}]
      /\ \A t \in Tests : Honest(record', answered', t)
      /\ running # NoCall => next' = next /\ record' = record /\ answered' = answered
  BY <1>2, <1>6, OtherBatchKept
<1>8. /\ phase'[c] = "done" /\ exit'[c] = code
      /\ \A d \in Calls \ {c} : phase'[d] = phase[d] /\ exit'[d] = exit[d]
  BY <1>1, <1>2 DEF TypeOK
<1>9. TypeOK'
  BY <1>1, <1>2, <1>4, <1>7 DEF TypeOK
<1>10. running = c => OpenTests = {} /\ phase[c] = "listing"
  BY <1>1, Kinds DEF Marks
<1>11. c \in asked => c \in Direct
  BY <1>1 DEF CallOK
<1>12. \A d \in Calls : CallOK(d)'
  <2>1. CallOK(c)'
    BY <1>1, <1>2, <1>5, <1>8, <1>11 DEF CallOK
  <2>2. ASSUME NEW d \in Calls, d # c PROVE CallOK(d)'
    BY <1>1, <1>2, <1>5, <1>8, <2>2 DEF CallOK
  <2> QED
    BY <2>1, <2>2
<1>13. Marks'
  <2>1. running' # NoCall => running' = running /\ running # c /\ running \in Calls
    BY <1>1, <1>2 DEF TypeOK
  <2>2. guestPending' # NoCall => guestPending' = guestPending /\ guestPending # c /\ guestPending \in Calls
    BY <1>1, <1>2, Kinds DEF TypeOK
  <2>3. OpenTests' # {} <=> running' # NoCall /\ phase'[running'] = "running"
    BY <1>1, <1>2, <1>6, <1>8, <1>10, <2>1 DEF Marks
  <2> QED
    BY <1>1, <1>4, <1>6, <1>8, <2>1, <2>2, <2>3 DEF Marks
<1>14. OpenTests' # {} => \A t \in Tests : Progress(t)'
  BY <1>1, <1>5, <1>6, <1>7 DEF IInv, Marks, Progress
<1>15. IInv'
  BY <1>7, <1>9, <1>12, <1>13, <1>14 DEF IInv, Honest
<1>16. OneBatch
  BY <1>1, <1>2, <1>6, <1>10 DEF OneBatch, Marks
<1>17. RunOnce
  <2>1. SUFFICES ASSUME running # NoCall, phase[running] = "running",
                        NEW t \in Tests, record[t] # "none"
                 PROVE  ~Open(t)' /\ record'[t] = record[t]
    BY DEF RunOnce
  <2>2. OpenTests # {}
    BY <1>1, <2>1 DEF Marks
  <2> QED
    BY <1>5, <1>7, <2>1, <2>2 DEF IInv, Progress
<1>18. ReportComplete
  BY <1>8, <1>10 DEF ReportComplete
<1>19. ReportHonest
  <2>1. \A d \in Calls : phase[d] = "running" => exit'[d] = exit[d]
    BY <1>8
  <2> QED
    BY <1>7, <2>1 DEF ReportHonest, Honest
<1> QED
  BY <1>15, <1>16, <1>17, <1>18, <1>19 DEF StepOK

\* The rest of a batch: free consumers go on, and the batch ends with the last.
LEMMA ConsumeStep ==
  ASSUME IInv, NEW c \in Calls, running \in {NoCall, c}, phase[c] # "done",
         NEW k \in 1 .. MaxTests + 1, NEW rec \in [Tests -> Statuses \cup {"none"}],
         NEW closing \in SUBSET Requests, IsFiniteSet(closing), NEW free \in Nat \ {0},
         Open(c) => c \in closing, closing \cap Calls \subseteq {c},
         Cardinality(OpenTests \ closing) + free <= Jobs,
         \A t \in Tests :
           /\ t \in OpenTests \ closing => rec[t] = "none" /\ t < k
           /\ t < k /\ t \notin OpenTests \ closing => rec[t] # "none"
           /\ t >= k => rec[t] = "none",
         phase[c] = "running" => \A t \in Tests : record[t] # "none" => rec[t] = record[t] /\ t < k,
         c \in Guest => guestPending \in {NoCall, c},
         answered' \in [Tests -> Reports \cup {"none"}],
         \A t \in Tests : Honest(rec, answered', t),
         Consume(c, k, rec, closing, free), catalogue' \in BOOLEAN
  PROVE  StepOK
<1> DEFINE stop == cancelled[c]
           rest == Passed(rec, k, free, stop)
           taken == Taken(k, free, stop)
           n == NextAfter(k, free, stop)
           rem == OpenTests \ closing
<1>1. /\ TypeOK /\ Marks /\ \A d \in Calls : CallOK(d)
  BY DEF IInv
<1>2. stop \in BOOLEAN
  BY <1>1 DEF TypeOK
<1>3. /\ taken \in SUBSET Tests /\ n \in k .. MaxTests + 1
      /\ \A t \in taken : k <= t /\ t < n
      /\ Cardinality(taken) <= free
      /\ stop => taken = {}
      /\ taken = {} => n = MaxTests + 1
  BY <1>2, Consumers, Zenon
<1>4. /\ rest \in [Tests -> Statuses \cup {"none"}]
      /\ \A t \in Tests :
           \/ rest[t] = rec[t] /\ (t < k \/ t >= n \/ t \in taken)
           \/ /\ k <= t /\ t < n /\ t \notin taken
              /\ rest[t] \in {"SKIP", "CANCELLED"}
              /\ rest[t] = "SKIP" => t \in Skipped
  BY <1>2, PassedRecords
<1>5. /\ record' = rest /\ next' = n /\ Exchange(closing, taken)
      /\ cancelled' = cancelled /\ asked' = asked
  BY DEF Consume
<1>6. \/ rem \cup taken = {} /\ Settle(c, ExitCode(rest, stop))
      \/ /\ rem \cup taken # {}
         /\ phase' = [phase EXCEPT ![c] = "running"] /\ running' = c
         /\ guestPending' = (IF c \in Guest THEN c ELSE guestPending) /\ exit' = exit
  BY DEF Consume
<1> HIDE DEF rest, taken, n
<1>7. taken \in SUBSET Requests
  BY <1>3, Kinds
<1>8. /\ worker' \in [Requests -> {"none", "creating", "live"}]
      /\ strays' \in [{"creating", "live"} -> Nat] /\ strays'["live"] = strays["live"]
      /\ \A q \in Requests : Open(q)' <=> q \in taken \/ (Open(q) /\ q \notin closing)
  BY <1>1, <1>5, <1>7, Exchanged
<1>9. OpenTests' = rem \cup taken
  BY <1>3, <1>8, Kinds DEF OpenTests
<1>10. \A d \in Calls : Open(d)' <=> d # c /\ Open(d)
  BY <1>3, <1>8, Kinds
<1>11. \A t \in Tests : /\ t \in OpenTests' => rest[t] = "none" /\ t < n
                        /\ t < n /\ t \notin OpenTests' => rest[t] # "none"
                        /\ t >= n => rest[t] = "none"
  <2>1. \A t \in Tests : t \in Nat
    BY Kinds
  <2>2. k \in Nat /\ n \in Nat /\ k <= n
    BY <1>3, SuiteAssumption
  <2>3. ASSUME NEW t \in Tests, t \in OpenTests' PROVE rest[t] = "none" /\ t < n
    BY <1>3, <1>4, <1>9, <2>1, <2>2, <2>3
  <2>4. ASSUME NEW t \in Tests, t < n, t \notin OpenTests' PROVE rest[t] # "none"
    BY <1>4, <1>9, <2>1, <2>2, <2>4
  <2>5. ASSUME NEW t \in Tests, t >= n PROVE rest[t] = "none"
    BY <1>3, <1>4, <2>1, <2>2, <2>5
  <2> QED
    BY <2>3, <2>4, <2>5
<1>12. \A t \in Tests : Honest(rest, answered', t)
  BY <1>4 DEF Honest
<1>13. \A t \in Tests : Progress(t)'
  <2>1. \A t \in Tests : t \in OpenTests' <=> Open(t)'
    BY DEF OpenTests
  <2> QED
    BY <1>5, <1>11, <2>1 DEF Progress
<1>14. Cardinality(OpenTests') <= Jobs
  <2>1. rem \in SUBSET Tests
    BY DEF OpenTests
  <2>2. rem \cap taken \in SUBSET Tests
    BY <2>1
  <2>3. /\ IsFiniteSet(rem) /\ Cardinality(rem) \in Nat
        /\ IsFiniteSet(taken) /\ Cardinality(taken) \in Nat
        /\ Cardinality(rem \cap taken) \in Nat
    BY <1>3, <2>1, <2>2, FiniteTests
  <2>4. Cardinality(rem \cup taken) = Cardinality(rem) + Cardinality(taken) - Cardinality(rem \cap taken)
    BY <2>3, FS_Union
  <2> QED
    BY <1>3, <1>9, <2>3, <2>4, SuiteAssumption
<1>15. rem # {} => running = c /\ phase[c] = "running"
  BY <1>1, Kinds DEF Marks
<1>16. c \in asked => phase[c] = "listing" /\ c \in Direct /\ stop
  BY <1>1 DEF CallOK
<1>17. \A d \in Calls : d # c => phase[d] # "running" /\ (phase[d] = "listing" => d \notin Direct)
  BY <1>1, Kinds DEF CallOK
<1>18. \A d \in Calls : Open(d) => phase[d] = "listing"
  BY <1>1 DEF CallOK
<1>19. RunOnce
  <2>1. SUFFICES ASSUME running # NoCall, phase[running] = "running",
                        NEW t \in Tests, record[t] # "none"
                 PROVE  ~Open(t)' /\ record'[t] = record[t]
    BY DEF RunOnce
  <2>2. rec[t] = record[t] /\ t < k
    BY <2>1
  <2>3. t \notin OpenTests' /\ rest[t] = rec[t]
    <3>1. t \in Nat /\ k \in Nat /\ n \in Nat /\ k <= n
      BY <1>3, Kinds, SuiteAssumption
    <3>2. ~(k <= t)
      BY <2>2, <3>1
    <3>3. rest[t] = rec[t]
      BY <1>4, <3>2
    <3> QED
      BY <1>11, <2>1, <2>2, <3>3
  <2> QED
    BY <1>5, <2>2, <2>3 DEF OpenTests
<1>20. CASE rem \cup taken = {} /\ Settle(c, ExitCode(rest, stop))
  <2> DEFINE code == ExitCode(rest, stop)
  <2>1. /\ code \in {"130", "0", "1"} /\ (stop <=> code = "130")
        /\ code = "0" => \A t \in Tests : rest[t] \in {"PASS", "XFAIL", "SKIP"}
    BY <1>2 DEF ExitCode
  <2> HIDE DEF code
  <2>2. /\ phase' = [phase EXCEPT ![c] = "done"] /\ exit' = [exit EXCEPT ![c] = code]
        /\ running' = NoCall
        /\ guestPending' = IF guestPending = c THEN NoCall ELSE guestPending
    BY <1>20 DEF Settle, code
  <2>3. /\ phase'[c] = "done" /\ exit'[c] = code
        /\ \A d \in Calls \ {c} : phase'[d] = phase[d] /\ exit'[d] = exit[d]
    BY <1>1, <2>2 DEF TypeOK
  <2>4. OpenTests' = {} /\ n = MaxTests + 1
    BY <1>3, <1>9, <1>20
  <2>5. TypeOK'
    <3>1. next' \in 1 .. MaxTests + 1
      BY <1>5, <2>4, SuiteAssumption
    <3>2. phase' \in [Calls -> {"idle", "listing", "running", "done"}]
      BY <1>1, <2>2 DEF TypeOK
    <3>3. exit' \in [Calls -> {"none", "0", "1", "2", "130"}]
      BY <1>1, <2>1, <2>2 DEF TypeOK
    <3> QED
      BY <1>1, <1>4, <1>5, <1>8, <2>2, <3>1, <3>2, <3>3 DEF TypeOK
  <2>6. CallOK(c)'
    BY <1>1, <1>5, <1>10, <1>16, <2>1, <2>3, Zenon DEF CallOK
  <2>7. ASSUME NEW d \in Calls, d # c PROVE CallOK(d)'
    BY <1>1, <1>5, <1>10, <1>17, <2>2, <2>3, <2>7 DEF CallOK
  <2>8. Marks'
    <3>1. guestPending' # NoCall => guestPending' = guestPending /\ guestPending # c /\ guestPending \in Calls
      BY <1>1, <2>2, Kinds DEF TypeOK
    <3> QED
      BY <1>1, <1>8, <1>14, <2>2, <2>3, <2>4, <3>1 DEF Marks
  <2>9. IInv'
    BY <1>5, <1>12, <2>4, <2>5, <2>6, <2>7, <2>8 DEF IInv, Honest
  <2>10. OneBatch
    BY <1>14, <2>2, <2>4 DEF OneBatch
  <2>11. ReportComplete
    <3>1. \A t \in Tests : t < n
      BY <2>4, Kinds, SuiteAssumption
    <3> QED
      BY <1>5, <1>11, <2>4, <3>1 DEF ReportComplete
  <2>12. ReportHonest
    <3>1. ASSUME NEW d \in Calls, phase[d] = "running", exit[d] # exit'[d], exit'[d] = "0"
          PROVE  \A t \in Tests \ Skipped : answered'[t] = IF t \in Expected THEN "fail" ELSE "pass"
      <4>1. \A t \in Tests : rest[t] \in {"PASS", "XFAIL", "SKIP"}
        BY <2>1, <2>3, <3>1
      <4> QED
        BY <1>12, <4>1 DEF Honest
    <3> QED
      BY <1>5, <1>12, <3>1 DEF ReportHonest, Honest
  <2> QED
    BY <1>19, <2>9, <2>10, <2>11, <2>12 DEF StepOK
<1>21. CASE /\ rem \cup taken # {}
            /\ phase' = [phase EXCEPT ![c] = "running"] /\ running' = c
            /\ guestPending' = (IF c \in Guest THEN c ELSE guestPending) /\ exit' = exit
  <2>1. /\ phase'[c] = "running" /\ exit'[c] = exit[c]
        /\ \A d \in Calls \ {c} : phase'[d] = phase[d] /\ exit'[d] = exit[d]
    BY <1>1, <1>21 DEF TypeOK
  <2>2. c \notin asked
    BY <1>3, <1>15, <1>16, <1>21
  <2>3. TypeOK'
    <3>1. next' \in 1 .. MaxTests + 1
      BY <1>3, <1>5, SuiteAssumption
    <3>2. phase' \in [Calls -> {"idle", "listing", "running", "done"}]
      BY <1>1, <1>21 DEF TypeOK
    <3> QED
      BY <1>1, <1>4, <1>5, <1>8, <1>21, <3>1, <3>2 DEF TypeOK
  <2>4. CallOK(c)'
    BY <1>1, <1>5, <1>10, <1>21, <2>1, <2>2 DEF CallOK
  <2>5. ASSUME NEW d \in Calls, d # c PROVE CallOK(d)'
    BY <1>1, <1>5, <1>10, <1>17, <1>21, <2>1, <2>5, Kinds DEF CallOK
  <2>6. Marks'
    <3>1. guestPending' # NoCall => phase'[guestPending'] \in {"listing", "running"}
      <4>1. guestPending' # NoCall => guestPending' = c \/ (guestPending' = guestPending /\ guestPending \in Calls)
        BY <1>1, <1>21, Kinds DEF TypeOK
      <4> QED
        BY <1>1, <2>1, <4>1 DEF Marks
    <3> QED
      BY <1>1, <1>8, <1>9, <1>14, <1>21, <2>1, <3>1, Kinds, Zenon DEF Marks
  <2>7. IInv'
    BY <1>5, <1>12, <1>13, <2>3, <2>4, <2>5, <2>6 DEF IInv, Honest
  <2>8. OneBatch
    BY <1>14, <1>21, Zenon DEF OneBatch
  <2>9. ReportComplete
    BY <2>1 DEF ReportComplete
  <2>10. ReportHonest
    BY <1>5, <1>12, <2>1 DEF ReportHonest, Honest
  <2> QED
    BY <1>19, <2>7, <2>8, <2>9, <2>10 DEF StepOK
<1> QED
  BY <1>6, <1>20, <1>21

\* run, once the manifest is known.
LEMMA EnterStep ==
  ASSUME IInv, NEW c \in Calls, NEW closing,
         \/ phase[c] = "idle" /\ closing = {}
         \/ phase[c] = "listing" /\ closing = {c},
         c \in Guest => guestPending \in {NoCall, c},
         Enter(c, closing), catalogue' \in BOOLEAN
  PROVE  StepOK
<1>1. /\ TypeOK /\ Marks /\ \A d \in Calls : CallOK(d)
  BY DEF IInv
<1>2. CASE /\ running \in {NoCall, c}
           /\ Consume(c, 1, [t \in Tests |-> "none"], closing, Jobs)
           /\ answered' = [t \in Tests |-> "none"]
  <2> DEFINE rec == [t \in Tests |-> "none"]
  <2>1. closing \in SUBSET Requests /\ IsFiniteSet(closing) /\ closing \cap Calls \subseteq {c}
    <3>1. IsFiniteSet({}) /\ IsFiniteSet({c})
      BY FS_EmptySet, FS_Singleton, Zenon
    <3> QED
      BY <3>1, Kinds
  <2>2. Open(c) => c \in closing
    BY <1>1 DEF CallOK
  <2>3. OpenTests = {}
    BY <1>1, <1>2 DEF Marks
  <2>4. Cardinality(OpenTests \ closing) + Jobs <= Jobs
    <3>1. OpenTests \ closing = {} /\ Cardinality({}) = 0
      BY <2>3, FS_EmptySet
    <3> QED
      BY <3>1, SuiteAssumption
  <2>5. 1 \in 1 .. MaxTests + 1 /\ Jobs \in Nat \ {0}
    BY SuiteAssumption
  <2>6. rec \in [Tests -> Statuses \cup {"none"}] /\ \A t \in Tests : rec[t] = "none"
    OBVIOUS
  <2>7. answered' \in [Tests -> Reports \cup {"none"}]
    BY <1>2
  <2>8. Consume(c, 1, rec, closing, Jobs)
    BY <1>2
  <2> HIDE DEF rec
  <2>9. \A t \in Tests :
          /\ t \in OpenTests \ closing => rec[t] = "none" /\ t < 1
          /\ t < 1 /\ t \notin OpenTests \ closing => rec[t] # "none"
          /\ t >= 1 => rec[t] = "none"
    BY <2>3, <2>6, Kinds
  <2>10. \A t \in Tests : Honest(rec, answered', t)
    BY <2>6 DEF Honest
  <2>11. phase[c] # "done" /\ phase[c] # "running"
    OBVIOUS
  <2> QED
    BY <1>2, <2>1, <2>2, <2>4, <2>5, <2>6, <2>7, <2>8, <2>9, <2>10, <2>11, ConsumeStep
<1>3. CASE Leave(c, "2", closing)
  BY <1>3, LeaveStep
<1> QED
  BY <1>2, <1>3 DEF Enter

\* A call goes on when the manifest is known.
LEMMA AfterListStep ==
  ASSUME IInv, NEW c \in Calls, NEW closing,
         \/ phase[c] = "idle" /\ closing = {}
         \/ phase[c] = "listing" /\ closing = {c},
         c \in Guest => guestPending \in {NoCall, c},
         AfterList(c, closing), catalogue' \in BOOLEAN
  PROVE  StepOK
<1>1. CASE Leave(c, "2", closing)
  BY <1>1, LeaveStep
<1>2. CASE c \notin Direct /\ Leave(c, "0", closing)
  BY <1>2, LeaveStep
<1>3. CASE Enter(c, closing)
  BY <1>3, EnterStep
<1> QED
  BY <1>1, <1>2, <1>3 DEF AfterList

\* list() enumerates: a guest's call and a direct one are marked meanwhile.
LEMMA OpenListStep ==
  ASSUME IInv, NEW c \in Calls, phase[c] = "idle", ~Refused(c), OpenList(c),
         catalogue' \in BOOLEAN
  PROVE  StepOK
<1>1. /\ TypeOK /\ Marks /\ \A d \in Calls : CallOK(d)
  BY DEF IInv
<1>2. /\ phase' = [phase EXCEPT ![c] = "listing"]
      /\ running' = (IF c \in Direct THEN c ELSE running)
      /\ guestPending' = (IF c \in Guest THEN c ELSE guestPending)
      /\ exit' = exit /\ cancelled' = cancelled /\ asked' = asked
      /\ Exchange({}, {c}) /\ OtherBatch
  BY DEF OpenList
<1>3. /\ c \in Direct => running = NoCall
      /\ c \in Guest => guestPending = NoCall
  BY DEF Refused
<1>4. {c} \in SUBSET Requests /\ {} \in SUBSET Requests /\ IsFiniteSet({})
  BY Kinds, FS_EmptySet
<1>5. /\ worker' \in [Requests -> {"none", "creating", "live"}]
      /\ strays' \in [{"creating", "live"} -> Nat] /\ strays'["live"] = strays["live"]
      /\ \A q \in Requests : Open(q)' <=> q = c \/ Open(q)
  BY <1>1, <1>2, <1>4, Exchanged
<1>6. /\ \A t \in Tests : Open(t)' <=> Open(t)
      /\ \A d \in Calls : Open(d)' <=> d = c \/ Open(d)
  BY <1>5, Kinds
<1>7. OpenTests' = OpenTests
  BY <1>6 DEF OpenTests
<1>8. /\ next' \in 1 .. MaxTests + 1
      /\ record' \in [Tests -> Statuses \cup {"none"}]
      /\ answered' \in [Tests -> Reports \cup {"none"}]
      /\ \A t \in Tests : Honest(record', answered', t)
      /\ running # NoCall => next' = next /\ record' = record /\ answered' = answered
  BY <1>2, <1>7, OtherBatchKept
<1>9. /\ phase'[c] = "listing" /\ \A d \in Calls \ {c} : phase'[d] = phase[d]
  BY <1>1, <1>2 DEF TypeOK
<1>10. TypeOK'
  BY <1>1, <1>2, <1>5, <1>8 DEF TypeOK
<1>11. running # c /\ guestPending # c
  BY <1>1, Kinds, Zenon DEF Marks
<1>12. CallOK(c)'
  BY <1>1, <1>2, <1>6, <1>9 DEF CallOK
<1>13. ASSUME NEW d \in Calls, d # c PROVE CallOK(d)'
  BY <1>1, <1>2, <1>3, <1>6, <1>9, <1>13, Kinds, Zenon DEF CallOK
<1>14. Marks'
  <2>1. (running' = c /\ c \in Direct /\ running = NoCall) \/ running' = running
    BY <1>2, <1>3
  <2>2. running \in Calls \cup {NoCall} /\ guestPending \in Calls \cup {NoCall}
    BY <1>1, Kinds DEF TypeOK
  <2>3. guestPending' # NoCall => phase'[guestPending'] \in {"listing", "running"}
    BY <1>1, <1>2, <1>9, <1>11, <2>2 DEF Marks
  <2>4. running' # NoCall => \/ phase'[running'] = "running"
                             \/ phase'[running'] = "listing" /\ running' \in Direct
    BY <1>1, <1>9, <1>11, <2>1, <2>2, Zenon DEF Marks
  <2>5. OpenTests' # {} <=> running' # NoCall /\ phase'[running'] = "running"
    BY <1>1, <1>7, <1>9, <1>11, <2>1, <2>2 DEF Marks
  <2> QED
    BY <1>1, <1>5, <1>7, <2>3, <2>4, <2>5 DEF Marks
<1>15. OpenTests' # {} => \A t \in Tests : Progress(t)'
  BY <1>1, <1>6, <1>7, <1>8 DEF IInv, Marks, Progress
<1>16. IInv'
  BY <1>8, <1>10, <1>12, <1>13, <1>14, <1>15 DEF IInv, Honest
<1>17. OneBatch
  BY <1>1, <1>2, <1>3, <1>7 DEF OneBatch, Marks
<1>18. RunOnce
  <2>1. SUFFICES ASSUME running # NoCall, phase[running] = "running",
                        NEW t \in Tests, record[t] # "none"
                 PROVE  ~Open(t)' /\ record'[t] = record[t]
    BY DEF RunOnce
  <2>2. OpenTests # {}
    BY <1>1, <2>1, SMT, Z3 DEF Marks
  <2> QED
    BY <1>6, <1>8, <2>1, <2>2, Zenon DEF IInv, Progress
<1>19. ReportComplete
  BY <1>9, SMT, Z3 DEF ReportComplete
<1>20. ReportHonest
  BY <1>2, <1>8 DEF ReportHonest, Honest
<1> QED
  BY <1>16, <1>17, <1>18, <1>19, <1>20 DEF StepOK

\* The page, a guest or the embedder calls.
LEMMA CallStep ==
  ASSUME IInv, NEW c \in Calls, Call(c)
  PROVE  StepOK
<1>1. phase[c] = "idle" /\ catalogue' \in BOOLEAN
  BY DEF Call, IInv, TypeOK
<1>2. CASE Leave(c, "2", {})
  BY <1>1, <1>2, LeaveStep
<1>3. CASE ~Refused(c) /\ OpenList(c)
  BY <1>1, <1>3, OpenListStep
<1>4. CASE ~Refused(c) /\ AfterList(c, {})
  <2>1. c \in Guest => guestPending \in {NoCall, c}
    BY <1>4 DEF Refused
  <2> QED
    BY <1>1, <1>4, <2>1, AfterListStep
<1> QED
  BY <1>2, <1>3, <1>4 DEF Call

\* The request of a list() ends.
LEMMA ListedStep ==
  ASSUME IInv, NEW c \in Calls, Open(c), NEW report, Listed(c, report)
  PROVE  StepOK
<1>1. phase[c] = "listing" /\ (c \in Guest => guestPending \in {NoCall, c})
  BY DEF IInv, CallOK
<1>2. CASE AfterList(c, {c}) /\ catalogue' = TRUE
  BY <1>1, <1>2, AfterListStep
<1>3. CASE Leave(c, "2", {c}) /\ UNCHANGED catalogue
  <2>1. catalogue' \in BOOLEAN
    BY <1>3, Zenon DEF IInv, TypeOK
  <2> QED
    BY <1>1, <1>3, <2>1, LeaveStep
<1> QED
  BY <1>2, <1>3, Zenon DEF Listed

\* The request of a test ends.
LEMMA TestedStep ==
  ASSUME IInv, NEW t \in Tests, Open(t), NEW report \in Reports \cup {"timeout"},
         Tested(t, report),
         \/ report \in {"timeout", "broken"} /\ answered' = answered
         \/ report \in Reports /\ answered' = [answered EXCEPT ![t] = report]
  PROVE  StepOK
<1> DEFINE c == running
           rec == [record EXCEPT ![t] = Status(t, report)]
<1>1. /\ TypeOK /\ Marks /\ \A d \in Calls : CallOK(d)
  BY DEF IInv
<1>2. t \in OpenTests
  BY DEF OpenTests
<1>3. /\ c \in Calls /\ c # NoCall /\ phase[c] = "running"
  BY <1>1, <1>2 DEF Marks, TypeOK
<1>4. /\ ~Open(c) /\ (c \in Guest => guestPending \in {NoCall, c})
  BY <1>1, <1>3 DEF CallOK
<1>5. {t} \in SUBSET Requests /\ {t} \cap Calls \subseteq {c}
  BY Kinds
<1>6. IsFiniteSet({t})
  BY FS_Singleton, Zenon
<1>7. Cardinality(OpenTests \ {t}) + 1 <= Jobs
  <2>1. OpenTests \in SUBSET Tests
    BY DEF OpenTests
  <2>2. IsFiniteSet(OpenTests) /\ Cardinality(OpenTests) \in Nat
    BY <2>1, FiniteTests
  <2>3. Cardinality(OpenTests \ {t}) = Cardinality(OpenTests) - 1
    BY <1>2, <2>2, FS_RemoveElement, Zenon
  <2> QED
    BY <1>1, <2>2, <2>3 DEF Marks
<1>8. /\ Status(t, report) \in {"PASS", "XPASS", "XFAIL", "FAIL", "TIMEOUT"}
      /\ Status(t, report) = "PASS" => report = "pass" /\ t \notin Expected
      /\ Status(t, report) = "XPASS" => report = "pass"
      /\ Status(t, report) = "XFAIL" => report = "fail" /\ t \in Expected
  BY DEF Status, Reports
<1>9. rec[t] = Status(t, report) /\ \A u \in Tests \ {t} : rec[u] = record[u]
  BY <1>1 DEF TypeOK
<1>10. rec \in [Tests -> Statuses \cup {"none"}]
  BY <1>1, <1>8 DEF TypeOK, Statuses
<1>11. Consume(c, next, rec, {t}, 1) /\ catalogue' \in BOOLEAN
  BY <1>1 DEF Tested, TypeOK
<1> HIDE DEF rec, c
<1>12. \A u \in Tests : Progress(u)
  BY <1>2 DEF IInv
<1>13. \A u \in Tests : u \in OpenTests <=> Open(u)
  BY DEF OpenTests
<1>14. \A u \in Tests :
         /\ u \in OpenTests \ {t} => rec[u] = "none" /\ u < next
         /\ u < next /\ u \notin OpenTests \ {t} => rec[u] # "none"
         /\ u >= next => rec[u] = "none"
  <2>1. t < next /\ ~(t >= next)
    BY <1>1, <1>12, Kinds, SuiteAssumption DEF Progress, TypeOK
  <2> QED
    BY <1>8, <1>9, <1>12, <1>13, <2>1 DEF Progress
<1>15. \A u \in Tests : record[u] # "none" => rec[u] = record[u] /\ u < next
  <2>1. record[t] = "none"
    BY <1>12 DEF Progress
  <2>2. \A u \in Tests : ~(u >= next) => u < next
    BY <1>1, Kinds, SuiteAssumption DEF TypeOK
  <2> QED
    BY <1>9, <1>12, <2>1, <2>2 DEF Progress
<1>16. answered' \in [Tests -> Reports \cup {"none"}]
  BY <1>1 DEF TypeOK
<1>17. \A u \in Tests : Honest(rec, answered', u)
  <2>1. \A u \in Tests : Honest(record, answered, u)
    BY DEF IInv
  <2>2. ASSUME NEW u \in Tests, u # t PROVE Honest(rec, answered', u)
    <3>1. answered'[u] = answered[u] /\ rec[u] = record[u]
      BY <1>1, <1>9, <2>2 DEF TypeOK
    <3> QED
      BY <2>1, <3>1 DEF Honest
  <2>3. Honest(rec, answered', t)
    <3>1. report \in {"pass", "fail"} => answered'[t] = report
      BY <1>1 DEF TypeOK
    <3> QED
      BY <1>8, <1>9, <3>1 DEF Honest
  <2> QED
    BY <2>2, <2>3
<1>18. next \in 1 .. MaxTests + 1 /\ 1 \in Nat \ {0} /\ running \in {NoCall, c} /\ phase[c] # "done"
  BY <1>1, <1>3 DEF TypeOK, c
<1> QED
  BY <1>3, <1>4, <1>5, <1>6, <1>7, <1>10, <1>11, <1>14, <1>15, <1>16, <1>17, <1>18, ConsumeStep

\* A step that leaves the calls, the open requests and the records alone.
LEMMA WorkersOnly ==
  ASSUME IInv, UNCHANGED <<catalogue, callVars, batchVars>>,
         worker' \in [Requests -> {"none", "creating", "live"}],
         strays' \in [{"creating", "live"} -> Nat], strays'["live"] = strays["live"],
         \A q \in Requests : Open(q)' <=> Open(q)
  PROVE  StepOK
<1>1. /\ catalogue' = catalogue /\ running' = running /\ guestPending' = guestPending
      /\ phase' = phase /\ exit' = exit /\ cancelled' = cancelled /\ asked' = asked
      /\ next' = next /\ record' = record /\ answered' = answered
  BY DEF callVars, batchVars
<1>2. /\ \A t \in Tests : Open(t)' <=> Open(t)
      /\ \A c \in Calls : Open(c)' <=> Open(c)
  BY Kinds
<1>3. OpenTests' = OpenTests
  BY <1>2 DEF OpenTests
<1>4. TypeOK'
  BY <1>1, Zenon DEF IInv, TypeOK
<1>5. Marks' /\ \A c \in Calls : CallOK(c)'
  BY <1>1, <1>2, <1>3 DEF IInv, Marks, CallOK
<1>6. /\ OpenTests' # {} => \A t \in Tests : Progress(t)'
      /\ \A t \in Tests : Honest(record, answered, t)'
  BY <1>1, <1>2, <1>3 DEF IInv, Progress, Honest
<1>7. IInv'
  BY <1>4, <1>5, <1>6 DEF IInv
<1>8. OneBatch /\ ReportComplete
  BY <1>1, <1>3 DEF OneBatch, ReportComplete, IInv, Marks
<1>9. RunOnce
  BY <1>1, <1>2 DEF RunOnce, IInv, Marks, Progress
<1>10. ReportHonest
  BY <1>1 DEF ReportHonest, IInv, Honest
<1> QED
  BY <1>7, <1>8, <1>9, <1>10 DEF StepOK

\* A worker is created for a request that is open.
LEMMA CreatedStep ==
  ASSUME IInv, NEW q \in Requests, Created(q)
  PROVE  StepOK
<1>1. worker \in [Requests -> {"none", "creating", "live"}] /\ worker[q] = "creating"
      /\ worker' = [worker EXCEPT ![q] = "live"] /\ strays' = strays
      /\ strays \in [{"creating", "live"} -> Nat]
  BY DEF Created, IInv, TypeOK
<1>2. worker' \in [Requests -> {"none", "creating", "live"}]
  BY <1>1
<1>3. \A r \in Requests : Open(r)' <=> Open(r)
  BY <1>1 DEF Open
<1> QED
  BY <1>1, <1>2, <1>3, WorkersOnly DEF Created

\* A worker is created for a request that is over.
LEMMA CreatedLateStep ==
  ASSUME IInv, CreatedLate
  PROVE  StepOK
<1>1. /\ strays \in [{"creating", "live"} -> Nat] /\ strays["creating"] > 0
      /\ strays' = [strays EXCEPT !["creating"] = @ - 1] /\ worker' = worker
      /\ worker \in [Requests -> {"none", "creating", "live"}]
  BY DEF CreatedLate, IInv, TypeOK
<1>2. strays' \in [{"creating", "live"} -> Nat] /\ strays'["live"] = strays["live"]
  BY <1>1
<1>3. \A r \in Requests : Open(r)' <=> Open(r)
  BY <1>1 DEF Open
<1> QED
  BY <1>1, <1>2, <1>3, WorkersOnly DEF CreatedLate

\* cancel: the batch and the guest's call end, a direct call that still lists
\* does not.
LEMMA CancelStep ==
  ASSUME IInv, Cancel
  PROVE  StepOK
<1> DEFINE targets == {guestPending, running} \ {NoCall}
           batch == IF OpenTests = {} THEN {} ELSE {running}
           ended == batch \cup (Active \cap Calls)
           rec == [t \in Tests |-> IF t \in OpenTests THEN "CANCELLED" ELSE record[t]]
<1>1. /\ TypeOK /\ Marks /\ \A d \in Calls : CallOK(d)
  BY Zenon DEF IInv
<1>2. /\ asked' = asked \cup targets
      /\ cancelled' = [c \in Calls |-> cancelled[c] \/ c \in targets]
      /\ Exchange(Active, {})
      /\ record' = IF batch = {} THEN record ELSE Passed(rec, next, Jobs, TRUE)
      /\ next' = IF batch = {} THEN next ELSE MaxTests + 1
      /\ phase' = [c \in Calls |-> IF c \in ended THEN "done" ELSE phase[c]]
      /\ exit' = [c \in Calls |-> IF c \in ended THEN "130" ELSE exit[c]]
      /\ running' = IF running \in ended THEN NoCall ELSE running
      /\ guestPending' = IF guestPending \in ended THEN NoCall ELSE guestPending
      /\ catalogue' = catalogue /\ answered' = answered
  BY DEF Cancel
<1>3. running \in Calls \cup {NoCall} /\ guestPending \in Guest \cup {NoCall}
  BY <1>1 DEF TypeOK
<1>4. batch = {} <=> OpenTests = {}
  OBVIOUS
<1>5. \A c \in Calls : c \in Active <=> c \in Guest /\ c = guestPending /\ Open(c)
  BY Kinds DEF Active, OpenTests
<1>6. \A c \in Calls : c \in ended <=> \/ OpenTests # {} /\ c = running
                                       \/ c \in Guest /\ c = guestPending /\ Open(c)
  BY <1>5
<1>7. NoCall \notin ended
  BY <1>1, Kinds DEF Marks
<1>8. \A c \in Calls : c \in targets <=> c = guestPending \/ c = running
  BY Kinds
<1>9. targets \subseteq Calls
  BY <1>3, Kinds
<1> HIDE DEF targets, batch, ended, rec
<1>10. ASSUME NEW c \in Calls
       PROVE  /\ phase[c] = "running" => c \in ended
              /\ phase[c] = "listing" /\ c \in Guest => c \in ended
              /\ c \in ended => c \in targets /\ phase[c] # "done" /\ phase[c] # "idle"
              /\ c \in targets /\ c \notin ended => phase[c] = "listing" /\ c \in Direct /\ c = running
  <2>1. CallOK(c)
    BY <1>1
  <2>2. phase[c] = "running" => c = running /\ OpenTests # {}
    BY <1>1, <2>1, Kinds DEF CallOK, Marks
  <2>3. phase[c] = "listing" /\ c \in Guest => c = guestPending /\ Open(c)
    BY <2>1 DEF CallOK
  <2>4. c = guestPending => phase[c] \in {"listing", "running"} /\ c \in Guest
    BY <1>1, <1>3, Kinds DEF Marks
  <2>5. c = running => \/ phase[c] = "running"
                       \/ phase[c] = "listing" /\ c \in Direct
    BY <1>1, Kinds DEF Marks
  <2> QED
    BY <1>6, <1>8, <2>2, <2>3, <2>4, <2>5
<1>11. guestPending' = NoCall
  <2>1. guestPending # NoCall => guestPending \in ended
    BY <1>1, <1>3, <1>10, Kinds, Zenon DEF Marks
  <2> QED
    BY <1>2, <2>1
<1>12. running' # NoCall => /\ running' = running /\ running \in Calls /\ running \notin ended
                            /\ phase[running] = "listing" /\ running \in Direct
  BY <1>1, <1>2, <1>3, <1>10 DEF Marks
<1>13. Active \in SUBSET Requests /\ IsFiniteSet(Active)
  <2> DEFINE G == {c \in Guest : c = guestPending /\ Open(c)}
  <2>1. OpenTests \in SUBSET Tests
    BY DEF OpenTests
  <2>2. IsFiniteSet(OpenTests)
    BY <2>1, FiniteTests
  <2>3. IsFiniteSet({guestPending})
    BY FS_Singleton, Zenon
  <2>4. G \subseteq {guestPending}
    OBVIOUS
  <2>5. IsFiniteSet(G)
    BY <2>3, <2>4, FS_Subset
  <2>6. Active = OpenTests \cup G
    BY DEF Active
  <2>7. IsFiniteSet(Active)
    BY <2>2, <2>5, <2>6, FS_Union, Zenon
  <2> QED
    BY <2>1, <2>6, <2>7, Kinds
<1>14. /\ worker' \in [Requests -> {"none", "creating", "live"}]
       /\ strays' \in [{"creating", "live"} -> Nat] /\ strays'["live"] = strays["live"]
       /\ \A q \in Requests : Open(q)' <=> Open(q) /\ q \notin Active
  <2>1. {} \in SUBSET Requests
    BY Zenon
  <2> QED
    BY <1>1, <1>2, <1>13, <2>1, Exchanged, Zenon
<1>15. \A t \in Tests : ~Open(t)'
  BY <1>14, Kinds DEF Active, OpenTests
<1>16. OpenTests' = {} /\ Cardinality(OpenTests') = 0
  <2>1. OpenTests' = {}
    BY <1>15 DEF OpenTests
  <2> QED
    BY <2>1, FS_EmptySet
<1>17. \A c \in Calls : /\ c \in ended => ~Open(c)'
                        /\ c \notin ended => (Open(c)' <=> Open(c))
  <2>1. \A c \in Calls : c = running /\ OpenTests # {} => ~Open(c)
    BY <1>1 DEF Marks, CallOK
  <2> QED
    BY <1>5, <1>6, <1>14, <2>1, Kinds
<1>18. rec \in [Tests -> Statuses \cup {"none"}]
  BY <1>1 DEF rec, TypeOK, Statuses
<1>19. /\ Passed(rec, next, Jobs, TRUE) \in [Tests -> Statuses \cup {"none"}]
       /\ \A t \in Tests :
            \/ Passed(rec, next, Jobs, TRUE)[t] = rec[t] /\ t < next
            \/ /\ next <= t /\ Passed(rec, next, Jobs, TRUE)[t] \in {"SKIP", "CANCELLED"}
               /\ Passed(rec, next, Jobs, TRUE)[t] = "SKIP" => t \in Skipped
  <2>1. PICK stop \in BOOLEAN : stop = TRUE
    BY Zenon
  <2>2. next \in 1 .. MaxTests + 1 /\ Jobs \in Nat \ {0} /\ MaxTests \in Nat
    BY <1>1, SuiteAssumption DEF TypeOK
  <2>3. Taken(next, Jobs, stop) = {} /\ NextAfter(next, Jobs, stop) = MaxTests + 1
    BY <2>1, <2>2, Consumers, Zenon
  <2>4. /\ Passed(rec, next, Jobs, stop) \in [Tests -> Statuses \cup {"none"}]
        /\ \A t \in Tests :
             \/ /\ Passed(rec, next, Jobs, stop)[t] = rec[t]
                /\ \/ t < next \/ t >= NextAfter(next, Jobs, stop)
                   \/ t \in Taken(next, Jobs, stop)
             \/ /\ next <= t /\ t < NextAfter(next, Jobs, stop)
                /\ t \notin Taken(next, Jobs, stop)
                /\ Passed(rec, next, Jobs, stop)[t] \in {"SKIP", "CANCELLED"}
                /\ Passed(rec, next, Jobs, stop)[t] = "SKIP" => t \in Skipped
    BY <1>18, <2>2, PassedRecords
  <2>5. \A t \in Tests : ~(t >= MaxTests + 1)
    BY <2>2, Kinds
  <2>6. Passed(rec, next, Jobs, stop) = Passed(rec, next, Jobs, TRUE)
    BY <2>1
  <2> QED
    BY <2>3, <2>4, <2>5, <2>6, Zenon
<1>20. \A t \in Tests : rec[t] = IF Open(t) THEN "CANCELLED" ELSE record[t]
  BY DEF rec, OpenTests
<1>21. /\ record' \in [Tests -> Statuses \cup {"none"}]
       /\ next' \in 1 .. MaxTests + 1
  <2>1. record \in [Tests -> Statuses \cup {"none"}] /\ next \in 1 .. MaxTests + 1
    BY <1>1 DEF TypeOK
  <2>2. MaxTests + 1 \in 1 .. MaxTests + 1
    BY SuiteAssumption
  <2>3. CASE batch = {}
    BY <1>2, <2>1, <2>3
  <2>4. CASE batch # {}
    BY <1>2, <1>19, <2>2, <2>4, Zenon
  <2> QED
    BY <2>3, <2>4
<1>22. \A t \in Tests : Honest(record', answered', t)
  BY <1>2, <1>19, <1>20, Zenon DEF IInv, Honest
<1>23. \A c \in Calls : /\ phase'[c] = IF c \in ended THEN "done" ELSE phase[c]
                        /\ exit'[c] = IF c \in ended THEN "130" ELSE exit[c]
                        /\ cancelled'[c] <=> cancelled[c] \/ c \in targets
                        /\ c \in asked' <=> c \in asked \/ c \in targets
  BY <1>2, Zenon
<1>24. TypeOK'
  <2>1. phase' \in [Calls -> {"idle", "listing", "running", "done"}]
    BY <1>1, <1>2 DEF TypeOK
  <2>2. exit' \in [Calls -> {"none", "0", "1", "2", "130"}]
    BY <1>1, <1>2 DEF TypeOK
  <2>3. cancelled' \in [Calls -> BOOLEAN]
    <3>1. \A c \in Calls : (cancelled[c] \/ c \in targets) \in BOOLEAN
      OBVIOUS
    <3> QED
      BY <1>2, <3>1, Zenon
  <2>4. running' \in Calls \cup {NoCall} /\ guestPending' \in Guest \cup {NoCall}
    BY <1>11, <1>12
  <2>5. asked' \subseteq Calls /\ catalogue' \in BOOLEAN
        /\ answered' \in [Tests -> Reports \cup {"none"}]
    BY <1>1, <1>2, <1>9 DEF TypeOK
  <2> QED
    BY <1>14, <1>21, <2>1, <2>2, <2>3, <2>4, <2>5 DEF TypeOK
<1>25. ASSUME NEW c \in Calls PROVE CallOK(c)'
  <2>1. CASE c \in ended
    BY <1>10, <1>17, <1>23, <2>1, Zenon DEF CallOK
  <2>2. CASE c \notin ended
    <3>1. /\ phase'[c] = phase[c] /\ exit'[c] = exit[c] /\ (Open(c)' <=> Open(c))
          /\ phase[c] # "running" /\ ~(phase[c] = "listing" /\ c \in Guest)
      BY <1>10, <1>17, <1>23, <2>2, Zenon
    <3>2. CallOK(c)
      BY <1>1
    <3>3. phase[c] = "listing" /\ c \in Direct => running' = c
      BY <1>2, <2>2, <3>2 DEF CallOK
    <3>4. c \in targets => phase[c] = "listing" /\ c \in Direct
      BY <1>10, <2>2, Zenon
    <3> QED
      BY <1>23, <3>1, <3>2, <3>3, <3>4, Zenon DEF CallOK
  <2> QED
    BY <2>1, <2>2, Zenon
<1>26. Marks'
  <2>1. running' # NoCall => phase'[running'] = "listing" /\ running' \in Direct
    BY <1>12, <1>23
  <2>2. Cardinality(OpenTests') <= Jobs
    BY <1>16, SuiteAssumption
  <2> QED
    BY <1>1, <1>11, <1>14, <1>16, <2>1, <2>2 DEF Marks
<1>27. IInv'
  BY <1>16, <1>22, <1>24, <1>25, <1>26 DEF IInv, Honest
<1>28. OneBatch
  BY <1>12, <1>16, SuiteAssumption DEF OneBatch
<1>29. ASSUME running # NoCall, phase[running] = "running", NEW t \in Tests
       PROVE  /\ record'[t] # "none"
              /\ record[t] # "none" => record'[t] = record[t]
  <2>1. OpenTests # {} /\ Progress(t)
    BY <1>1, <1>29 DEF Marks, IInv
  <2>2. record' = Passed(rec, next, Jobs, TRUE)
    BY <1>2, <1>4, <2>1, ZenonT(60)
  <2>3. ~(t < next) => t >= next
    BY <1>1, Kinds, SuiteAssumption DEF TypeOK
  <2>4. next <= t => t >= next
    BY <1>1, Kinds, SuiteAssumption, Zenon DEF TypeOK
  <2> QED
    BY <1>19, <1>20, <2>1, <2>2, <2>3, <2>4, Zenon DEF Progress
<1>30. RunOnce
  BY <1>15, <1>29 DEF RunOnce
<1>31. ReportComplete
  BY <1>29, Kinds DEF ReportComplete
<1>32. ReportHonest
  BY <1>22, <1>23 DEF ReportHonest, Honest
<1> QED
  BY <1>27, <1>28, <1>30, <1>31, <1>32 DEF StepOK

-----------------------------------------------------------------------------
(* The theorems.                                                           *)

\* Nobody has called at first.
LEMMA InitHolds == Init => IInv
<1> SUFFICES ASSUME Init PROVE IInv
  OBVIOUS
<1>1. \A q \in Requests : ~Open(q)
  BY DEF Init, Open
<1>2. OpenTests = {} /\ Cardinality(OpenTests) = 0
  <2>1. OpenTests = {}
    BY <1>1, Kinds DEF OpenTests
  <2> QED
    BY <2>1, FS_EmptySet
<1>3. TypeOK
  <2>1. strays \in [{"creating", "live"} -> Nat]
    BY DEF Init
  <2>2. next \in 1 .. MaxTests + 1
    BY SuiteAssumption DEF Init
  <2> QED
    BY <2>1, <2>2, Zenon DEF Init, TypeOK
<1>4. Marks
  BY <1>2, SuiteAssumption DEF Init, Marks
<1>5. \A c \in Calls : CallOK(c)
  BY <1>1, Kinds DEF Init, CallOK
<1>6. \A t \in Tests : Honest(record, answered, t)
  BY DEF Init, Honest
<1> QED
  BY <1>2, <1>3, <1>4, <1>5, <1>6 DEF IInv

\* A step of any actor.
LEMMA NextStep ==
  ASSUME IInv, Next
  PROVE  StepOK
<1>1. CASE \E c \in Calls : Call(c)
  BY <1>1, CallStep
<1>2. ASSUME NEW q \in Requests, Timeout(q) PROVE StepOK
  <2>1. CASE q \in Calls /\ Listed(q, "timeout")
    BY <1>2, <2>1, ListedStep DEF Timeout
  <2>2. CASE q \in Tests /\ Tested(q, "timeout") /\ UNCHANGED answered
    BY <1>2, <2>2, TestedStep DEF Timeout
  <2> QED
    BY <1>2, <2>1, <2>2 DEF Timeout
<1>3. ASSUME NEW q \in Requests, NotCreated(q) PROVE StepOK
  <2>1. Open(q)
    BY <1>3 DEF NotCreated, Open
  <2>2. CASE q \in Calls /\ Listed(q, "broken")
    BY <2>1, <2>2, ListedStep
  <2>3. CASE q \in Tests /\ Tested(q, "broken") /\ UNCHANGED answered
    BY <2>1, <2>3, TestedStep DEF Reports
  <2> QED
    BY <1>3, <2>2, <2>3 DEF NotCreated
<1>4. ASSUME NEW q \in Requests, NEW report \in Reports, Answer(q, report) PROVE StepOK
  <2>1. Open(q)
    BY <1>4 DEF Answer, Open
  <2>2. CASE q \in Calls /\ Listed(q, report)
    BY <2>1, <2>2, ListedStep
  <2>3. CASE /\ q \in Tests /\ Tested(q, report)
             /\ answered' = [answered EXCEPT ![q] = report]
    BY <2>1, <2>3, TestedStep, Zenon
  <2> QED
    BY <1>4, <2>2, <2>3 DEF Answer
<1>5. CASE \E q \in Requests : Created(q)
  BY <1>5, CreatedStep
<1> QED
  BY <1>1, <1>2, <1>3, <1>4, <1>5, CreatedLateStep, CancelStep DEF Next

\* A stuttering step is allowed.
LEMMA StutterHolds == IInv /\ UNCHANGED vars => IInv'
  BY DEF vars, callVars, requestVars, batchVars, IInv, TypeOK, Marks, CallOK, Progress,
         Honest, Open, OpenTests

\* The inductive invariant holds throughout: a batch that runs has a request
\* open, its tests before next are open or recorded, each record agrees with
\* the report of its worker, and the marks and flags of every call agree with
\* how far it has got.
THEOREM Invariance == Spec => []IInv
<1>1. IInv /\ [Next]_vars => IInv'
  BY NextStep, StutterHolds DEF StepOK
<1> QED
  BY <1>1, InitHolds, PTL DEF Spec

\* No worker is left over by request(), complete() and createWorker(), and
\* running and guestPending name calls that are being served.
THEOREM AllServed == Spec => []Served
<1>1. IInv => Served
  BY Kinds DEF IInv, Served, NoOrphan, RefusedOnlyIfBusy, Marks, CallOK
<1> QED
  BY <1>1, Invariance, PTL

\* A cancelled call reports 130 or an error, no other call reports 130, and
\* its batch opens no further request (cancel(), run()).
THEOREM CancelKept == Spec => []CancelHonoured
<1>1. ASSUME IInv PROVE CancelHonoured
  <2>1. \A c \in Calls : CallOK(c)
    BY <1>1 DEF IInv
  <2>2. OpenTests # {} => running \in Calls /\ phase[running] = "running"
    BY <1>1 DEF IInv, Marks, TypeOK
  <2>3. OpenTests # {} => running \notin asked
    BY <2>1, <2>2 DEF CallOK
  <2>4. \A c \in Calls : exit[c] # "none" => (exit[c] = "130" => c \in asked)
                                          /\ (c \in asked => exit[c] \in {"130", "2"})
    BY <2>1 DEF CallOK
  <2> QED
    BY <2>3, <2>4 DEF CancelHonoured
<1> QED
  BY <1>1, Invariance, PTL

\* One batch at a time, with at most Jobs requests open, and no test of it
\* run twice (run() and its consumers).
THEOREM OneBatchAtATime == Spec => Exclusive
<1>1. IInv /\ [Next]_vars => [OneBatch /\ RunOnce]_vars
  BY NextStep DEF StepOK
<1> QED
  BY <1>1, Invariance, PTL DEF Spec, Exclusive

\* The report of a batch has a record for every test, each record says what
\* that test's worker reported, and exit code 0 means that every test run met
\* its expectation.
THEOREM ReportsTrue == Spec => Truthful
<1>1. IInv /\ [Next]_vars => [ReportComplete /\ ReportHonest]_vars
  BY NextStep DEF StepOK
<1> QED
  BY <1>1, Invariance, PTL DEF Spec, Truthful
=============================================================================
