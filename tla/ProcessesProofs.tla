-------------------------- MODULE ProcessesProofs ---------------------------
(***************************************************************************)
(* What the process table and the driver (Processes) promise for every     *)
(* number of slots and processes, every set of signals and every guest:    *)
(* who is selected is alive, every death is counted once, the scheduler    *)
(* stalls only without a root, and waitpid tells the truth.                *)
(***************************************************************************)
EXTENDS Processes, FiniteSetTheorems, FunctionTheorems, WellFoundedInduction, TLAPS

-----------------------------------------------------------------------------
(* The inductive invariant.                                                *)

Tables == [Slots -> Process \cup {None}]

\* The deaths between two tables, as Recorded notes them.
Deaths(t, u) ==
  {[pid |-> u[i].pid, to |-> u[i].ppid, status |-> u[i].status] :
     i \in {j \in Used(u) : u[j].zombie /\ j \in Live(t)}}

\* A process of the table: its parent is older, and its death is on record
\* exactly if it is a zombie.
Entry(p, d, n) ==
  /\ p.pid < n /\ p.ppid < p.pid /\ p.target \in Targets \cup {-1}
  /\ p.zombie => p.status \in Statuses
  /\ p.zombie => [pid |-> p.pid, to |-> p.ppid, status |-> p.status] \in d
  /\ ~p.zombie => \A e \in d : e.pid # p.pid

\* The processes handed out so far, 1 .. n - 1, are each alive in one slot or
\* dead once in d.
Books(t, d, n) ==
  /\ \A i \in Used(t) : Entry(t[i], d, n)
  /\ \A i, j \in Used(t) : t[i].pid = t[j].pid => i = j
  /\ \A e \in d : e.pid \in 1 .. n - 1
  /\ \A e, f \in d : e.pid = f.pid => e = f
  /\ \A m \in 1 .. n - 1 : (\E i \in Live(t) : t[i].pid = m) \/ (\E e \in d : e.pid = m)

\* The process selected while the invocation goes on, and what its end says.
Control ==
  /\ phase \in {"check", "run", "yield"} => (P.zombie => P.kind = "handler")
  /\ phase \in {"check", "run"} => P.wait = "none"
  /\ phase = "stall" => Live(table) = {}
  /\ ExitsCounted

IInv == TypeOK /\ forks = nextPid - 2 /\ Books(table, died, nextPid) /\ Control

-----------------------------------------------------------------------------
(* Numbers.                                                                *)

\* A set of natural numbers that is not empty has a least one.
LEMMA LeastOf ==
  ASSUME NEW S \in SUBSET Nat, S # {}
  PROVE  \E x \in S : \A y \in S : x <= y
<1> DEFINE Below == {z \in Nat \X Nat : z[1] < z[2]}
<1>1. IsWellFoundedOn(Below, Nat)
  BY NatLessThanWellFounded DEF OpToRel
<1> HIDE DEF Below
<1>2. PICK x \in S : \A y \in S : <<y, x>> \notin Below
  BY <1>1, WFMin, Zenon
<1>3. \A y \in S : ~(y < x)
  BY <1>2, Zenon DEF Below
<1>4. \A y \in S : x <= y
  BY <1>3
<1> QED
  BY <1>4

\* Min of such a set is in it.
LEMMA MinIsMember ==
  ASSUME NEW S \in SUBSET Nat, S # {}
  PROVE  Min(S) \in S
  BY LeastOf, Zenon DEF Min

\* A bounded set of numbers has a greatest one: the least of its bounds.
LEMMA GreatestOf ==
  ASSUME NEW n \in Nat, NEW S \in SUBSET (0 .. n), S # {}
  PROVE  \E x \in S : \A y \in S : y <= x
<1> DEFINE Bounds == {b \in Nat : \A y \in S : y <= b}
<1>1. Bounds \in SUBSET Nat /\ n \in Bounds
  OBVIOUS
<1>2. PICK b \in Bounds : \A d \in Bounds : b <= d
  BY <1>1, LeastOf, Zenon
<1>3. b \in Nat /\ \A y \in S : y <= b
  BY <1>2
<1>4. b \in S
  <2>1. SUFFICES ASSUME b \notin S PROVE FALSE
    OBVIOUS
  <2>2. \A y \in S : y <= b - 1 /\ b - 1 \in Nat
    BY <1>3, <2>1
  <2>3. b - 1 \in Bounds
    BY <2>2, Zenon
  <2> QED
    BY <1>2, <1>3, <2>3
<1> QED
  BY <1>3, <1>4

\* The scheduler's choice is one of the processes that are ready.
LEMMA PickIsReady ==
  ASSUME NEW t, NEW first \in Int, Ready(t) # {}
  PROVE  Pick(t, first) \in Ready(t)
<1> DEFINE R == Ready(t)
           Far(i) == (i - first) % NumSlots
           S == {Far(i) : i \in R}
<1>1. NumSlots \in Nat \ {0} /\ \A i \in R : i \in Int
  BY SlotAssumption DEF Ready, Live, Used, Slots
<1>2. \A i \in R : Far(i) \in Nat
  BY <1>1
<1> HIDE DEF R, Far
<1>3. S \in SUBSET Nat /\ S # {}
  BY <1>2 DEF R
<1>4. PICK x \in S : \A y \in S : x <= y
  BY <1>3, LeastOf, Zenon
<1>5. PICK i \in R : x = Far(i)
  BY <1>4
<1>6. \A j \in R : Far(i) <= Far(j)
  BY <1>4, <1>5
<1> QED
  BY <1>5, <1>6 DEF Pick, R, Far

-----------------------------------------------------------------------------
(* What an operation makes of one process.                                 *)

\* The same process: alive it may change and die, dead it stays as it is.
SameProcess(p, q) ==
  /\ q \in Process /\ q.pid = p.pid /\ q.ppid = p.ppid
  /\ q.target \in {p.target, -1} \cup Targets
  /\ p.zombie => q.zombie /\ q.status = p.status
  /\ ~p.zombie /\ q.zombie => q.status \in Statuses

\* An operation that neither ends a process nor moves its wait.
Gentle(p, q) ==
  /\ SameProcess(p, q)
  /\ q.zombie = p.zombie /\ q.status = p.status /\ q.kind = p.kind /\ q.wait = p.wait

\* Two gentle operations are one.
LEMMA GentleTwice ==
  ASSUME NEW p \in Process, NEW q, NEW r, Gentle(p, q), Gentle(q, r)
  PROVE  Gentle(p, r)
  BY DEF Gentle, SameProcess

\* Doing nothing is gentle.
LEMMA GentleSelf ==
  ASSUME NEW p \in Process PROVE Gentle(p, p)
  BY DEF Gentle, SameProcess

\* Another set of pending signals, another mask, other actions.
LEMMA SignalFields ==
  ASSUME NEW p \in Process, NEW a \in SUBSET Signals, NEW m \in SUBSET Signals,
         NEW f \in [Signals -> Dispositions]
  PROVE  /\ Gentle(p, [p EXCEPT !.pend = a])
         /\ Gentle(p, [p EXCEPT !.mask = m])
         /\ Gentle(p, [p EXCEPT !.disp = f, !.pend = a])
<1>1. Gentle(p, [p EXCEPT !.pend = a])
  BY DEF Gentle, SameProcess, Process
<1>2. Gentle(p, [p EXCEPT !.mask = m])
  BY DEF Gentle, SameProcess, Process
<1>3. Gentle(p, [p EXCEPT !.disp = f, !.pend = a])
  BY Zenon DEF Gentle, SameProcess, Process
<1> QED
  BY <1>1, <1>2, <1>3

\* A signal is raised.
LEMMA RaisedGentle ==
  ASSUME NEW p \in Process, NEW s \in Signals
  PROVE  Gentle(p, Raised(p, s))
<1>1. p.pend \cup {s} \in SUBSET Signals /\ p.mask \in SUBSET Signals
      /\ p.disp \in [Signals -> Dispositions]
  BY DEF Process
<1>2. Gentle(p, [p EXCEPT !.pend = p.pend \cup {s}])
  BY <1>1, SignalFields, Zenon
<1> QED
  BY <1>2, GentleSelf DEF Raised

\* Signals are delivered to their handlers.
LEMMA DeliveredGentle ==
  ASSUME NEW p \in Process
  PROVE  Gentle(p, Delivered(p))
<1>1. p.pend \ Taken(p) \in SUBSET Signals /\ p.mask \in SUBSET Signals
      /\ p.disp \in [Signals -> Dispositions]
  BY DEF Process
<1>2. Gentle(p, [p EXCEPT !.pend = p.pend \ Taken(p)])
  BY <1>1, SignalFields, Zenon
<1> QED
  BY <1>2 DEF Delivered

\* exec resets the caught actions.
LEMMA SignalExecGentle ==
  ASSUME NEW p \in Process
  PROVE  Gentle(p, SignalExec(p))
<1> DEFINE caught == {s \in Signals : p.disp[s] \in {"catch", "restart"}}
           f == [s \in Signals |-> IF s \in caught THEN "default" ELSE p.disp[s]]
           a == p.pend \ (caught \cap Quiet)
<1>1. a \in SUBSET Signals /\ p.mask \in SUBSET Signals /\ p.disp \in [Signals -> Dispositions]
  BY DEF Process
<1>2. f \in [Signals -> Dispositions]
  BY <1>1 DEF Dispositions
<1>3. SignalExec(p) = [p EXCEPT !.disp = f, !.pend = a]
  BY DEF SignalExec
<1> HIDE DEF f, a
<1>4. Gentle(p, [p EXCEPT !.disp = f, !.pend = a])
  BY <1>1, <1>2, SignalFields, Zenon
<1> QED
  BY <1>3, <1>4

\* A corpse keeps the pid, the parent and the kind.
LEMMA CorpseIsDead ==
  ASSUME NEW p \in Process, NEW status \in Statuses
  PROVE  /\ Corpse(p, status) \in Process
         /\ Corpse(p, status).pid = p.pid /\ Corpse(p, status).ppid = p.ppid
         /\ Corpse(p, status).zombie /\ Corpse(p, status).status = status
         /\ Corpse(p, status).kind = p.kind /\ Corpse(p, status).wait = "none"
         /\ Corpse(p, status).target = -1
<1>1. -1 \in -1 .. MaxPid
  BY SlotAssumption
<1> DEFINE D == [s \in Signals |-> "default"]
           r == Fresh(p.pid, p.ppid)
<1>2. D \in [Signals -> Dispositions]
  BY DEF Dispositions
<1>3. r = [pid |-> p.pid, ppid |-> p.ppid, zombie |-> FALSE, status |-> None, kind |-> "app",
           pend |-> {}, mask |-> {}, disp |-> D, call |-> "none",
           target |-> -1, wait |-> "none", input |-> FALSE]
  BY DEF Fresh
<1>4. Corpse(p, status) = [r EXCEPT !.zombie = TRUE, !.status = status, !.kind = p.kind]
  BY DEF Corpse
<1> HIDE DEF D, r
<1> QED
  BY <1>1, <1>2, <1>3, <1>4, Zenon DEF Process

\* The deaths that the driver reports have a status.
LEMMA DeathStatus ==
  /\ \A s \in Signals : Killed(s) \in Statuses
  /\ \A code \in Codes : Exited(code) \in Statuses
  /\ \A p \in Process : Fatal(p) # {} => Killed(Min(Fatal(p))) \in Statuses
<1>1. \A s \in Signals : Killed(s) \in Statuses
  BY DEF Killed, Statuses
<1>2. \A code \in Codes : Exited(code) \in Statuses
  BY DEF Exited, Statuses
<1>3. ASSUME NEW p \in Process, Fatal(p) # {} PROVE Min(Fatal(p)) \in Signals
  <2>1. Fatal(p) \subseteq Signals
    BY DEF Fatal, Unmasked, Process
  <2>2. Fatal(p) \in SUBSET Nat
    <3>1. Signals \subseteq 1 .. 64
      BY SignalAssumption
    <3>2. 1 .. 64 \subseteq Nat
      OBVIOUS
    <3> QED
      BY <2>1, <3>1, <3>2, Zenon
  <2> QED
    BY <1>3, <2>1, <2>2, MinIsMember
<1> QED
  BY <1>1, <1>2, <1>3

-----------------------------------------------------------------------------
(* What an operation makes of the table.                                   *)

\* The same processes in the same slots.
Evolves(t, u) ==
  /\ u \in Tables
  /\ \A i \in Slots : t[i] = None => u[i] = None
  /\ \A i \in Slots : t[i] # None => u[i] # None /\ SameProcess(t[i], u[i])

\* Of the process in slot k: an application that lives goes on living.
Spares(t, u, k) ==
  /\ u[k].zombie => t[k].zombie \/ u[k].kind = "handler"
  /\ t[k].kind = "handler" => u[k].kind = "handler"
  /\ t[k].wait = "none" => u[k].wait = "none"

\* A slot in use holds a process.
LEMMA TableEntry ==
  ASSUME NEW t \in Tables, NEW i \in Slots, t[i] # None
  PROVE  t[i] \in Process
  BY DEF Tables

\* Two changes of the table are one.
LEMMA EvolvesTwice ==
  ASSUME NEW t \in Tables, NEW u, NEW v, Evolves(t, u), Evolves(u, v)
  PROVE  Evolves(t, v)
<1>1. u \in Tables /\ v \in Tables
  BY DEF Evolves
<1>2. ASSUME NEW i \in Slots, t[i] # None PROVE v[i] # None /\ SameProcess(t[i], v[i])
  <2>1. /\ u[i] # None /\ SameProcess(t[i], u[i])
        /\ v[i] # None /\ SameProcess(u[i], v[i])
    BY <1>2 DEF Evolves
  <2>2. t[i] \in Process /\ u[i] \in Process /\ v[i] \in Process
    BY <1>1, <1>2, <2>1, TableEntry
  <2> QED
    BY <2>1, <2>2 DEF SameProcess, Process
<1>3. \A i \in Slots : t[i] = None => v[i] = None
  BY DEF Evolves
<1> QED
  BY <1>1, <1>2, <1>3 DEF Evolves

\* No change is one.
LEMMA EvolvesSelf ==
  ASSUME NEW t \in Tables
  PROVE  Evolves(t, t)
  BY GentleSelf, TableEntry DEF Evolves, Gentle

\* One slot is changed.
LEMMA SlotChanged ==
  ASSUME NEW t \in Tables, NEW i \in Slots, t[i] # None, NEW q, SameProcess(t[i], q)
  PROVE  Evolves(t, [t EXCEPT ![i] = q])
<1>1. q \in Process /\ q # None
  BY NoneAssumption DEF SameProcess
<1>2. [t EXCEPT ![i] = q] \in Tables
  BY <1>1 DEF Tables
<1>3. /\ [t EXCEPT ![i] = q][i] = q
      /\ \A j \in Slots : j # i => [t EXCEPT ![i] = q][j] = t[j]
  BY DEF Tables
<1>4. \A j \in Slots : t[j] # None => SameProcess(t[j], t[j])
  BY GentleSelf, TableEntry DEF Gentle
<1> QED
  BY <1>1, <1>2, <1>3, <1>4 DEF Evolves

\* A gentle operation on one slot.
LEMMA GentleSlot ==
  ASSUME NEW t \in Tables, NEW i \in Slots, t[i] # None, NEW q, Gentle(t[i], q),
         NEW k \in Slots
  PROVE  Evolves(t, [t EXCEPT ![i] = q]) /\ Spares(t, [t EXCEPT ![i] = q], k)
<1>1. Evolves(t, [t EXCEPT ![i] = q])
  BY SlotChanged DEF Gentle
<1>2. [t EXCEPT ![i] = q][k] = IF k = i THEN q ELSE t[k]
  BY DEF Tables
<1> QED
  BY <1>1, <1>2 DEF Spares, Gentle

\* Two changes that spare a process are one.
LEMMA SparesTwice ==
  ASSUME NEW t, NEW u, NEW v, NEW k, Spares(t, u, k), Spares(u, v, k)
  PROVE  Spares(t, v, k)
  BY DEF Spares

\* native_process_notify_exit raises SIGCHLD and does nothing else.
LEMMA NotifiedTable ==
  ASSUME NEW t \in Tables, NEW ppid
  PROVE  /\ Evolves(t, Notified(t, ppid))
         /\ \A i \in Slots : t[i] # None => Gentle(t[i], Notified(t, ppid)[i])
<1> DEFINE u == Notified(t, ppid)
<1>1. \A i \in Slots : u[i] = IF i \in Live(t) /\ t[i].pid = ppid
                              THEN Raised(t[i], SIGCHLD) ELSE t[i]
  BY DEF Notified
<1>2. u = [i \in Slots |-> u[i]]
  BY DEF Notified
<1> HIDE DEF u
<1>3. \A i \in Slots : t[i] = None => u[i] = None
  BY <1>1 DEF Live, Used
<1>4. ASSUME NEW i \in Slots, t[i] # None
      PROVE  Gentle(t[i], u[i]) /\ u[i] \in Process /\ u[i] # None
  <2>1. t[i] \in Process /\ SIGCHLD \in Signals
    BY <1>4, TableEntry, SignalAssumption
  <2>2. Gentle(t[i], u[i])
    BY <1>1, <2>1, RaisedGentle, GentleSelf
  <2> QED
    BY <2>2, NoneAssumption DEF Gentle, SameProcess
<1>5. \A i \in Slots : u[i] \in Process \cup {None}
  BY <1>3, <1>4
<1>6. u \in Tables
  BY <1>2, <1>5 DEF Tables
<1>7. Evolves(t, u)
  BY <1>3, <1>4, <1>6 DEF Evolves, Gentle
<1> QED
  BY <1>4, <1>7 DEF u

\* exit_process, terminate_process, signal_process: one process ends.
LEMMA DeadTable ==
  ASSUME NEW t \in Tables, NEW i \in Live(t), NEW status \in Statuses
  PROVE  /\ Evolves(t, Dead(t, i, status))
         /\ Dead(t, i, status)[i].zombie
         /\ t[i].kind = "handler" => Spares(t, Dead(t, i, status), i)
         /\ \A k \in Slots : k # i /\ t[k] # None => Spares(t, Dead(t, i, status), k)
<1> DEFINE u == [t EXCEPT ![i] = Corpse(t[i], status)]
           v == Dead(t, i, status)
<1>1. i \in Slots /\ t[i] # None /\ ~t[i].zombie
  BY DEF Live, Used
<1>2. t[i] \in Process
  BY <1>1, TableEntry
<1>3. /\ Corpse(t[i], status) \in Process
      /\ Corpse(t[i], status).pid = t[i].pid /\ Corpse(t[i], status).ppid = t[i].ppid
      /\ Corpse(t[i], status).zombie /\ Corpse(t[i], status).status = status
      /\ Corpse(t[i], status).kind = t[i].kind /\ Corpse(t[i], status).wait = "none"
      /\ Corpse(t[i], status).target = -1
  BY <1>2, CorpseIsDead
<1>4. SameProcess(t[i], Corpse(t[i], status))
  BY <1>1, <1>3 DEF SameProcess
<1>5. Evolves(t, u)
  BY <1>1, <1>4, SlotChanged
<1>6. u[i] = Corpse(t[i], status) /\ \A k \in Slots : k # i => u[k] = t[k]
  BY <1>1 DEF Tables
<1>7. v = Notified(u, t[i].ppid) /\ u \in Tables
  BY <1>5 DEF Dead, Evolves
<1> HIDE DEF u, v
<1>8. /\ Evolves(u, v)
      /\ \A k \in Slots : u[k] # None => Gentle(u[k], v[k])
  BY <1>7, NotifiedTable
<1>9. Evolves(t, v)
  BY <1>5, <1>8, EvolvesTwice
<1>10. \A k \in Slots : t[k] # None => u[k] # None
  BY <1>5 DEF Evolves
<1>11. v[i].zombie /\ v[i].kind = t[i].kind /\ v[i].wait = "none"
  BY <1>1, <1>3, <1>6, <1>8, <1>10 DEF Gentle
<1>12. \A k \in Slots : k # i /\ t[k] # None => Spares(t, v, k)
  BY <1>6, <1>8, <1>10 DEF Gentle, Spares
<1>13. t[i].kind = "handler" => Spares(t, v, i)
  BY <1>11 DEF Spares
<1> QED
  BY <1>9, <1>11, <1>12, <1>13 DEF v

\* A signal that ends the process selected ends a handler.
LEMMA FelledKind ==
  ASSUME NEW t \in Tables, NEW i \in Live(t), NEW s \in Signals, Felled(t, i, s)
  PROVE  i = active => t[i].kind = "handler"
<1>1. t[i] \in Process
  BY TableEntry DEF Live, Used
<1>2. Raised(t[i], s).kind = t[i].kind
  BY <1>1, RaisedGentle DEF Gentle
<1>3. t[i].kind \in {"app", "handler"}
  BY <1>1 DEF Process
<1> QED
  BY <1>2, <1>3 DEF Felled

\* native_store_signal_process.
LEMMA SignalProcessTable ==
  ASSUME NEW t \in Tables, active \in Slots, t[active] # None,
         NEW i \in Live(t), NEW s \in Signals
  PROVE  Evolves(t, SignalProcess(t, i, s)) /\ Spares(t, SignalProcess(t, i, s), active)
<1> DEFINE u == [t EXCEPT ![i] = Raised(t[i], s)]
           v == SignalProcess(t, i, s)
<1>1. i \in Slots /\ t[i] # None /\ ~t[i].zombie
  BY DEF Live, Used
<1>2. t[i] \in Process
  BY <1>1, TableEntry
<1>3. Gentle(t[i], Raised(t[i], s))
  BY <1>2, RaisedGentle
<1>4. Evolves(t, u) /\ Spares(t, u, active)
  BY <1>1, <1>3, GentleSlot
<1>5. u[i] = Raised(t[i], s)
  BY <1>1 DEF Tables
<1>6. v = IF Felled(t, i, s) THEN Dead(u, i, Killed(s)) ELSE u
  BY DEF SignalProcess
<1> HIDE DEF u, v
<1>7. CASE Felled(t, i, s)
  <2>1. u \in Tables /\ i \in Live(u) /\ u[active] # None
    BY <1>1, <1>3, <1>4, <1>5 DEF Evolves, Live, Used, Gentle
  <2>2. Killed(s) \in Statuses
    BY DeathStatus
  <2>3. i = active => u[i].kind = "handler"
    BY <1>3, <1>5, <1>7, FelledKind DEF Gentle
  <2>4. Evolves(u, v) /\ Spares(u, v, active)
    BY <1>6, <1>7, <2>1, <2>2, <2>3, DeadTable
  <2> QED
    BY <1>4, <2>4, EvolvesTwice, SparesTwice DEF v
<1>8. CASE ~Felled(t, i, s)
  BY <1>4, <1>6, <1>8 DEF v
<1> QED
  BY <1>7, <1>8

\* native_store_signal_process_group.
LEMMA SignalGroupTable ==
  ASSUME NEW t \in Tables, active \in Slots, t[active] # None, NEW s \in Signals
  PROVE  Evolves(t, SignalGroup(t, s)) /\ Spares(t, SignalGroup(t, s), active)
<1> DEFINE dead == {i \in Live(t) : Felled(t, i, s)}
           bereft == {t[i].ppid : i \in dead}
           v == SignalGroup(t, s)
<1>1. v = [i \in Slots |->
             IF i \notin Live(t) THEN t[i]
             ELSE IF i \in dead THEN Corpse(t[i], Killed(s))
             ELSE IF t[i].pid \in bereft THEN Raised(Raised(t[i], s), SIGCHLD)
             ELSE Raised(t[i], s)]
  BY DEF SignalGroup
<1> HIDE DEF bereft, v
<1>2. \A i \in Slots : t[i] = None => v[i] = None
  BY <1>1 DEF Live, Used
<1>3. ASSUME NEW i \in Slots, t[i] # None
      PROVE  SameProcess(t[i], v[i]) /\ (i = active => Spares(t, v, i))
  <2>1. t[i] \in Process
    BY <1>3, TableEntry
  <2>2. CASE i \notin Live(t)
    <3>1. v[i] = t[i]
      BY <1>1, <2>2
    <3> QED
      BY <2>1, <3>1, GentleSelf DEF Gentle, Spares
  <2>3. CASE i \in dead
    <3>1. v[i] = Corpse(t[i], Killed(s)) /\ ~t[i].zombie
      BY <1>1, <2>3 DEF Live
    <3>2. Killed(s) \in Statuses
      BY DeathStatus
    <3>3. i = active => t[i].kind = "handler"
      BY <2>3, FelledKind
    <3>4. /\ v[i] \in Process /\ v[i].pid = t[i].pid /\ v[i].ppid = t[i].ppid
          /\ v[i].zombie /\ v[i].status \in Statuses /\ v[i].kind = t[i].kind
          /\ v[i].wait = "none" /\ v[i].target = -1
      BY <2>1, <3>1, <3>2, CorpseIsDead
    <3> QED
      BY <3>1, <3>3, <3>4 DEF SameProcess, Spares
  <2>4. CASE i \in Live(t) /\ i \notin dead
    <3> DEFINE q == Raised(t[i], s)
    <3>1. Gentle(t[i], q)
      BY <2>1, RaisedGentle
    <3>2. q \in Process /\ SIGCHLD \in Signals
      BY <3>1, SignalAssumption DEF Gentle, SameProcess
    <3>3. Gentle(q, Raised(q, SIGCHLD))
      BY <3>2, RaisedGentle
    <3>4. Gentle(t[i], Raised(q, SIGCHLD))
      BY <2>1, <3>1, <3>3, GentleTwice
    <3>5. v[i] = q \/ v[i] = Raised(q, SIGCHLD)
      BY <1>1, <2>4
    <3>6. Gentle(t[i], v[i])
      BY <3>1, <3>4, <3>5
    <3> QED
      BY <3>6 DEF Gentle, Spares
  <2> QED
    BY <2>2, <2>3, <2>4
<1>4. \A i \in Slots : t[i] # None => v[i] \in Process /\ v[i] # None
  BY <1>3, NoneAssumption DEF SameProcess
<1>5. \A i \in Slots : v[i] \in Process \cup {None}
  BY <1>2, <1>4
<1>6. v \in Tables
  BY <1>1, <1>5 DEF Tables
<1> QED
  BY <1>2, <1>3, <1>4, <1>6 DEF Evolves, v

\* A signal to a process or to the group.
LEMMA SignalledTable ==
  ASSUME table \in Tables, active \in Slots, table[active] # None, NEW s \in Signals,
         NEW t \in Signalled(s)
  PROVE  Evolves(table, t) /\ Spares(table, t, active)
  BY SignalProcessTable, SignalGroupTable DEF Signalled

-----------------------------------------------------------------------------
(* The books: processes alive and dead.                                    *)

\* What Recorded adds when the same processes stay in the same slots.
LEMMA BooksEvolve ==
  ASSUME NEW t \in Tables, NEW u, NEW d, NEW n \in Nat, Books(t, d, n), Evolves(t, u)
  PROVE  Books(u, d \cup Deaths(t, u), n)
<1> DEFINE c == d \cup Deaths(t, u)
           New(e) == \E i \in Slots : /\ t[i] # None /\ ~t[i].zombie /\ u[i].zombie
                                      /\ e = [pid |-> u[i].pid, to |-> u[i].ppid,
                                              status |-> u[i].status]
<1>1. Used(u) = Used(t) /\ u \in Tables
  BY DEF Evolves, Used
<1>2. \A i \in Used(t) : /\ i \in Slots /\ t[i] # None /\ t[i] \in Process /\ u[i] \in Process
                         /\ SameProcess(t[i], u[i])
  BY TableEntry DEF Evolves, Used, SameProcess
<1>3. \A e : e \in c <=> e \in d \/ New(e)
  BY <1>1 DEF Deaths, Live, Used
<1>4. \A i \in Slots : t[i] # None <=> i \in Used(t)
  BY DEF Used
<1> HIDE DEF c
<1>5. \A e : New(e) => \E i \in Used(t) : /\ ~t[i].zombie /\ u[i].zombie /\ e.pid = t[i].pid
                                          /\ e = [pid |-> u[i].pid, to |-> u[i].ppid,
                                                  status |-> u[i].status]
  BY <1>2, <1>4 DEF SameProcess
<1>6. \A i \in Used(t) : ~t[i].zombie /\ u[i].zombie =>
        [pid |-> u[i].pid, to |-> u[i].ppid, status |-> u[i].status] \in c
  <2>1. SUFFICES ASSUME NEW i \in Used(t), ~t[i].zombie, u[i].zombie
                 PROVE  New([pid |-> u[i].pid, to |-> u[i].ppid, status |-> u[i].status])
    BY <1>3, Zenon
  <2> QED
    BY <1>2, <2>1
<1> HIDE DEF New
<1>7. ASSUME NEW i \in Used(u) PROVE Entry(u[i], c, n)
  <2>1. i \in Used(t) /\ SameProcess(t[i], u[i]) /\ Entry(t[i], d, n)
    BY <1>1, <1>2 DEF Books
  <2>2. /\ u[i].pid < n /\ u[i].ppid < u[i].pid /\ u[i].target \in Targets \cup {-1}
        /\ u[i].zombie => u[i].status \in Statuses
    BY <2>1 DEF SameProcess, Entry
  <2>3. u[i].zombie => [pid |-> u[i].pid, to |-> u[i].ppid, status |-> u[i].status] \in c
    <3>1. CASE t[i].zombie
      BY <1>3, <2>1, <3>1 DEF SameProcess, Entry
    <3>2. CASE ~t[i].zombie
      BY <1>6, <2>1, <3>2
    <3> QED
      BY <3>1, <3>2
  <2>4. ASSUME ~u[i].zombie, NEW e \in c PROVE e.pid # u[i].pid
    <3>1. ~t[i].zombie /\ u[i].pid = t[i].pid
      BY <2>1, <2>4 DEF SameProcess
    <3>2. CASE e \in d
      BY <2>1, <3>1, <3>2 DEF Entry
    <3>3. CASE New(e)
      <4>1. PICK j \in Used(t) : u[j].zombie /\ e.pid = t[j].pid
        BY <1>5, <3>3
      <4>2. j # i
        BY <2>4, <4>1
      <4> QED
        BY <2>1, <3>1, <4>1, <4>2 DEF Books
    <3> QED
      BY <1>3, <2>4, <3>2, <3>3
  <2> QED
    BY <2>2, <2>3, <2>4 DEF Entry
<1>8. \A i, j \in Used(u) : u[i].pid = u[j].pid => i = j
  BY <1>1, <1>2 DEF Books, SameProcess
<1>9. \A e \in c : e.pid \in 1 .. n - 1
  <2>1. ASSUME NEW i \in Used(t) PROVE t[i].pid \in Nat \ {0} /\ t[i].pid < n
    <3>1. t[i].pid \in Pids
      BY <1>2 DEF Process
    <3>2. Entry(t[i], d, n)
      BY DEF Books
    <3> QED
      BY <3>1, <3>2, SlotAssumption DEF Pids, Entry
  <2>2. \A i \in Used(t) : t[i].pid \in 1 .. n - 1
    BY <2>1
  <2> QED
    BY <1>3, <1>5, <2>2, Zenon DEF Books
<1>10. ASSUME NEW e \in c, NEW f \in c, e.pid = f.pid PROVE e = f
  <2>1. CASE e \in d /\ f \in d
    BY <1>10, <2>1 DEF Books
  <2>2. ASSUME NEW g \in d, NEW h, New(h) PROVE g.pid # h.pid
    <3>1. PICK i \in Used(t) : ~t[i].zombie /\ h.pid = t[i].pid
      BY <1>5, <2>2
    <3>2. Entry(t[i], d, n)
      BY DEF Books
    <3> QED
      BY <3>1, <3>2 DEF Entry
  <2>3. CASE New(e) /\ New(f)
    BY <1>5, <1>10, <2>3 DEF Books
  <2> QED
    BY <1>3, <1>10, <2>1, <2>2, <2>3
<1>11. ASSUME NEW m \in 1 .. n - 1
       PROVE  (\E i \in Live(u) : u[i].pid = m) \/ (\E e \in c : e.pid = m)
  <2>1. CASE \E e \in d : e.pid = m
    BY <1>3, <2>1
  <2>2. CASE \E i \in Live(t) : t[i].pid = m
    <3>1. PICK i \in Used(t) : ~t[i].zombie /\ t[i].pid = m
      BY <2>2 DEF Live
    <3>2. u[i].pid = m
      BY <1>2, <3>1 DEF SameProcess
    <3>3. CASE u[i].zombie
      BY <1>6, <3>1, <3>2, <3>3, Zenon
    <3>4. CASE ~u[i].zombie
      BY <1>1, <3>1, <3>2, <3>4 DEF Live
    <3> QED
      BY <3>3, <3>4
  <2> QED
    BY <2>1, <2>2 DEF Books
<1> QED
  BY <1>7, <1>8, <1>9, <1>10, <1>11, Zenon DEF Books, c

\* The deaths that are noted are of their type.
LEMMA DeathsTyped ==
  ASSUME NEW t \in Tables, NEW u, Evolves(t, u)
  PROVE  Deaths(t, u) \subseteq [pid : Pids, to : Pids \cup {0}, status : Statuses]
<1>1. \A i \in Slots : t[i] # None => SameProcess(t[i], u[i])
  BY DEF Evolves
<1>2. \A i \in {j \in Used(u) : u[j].zombie /\ j \in Live(t)} :
        u[i].pid \in Pids /\ u[i].ppid \in Pids \cup {0} /\ u[i].status \in Statuses
  BY <1>1 DEF Used, Live, SameProcess, Process
<1> QED
  BY <1>2 DEF Deaths

\* A zombie that is reaped leaves the table; its death stays on record.
LEMMA BooksReap ==
  ASSUME NEW t \in Tables, NEW d, NEW n \in Nat, Books(t, d, n), NEW z \in Used(t), t[z].zombie
  PROVE  /\ [t EXCEPT ![z] = None] \in Tables
         /\ Books([t EXCEPT ![z] = None], d, n)
         /\ Live([t EXCEPT ![z] = None]) = Live(t)
<1> DEFINE u == [t EXCEPT ![z] = None]
<1>1. z \in Slots /\ t[z] # None
  BY DEF Used
<1>2. u \in Tables
  BY Zenon DEF Tables
<1>3. \A i \in Slots : u[i] = IF i = z THEN None ELSE t[i]
  BY DEF Tables
<1> HIDE DEF u
<1>4. Used(u) = Used(t) \ {z} /\ \A i \in Used(u) : u[i] = t[i]
  BY <1>3 DEF Used
<1>5. Live(u) = Live(t)
  BY <1>4 DEF Live
<1>6. \A i \in Live(t) : u[i] = t[i]
  BY <1>4, <1>5 DEF Live
<1>7. Books(u, d, n)
  BY <1>4, <1>5, <1>6 DEF Books
<1> QED
  BY <1>2, <1>5, <1>7 DEF u

\* A child joins, with the next pid.
LEMMA BooksFork ==
  ASSUME NEW t \in Tables, NEW d, NEW n \in Nat \ {0}, Books(t, d, n),
         NEW k \in Slots, t[k] = None, NEW q \in Process, ~q.zombie,
         q.pid = n, q.ppid < n, q.target \in Targets \cup {-1}
  PROVE  /\ [t EXCEPT ![k] = q] \in Tables
         /\ Books([t EXCEPT ![k] = q], d, n + 1)
<1> DEFINE u == [t EXCEPT ![k] = q]
<1>1. u \in Tables
  BY DEF Tables
<1>2. \A i \in Slots : u[i] = IF i = k THEN q ELSE t[i]
  BY DEF Tables
<1>3. q # None
  BY NoneAssumption
<1> HIDE DEF u
<1>4. Used(u) = Used(t) \cup {k} /\ k \notin Used(t)
  BY <1>2, <1>3 DEF Used
<1>5. u[k] = q /\ \A i \in Used(t) : u[i] = t[i] /\ t[i] \in Process /\ t[i].pid \in Nat
  BY <1>2, <1>4, TableEntry DEF Used, Process, Pids
<1>6. \A i \in Used(t) : Entry(t[i], d, n) /\ t[i].pid < n /\ t[i].pid < n + 1 /\ t[i].pid # n
  BY <1>5 DEF Books, Entry
<1>7. \A e \in d : e.pid \in 1 .. (n + 1) - 1 /\ e.pid # n
  BY DEF Books
<1>8. ASSUME NEW i \in Used(u) PROVE Entry(u[i], d, n + 1)
  <2>1. CASE i = k
    BY <1>5, <1>7, <2>1 DEF Entry
  <2>2. CASE i # k
    BY <1>4, <1>5, <1>6, <2>2 DEF Entry
  <2> QED
    BY <2>1, <2>2
<1>9. \A i, j \in Used(u) : u[i].pid = u[j].pid => i = j
  BY <1>4, <1>5, <1>6 DEF Books
<1>10. \A e, f \in d : e.pid = f.pid => e = f
  BY DEF Books
<1>11. Live(u) = Live(t) \cup {k} /\ \A i \in Live(t) : u[i] = t[i]
  BY <1>4, <1>5 DEF Live
<1>12. \A m \in 1 .. (n + 1) - 1 : (\E i \in Live(u) : u[i].pid = m) \/ (\E e \in d : e.pid = m)
  <2>1. \A m \in 1 .. (n + 1) - 1 : m \in 1 .. n - 1 \/ m = n
    OBVIOUS
  <2> QED
    BY <1>5, <1>11, <2>1 DEF Books
<1>13. Books(u, d, n + 1)
  BY <1>7, <1>8, <1>9, <1>10, <1>12 DEF Books
<1> QED
  BY <1>1, <1>13 DEF u

\* Of the processes handed out, the ones alive and the ones dead, root apart.
LEMMA BooksCount ==
  ASSUME NEW t \in Tables, NEW d, NEW n \in Nat, n >= 2, Books(t, d, n)
  PROVE  /\ Cardinality({i \in Live(t) : t[i].pid # Root}) \in Nat
         /\ Cardinality({e \in d : e.pid # Root}) \in Nat
         /\ Cardinality({i \in Live(t) : t[i].pid # Root})
              + Cardinality({e \in d : e.pid # Root}) = n - 2
<1> DEFINE L == {i \in Live(t) : t[i].pid # Root}
           D == {e \in d : e.pid # Root}
           R == 2 .. n - 1
           A == {m \in R : \E i \in L : t[i].pid = m}
           B == {m \in R : \E e \in D : e.pid = m}
           f == [i \in L |-> t[i].pid]
           g == [e \in D |-> e.pid]
<1>1. IsFiniteSet(R) /\ Cardinality(R) = n - 2
  BY FS_Interval
<1>2. \A i \in L : t[i].pid \in A
  <2>1. SUFFICES ASSUME NEW i \in L PROVE t[i].pid \in R
    OBVIOUS
  <2>2. i \in Used(t) /\ t[i] \in Process /\ Entry(t[i], d, n)
    BY TableEntry DEF Live, Used, Books
  <2> QED
    BY <2>2 DEF Entry, Process, Pids, Root
<1>3. \A e \in D : e.pid \in B
  BY DEF Books, Root
<1>4. f \in Bijection(L, A)
  <2>1. f \in [L -> A]
    BY <1>2
  <2>2. \A i, j \in L : f[i] = f[j] => i = j
    BY DEF Books, Live
  <2>3. \A m \in A : \E i \in L : f[i] = m
    OBVIOUS
  <2> QED
    BY <2>1, <2>2, <2>3, Fun_IsBij, Zenon
<1>5. g \in Bijection(D, B)
  <2>1. g \in [D -> B]
    BY <1>3
  <2>2. \A e, h \in D : g[e] = g[h] => e = h
    BY DEF Books
  <2>3. \A m \in B : \E e \in D : g[e] = m
    OBVIOUS
  <2> QED
    BY <2>1, <2>2, <2>3, Fun_IsBij, Zenon
<1>6. A \cap B = {}
  <2>1. \A i \in L, e \in D : e.pid # t[i].pid
    BY Zenon DEF Books, Entry, Live
  <2> QED
    BY <2>1
<1>7. A \cup B = R
  <2>1. ASSUME NEW m \in R PROVE m \in A \cup B
    <3>1. m \in 1 .. n - 1 /\ m # Root
      BY DEF Root
    <3>2. (\E i \in Live(t) : t[i].pid = m) \/ (\E e \in d : e.pid = m)
      BY <3>1 DEF Books
    <3> QED
      BY <3>1, <3>2
  <2> QED
    BY <2>1
<1> HIDE DEF L, D, A, B, R, f, g
<1>8. A \subseteq R /\ B \subseteq R
  BY <1>7
<1>9. IsFiniteSet(A) /\ IsFiniteSet(B)
  BY <1>1, <1>8, FS_Subset
<1>10. Cardinality(A) \in Nat /\ Cardinality(B) \in Nat
  BY <1>9, FS_CardinalityType
<1>11. Cardinality(A \cup B) = Cardinality(A) + Cardinality(B) - Cardinality(A \cap B)
  BY <1>9, FS_Union
<1>12. Cardinality(A) + Cardinality(B) = n - 2
  <2>1. Cardinality(A \cap B) = 0
    BY <1>6, FS_EmptySet
  <2> QED
    BY <1>1, <1>7, <1>10, <1>11, <2>1
<1>13. ASSUME NEW S, NEW T, NEW h \in Bijection(S, T), IsFiniteSet(T)
       PROVE  Cardinality(S) = Cardinality(T)
  <2>1. h \in Injection(S, T) /\ h \in Surjection(S, T)
    BY <1>13 DEF Bijection
  <2> QED
    BY <1>13, <2>1, FS_Injection
<1>14. Cardinality(L) = Cardinality(A) /\ Cardinality(D) = Cardinality(B)
  BY <1>4, <1>5, <1>9, <1>13
<1> QED
  BY <1>10, <1>12, <1>14 DEF L, D

-----------------------------------------------------------------------------
(* The ways in which a step of the driver ends.                            *)

\* process_schedule: a live process is selected, or none is left.  The child
\* that each waiting process would wait for is younger than it, so the
\* youngest one alive cannot be waiting for a child.
LEMMA ScheduleTable ==
  ASSUME NEW t \in Tables, NEW first \in Int, Schedule(t, first),
         active \in Slots, t[active] # None,
         \A i \in Used(t) : t[i].ppid < t[i].pid
  PROVE  /\ Evolves(t, table')
         /\ active' \in Slots /\ table'[active'] # None
         /\ phase' \in {"check", "yield", "stall"}
         /\ phase' \in {"check", "yield"} => ~table'[active'].zombie
         /\ phase' = "check" => table'[active'].wait = "none"
         /\ phase' = "stall" => Live(table') = {}
<1>1. CASE /\ Ready(t) # {}
           /\ table' = [t EXCEPT ![Pick(t, first)].wait = "none"]
           /\ active' = Pick(t, first) /\ phase' = "check"
  <2> DEFINE k == Pick(t, first)
             q == [t[k] EXCEPT !.wait = "none"]
  <2>1. k \in Ready(t)
    BY <1>1, PickIsReady
  <2>2. k \in Slots /\ t[k] # None /\ ~t[k].zombie
    BY <2>1 DEF Ready, Live, Used
  <2>3. t[k] \in Process
    BY <2>2, TableEntry
  <2>4. table' = [t EXCEPT ![k] = q] /\ active' = k
    BY <1>1
  <2> HIDE DEF k
  <2>5. SameProcess(t[k], q) /\ ~q.zombie /\ q.wait = "none"
    BY <2>2, <2>3 DEF SameProcess, Process
  <2> HIDE DEF q
  <2>6. Evolves(t, table')
    BY <2>2, <2>4, <2>5, SlotChanged, Zenon
  <2>7. table'[k] = q
    BY <2>2, <2>4 DEF Tables
  <2>8. table'[k] # None
    BY <2>2, <2>6 DEF Evolves
  <2> QED
    BY <1>1, <2>2, <2>4, <2>5, <2>6, <2>7, <2>8
<1>2. CASE Ready(t) = {} /\ active' \in Blocked(t) /\ table' = t /\ phase' = "yield"
  BY <1>2, EvolvesSelf DEF Blocked, Live, Used
<1>3. CASE /\ Ready(t) = {} /\ Blocked(t) = {}
           /\ table' = t /\ phase' = "stall" /\ active' = active
  <2>1. Live(t) = {}
    <3>1. SUFFICES ASSUME Live(t) # {} PROVE FALSE
      OBVIOUS
    <3> DEFINE S == {t[i].pid : i \in Live(t)}
    <3>2. \A i \in Live(t) : t[i].pid \in 0 .. MaxPid /\ t[i] \in Process
      BY TableEntry, SlotAssumption DEF Live, Used, Process, Pids
    <3>3. S \in SUBSET (0 .. MaxPid) /\ S # {} /\ MaxPid \in Nat
      BY <3>1, <3>2, SlotAssumption
    <3>4. PICK x \in S : \A y \in S : y <= x
      BY <3>3, GreatestOf, Zenon
    <3>5. PICK i \in Live(t) : t[i].pid = x
      BY <3>4, Zenon
    <3>6. t[i].wait = "waitpid"
      <4>1. t[i].wait \in {"none", "waitpid", "read"}
        BY <3>2 DEF Process
      <4>2. t[i].wait # "none" /\ t[i].wait # "read"
        BY <1>3 DEF Ready, WaitReady, Blocked
      <4> QED
        BY <4>1, <4>2
    <3>7. /\ Zombies(t, t[i], t[i].target) = {}
          /\ Children(t, t[i], t[i].target) # {}
      BY <1>3, <3>6 DEF Ready, WaitReady
    <3>8. PICK j \in Children(t, t[i], t[i].target) : ~t[j].zombie
      BY <3>7 DEF Zombies
    <3>9. j \in Live(t) /\ t[j].ppid = t[i].pid /\ t[j].ppid < t[j].pid
      BY <3>8 DEF Children, Live
    <3>10. t[j].pid <= t[i].pid
      BY <3>4, <3>5, <3>9
    <3> QED
      BY <3>2, <3>9, <3>10
  <2> QED
    BY <1>3, <2>1, EvolvesSelf
<1> QED
  BY <1>1, <1>2, <1>3 DEF Schedule

\* Back to guest code: the suspended call is over.
LEMMA ContinueTable ==
  ASSUME NEW t \in Tables, active \in Slots, t[active] # None
  PROVE  LET u == [t EXCEPT ![active].call = "none", ![active].target = -1]
         IN  Evolves(t, u) /\ Spares(t, u, active) /\ u[active] # None
<1> DEFINE q == [t[active] EXCEPT !.call = "none", !.target = -1]
           u == [t EXCEPT ![active].call = "none", ![active].target = -1]
<1>1. t[active] \in Process /\ -1 \in -1 .. MaxPid
  BY TableEntry, SlotAssumption
<1>2. Gentle(t[active], q)
  BY <1>1, Zenon DEF Gentle, SameProcess, Process
<1>3. u = [t EXCEPT ![active] = q]
  BY <1>1, Zenon DEF Tables
<1> HIDE DEF q, u
<1>4. Evolves(t, u) /\ Spares(t, u, active)
  BY <1>2, <1>3, GentleSlot, Zenon
<1> QED
  BY <1>4, Zenon DEF Evolves, u

\* process_driver_count_exits counts no more than the forks.
LEMMA CountRange ==
  ASSUME NEW t, forks \in Nat
  PROVE  CountExits(t) \in 0 .. forks
<1> DEFINE L == {i \in Live(t) : t[i].pid # Root}
<1>1. L \subseteq Slots /\ IsFiniteSet(Slots)
  BY SlotAssumption, FS_Interval DEF Live, Used, Slots
<1>2. IsFiniteSet(L)
  BY <1>1, FS_Subset
<1>3. Cardinality(L) \in Nat
  BY <1>2, FS_CardinalityType
<1>4. CountExits(t) = IF forks >= Cardinality(L) THEN forks - Cardinality(L) ELSE 0
  BY DEF CountExits
<1> HIDE DEF L
<1> QED
  BY <1>3, <1>4

-----------------------------------------------------------------------------
(* The state after a step.                                                 *)

WaitTyped ==
  /\ lastWait \in [pid : Pids, status : Statuses] \cup {None}
  /\ told \subseteq [pid : Pids, to : Pids, status : Statuses]

\* The table that a step starts from: the current one, or that without a
\* zombie which has been reaped.
Base(b) ==
  /\ b \in Tables /\ Books(b, died, nextPid)
  /\ Live(b) = Live(table) /\ b[active] = table[active]

\* What the invariant says of the types of the variables.
LEMMA Typed ==
  ASSUME IInv
  PROVE  /\ table \in Tables /\ active \in Slots /\ active \in Int
         /\ table[active] # None /\ table[active] \in Process
         /\ forks \in Nat /\ exits \in 0 .. forks /\ nextPid \in Nat /\ nextPid >= 2
         /\ WaitTyped /\ forks = nextPid - 2 /\ P = table[active]
         /\ P.target \in Targets \cup {-1} /\ P.kind \in {"app", "handler"}
         /\ Base(table)
<1>1. table \in Tables /\ active \in Slots /\ table[active] # None
  BY DEF IInv, TypeOK, Tables
<1>2. table[active] \in Process
  BY <1>1, TableEntry
<1>3. active \in Int
  BY <1>1, SlotAssumption DEF Slots
<1>4. /\ forks \in Nat /\ exits \in 0 .. forks /\ nextPid \in Nat /\ nextPid >= 2
      /\ forks = nextPid - 2
  BY SlotAssumption DEF IInv, TypeOK
<1>5. WaitTyped /\ P = table[active]
  BY DEF IInv, TypeOK, WaitTyped, P
<1>6. P.target \in Targets \cup {-1}
  BY <1>1, <1>5, Zenon DEF IInv, Books, Entry, Used
<1>7. P.kind \in {"app", "handler"}
  BY <1>2, <1>5 DEF Process
<1>8. Base(table)
  BY <1>1 DEF Base, IInv
<1> QED
  BY <1>1, <1>2, <1>3, <1>4, <1>5, <1>6, <1>7, <1>8, Zenon

\* A step that moves the driver and changes processes keeps the invariant if
\* its end is in order.
LEMMA Advance ==
  ASSUME IInv, NEW b, Base(b), Evolves(b, table'), Recorded,
         nextPid' = nextPid, forks' = forks, exits' \in 0 .. forks, WaitTyped',
         active' \in Slots, table'[active'] # None,
         phase' \in {"check", "run", "yield"} \cup Ends,
         phase' \in {"check", "run", "yield"} =>
           (table'[active'].zombie => table'[active'].kind = "handler"),
         phase' \in {"check", "run"} => table'[active'].wait = "none",
         phase' = "stall" => Live(table') = {},
         phase' \in {"exited", "signaled"} => exits' = CountExits(table')
  PROVE  IInv'
<1>1. /\ forks \in Nat /\ nextPid \in Nat /\ nextPid >= 2 /\ forks = nextPid - 2
  BY Typed
<1>2. b \in Tables /\ Books(b, died, nextPid) /\ Live(b) = Live(table)
  BY DEF Base
<1>3. died' = died \cup Deaths(b, table')
  BY <1>2, Zenon DEF Recorded, Deaths
<1>4. Books(table', died', nextPid)
  BY <1>1, <1>2, <1>3, BooksEvolve
<1>5. died' \subseteq [pid : Pids, to : Pids \cup {0}, status : Statuses]
  <2>1. Deaths(b, table') \subseteq [pid : Pids, to : Pids \cup {0}, status : Statuses]
    BY <1>2, DeathsTyped
  <2>2. died \subseteq [pid : Pids, to : Pids \cup {0}, status : Statuses]
    BY DEF IInv, TypeOK
  <2> QED
    BY <1>3, <2>1, <2>2, Zenon
<1>6. table' \in Tables
  BY DEF Evolves
<1>7. TypeOK'
  <2>1. /\ nextPid' \in 2 .. MaxPid + 1 /\ forks' \in 0 .. MaxPid /\ exits' \in 0 .. forks'
    BY DEF IInv, TypeOK
  <2> QED
    BY <1>5, <1>6, <2>1, Zenon DEF TypeOK, Tables, WaitTyped
<1>8. ExitsCounted'
  <2>1. SUFFICES ASSUME phase' \in {"exited", "signaled"}
                 PROVE  exits' = Cardinality({d \in died' : d.pid # Root})
    BY DEF ExitsCounted
  <2> DEFINE L == Cardinality({i \in Live(table') : table'[i].pid # Root})
             D == Cardinality({d \in died' : d.pid # Root})
  <2>2. L \in Nat /\ D \in Nat /\ L + D = nextPid - 2
    BY <1>1, <1>4, <1>6, BooksCount
  <2>3. exits' = IF forks >= L THEN forks - L ELSE 0
    BY <2>1 DEF CountExits
  <2> HIDE DEF L, D
  <2>4. exits' = D
    BY <1>1, <2>2, <2>3
  <2> QED
    BY <2>4 DEF D
<1>9. Control'
  BY <1>8 DEF Control, P
<1> QED
  BY <1>1, <1>4, <1>7, <1>9 DEF IInv

\* A step that stays with the process selected.
LEMMA StayStep ==
  ASSUME IInv, NEW b, Base(b), Evolves(b, table'), Spares(b, table', active), Recorded,
         nextPid' = nextPid, forks' = forks, exits' = exits, active' = active, WaitTyped',
         phase \in {"check", "run", "yield"}, phase' \in {"check", "run", phase},
         phase = "yield" => phase' = "yield"
  PROVE  IInv'
<1>1. /\ active \in Slots /\ table[active] # None /\ exits \in 0 .. forks
      /\ P = table[active] /\ b[active] = table[active]
  BY Typed, Zenon DEF Base
<1>2. table'[active] # None
  BY <1>1, SMT, Z3 DEF Evolves
<1>3. table'[active].zombie => table'[active].kind = "handler"
  BY <1>1 DEF IInv, Control, Spares
<1>4. phase # "yield" => table'[active].wait = "none"
  BY <1>1 DEF IInv, Control, Spares
<1>5. phase' \in {"check", "run", "yield"}
  OBVIOUS
<1> QED
  BY <1>1, <1>2, <1>3, <1>4, <1>5, Advance, Zenon

\* The driver goes on with the process selected.
LEMMA ContinueStep ==
  ASSUME IInv, NEW b, Base(b), NEW t, Evolves(b, t), Spares(b, t, active), Continue(t),
         Recorded, UNCHANGED pidVars, WaitTyped', phase = "run"
  PROVE  IInv'
<1>1. /\ active \in Slots /\ b[active] # None /\ b \in Tables
  BY Typed DEF Base
<1>2. t \in Tables /\ t[active] # None
  BY <1>1 DEF Evolves
<1>3. /\ table' = [t EXCEPT ![active].call = "none", ![active].target = -1]
      /\ active' = active /\ phase' = phase /\ exits' = exits
      /\ nextPid' = nextPid /\ forks' = forks
  BY DEF Continue, pidVars
<1>4. Evolves(t, table') /\ Spares(t, table', active)
  BY <1>1, <1>2, <1>3, ContinueTable, Zenon
<1>5. Evolves(b, table') /\ Spares(b, table', active)
  BY <1>1, <1>4, EvolvesTwice, SparesTwice
<1> QED
  BY <1>3, <1>5, StayStep, Zenon

\* Parents are older than their children.
LEMMA Younger ==
  ASSUME IInv, NEW t, Evolves(table, t)
  PROVE  /\ t \in Tables /\ t[active] # None
         /\ \A i \in Used(t) : t[i].ppid < t[i].pid
<1>1. table \in Tables /\ active \in Slots /\ table[active] # None
  BY Typed
<1>2. \A i \in Used(table) : table[i].ppid < table[i].pid
  BY Zenon DEF IInv, Books, Entry
<1> QED
  BY <1>1, <1>2 DEF Evolves, Used, SameProcess

\* process_schedule selects a process that is ready, publishes one that waits,
\* or stalls.
LEMMA ScheduleStep ==
  ASSUME IInv, NEW t, Evolves(table, t), NEW first \in Int, Schedule(t, first), Recorded,
         UNCHANGED pidVars, UNCHANGED waitVars, exits' \in 0 .. forks
  PROVE  IInv'
<1>1. table \in Tables /\ active \in Slots /\ WaitTyped /\ Base(table)
  BY Typed
<1>2. /\ t \in Tables /\ t[active] # None /\ \A i \in Used(t) : t[i].ppid < t[i].pid
  BY Younger
<1>3. /\ Evolves(t, table')
      /\ active' \in Slots /\ table'[active'] # None
      /\ phase' \in {"check", "yield", "stall"}
      /\ phase' \in {"check", "yield"} => ~table'[active'].zombie
      /\ phase' = "check" => table'[active'].wait = "none"
      /\ phase' = "stall" => Live(table') = {}
  BY <1>1, <1>2, ScheduleTable, Zenon
<1>4. Evolves(table, table')
  BY <1>1, <1>3, EvolvesTwice
<1>5. nextPid' = nextPid /\ forks' = forks /\ WaitTyped'
  BY <1>1 DEF pidVars, waitVars, WaitTyped
<1>6. /\ phase' \in {"check", "run", "yield"} \cup Ends
      /\ phase' \notin {"exited", "signaled"} /\ phase' # "run"
  BY <1>3 DEF Ends
<1> QED
  BY <1>1, <1>3, <1>4, <1>5, <1>6, Advance, Zenon

\* The process selected has ended.
LEMMA LeaveStep ==
  ASSUME IInv, NEW t, Evolves(table, t), NEW end \in {"exited", "signaled"}, Leave(t, end),
         Recorded, UNCHANGED pidVars, UNCHANGED waitVars
  PROVE  IInv'
<1>1. table \in Tables /\ active \in Slots /\ active \in Int /\ WaitTyped /\ Base(table)
      /\ forks \in Nat
  BY Typed
<1>2. exits' = CountExits(t) /\ exits' \in 0 .. forks
  BY <1>1, CountRange DEF Leave
<1>3. CASE t[active].pid # Root /\ Schedule(t, active + 1)
  BY <1>1, <1>2, <1>3, ScheduleStep
<1>4. CASE table' = t /\ phase' = end /\ active' = active
  <2>1. t \in Tables /\ t[active] # None
    BY Younger
  <2>2. nextPid' = nextPid /\ forks' = forks /\ WaitTyped'
    BY <1>1 DEF pidVars, waitVars, WaitTyped
  <2>3. phase' \in Ends /\ phase' \notin {"check", "run", "yield"} /\ phase' # "stall"
    BY <1>4 DEF Ends
  <2> QED
    BY <1>1, <1>2, <1>4, <2>1, <2>2, <2>3, Advance, Zenon
<1> QED
  BY <1>3, <1>4 DEF Leave

\* The process selected waits.
LEMMA BlockStep ==
  ASSUME IInv, NEW t, Evolves(table, t), NEW wait \in {"waitpid", "read"},
         NEW target \in Targets \cup {-1}, Block(t, wait, target),
         Recorded, UNCHANGED pidVars, UNCHANGED waitVars
  PROVE  IInv'
<1> DEFINE q == [t[active] EXCEPT !.call = wait, !.wait = wait, !.target = target]
           u == [t EXCEPT ![active] = q]
<1>1. table \in Tables /\ active \in Slots /\ active \in Int /\ forks \in Nat
  BY Typed
<1>2. t \in Tables /\ t[active] # None
  BY Younger
<1>3. t[active] \in Process
  BY <1>1, <1>2, TableEntry
<1>4. target \in -1 .. MaxPid
  BY TargetAssumption, SlotAssumption
<1>5. SameProcess(t[active], q)
  BY <1>3, <1>4, Zenon DEF SameProcess, Process
<1>6. exits' = CountExits(u) /\ Schedule(u, active + 1)
  BY DEF Block
<1> HIDE DEF q
<1>7. Evolves(t, u)
  BY <1>1, <1>2, <1>5, SlotChanged
<1> HIDE DEF u
<1>8. Evolves(table, u)
  BY <1>1, <1>7, EvolvesTwice
<1>9. exits' \in 0 .. forks
  BY <1>1, <1>6, CountRange
<1> QED
  BY <1>1, <1>6, <1>8, <1>9, ScheduleStep, SMT, Z3

\* The process selected is terminated.
LEMMA TerminateStep ==
  ASSUME IInv, NEW t, Evolves(table, t), ~t[active].zombie, Fatal(t[active]) # {},
         Terminate(t), Recorded, UNCHANGED pidVars, UNCHANGED waitVars
  PROVE  IInv'
<1> DEFINE status == Killed(Min(Fatal(t[active])))
<1>1. table \in Tables /\ active \in Slots
  BY Typed
<1>2. t \in Tables /\ t[active] # None
  BY Younger
<1>3. active \in Live(t)
  BY <1>1, <1>2 DEF Live, Used
<1>4. t[active] \in Process
  BY <1>1, <1>2, TableEntry
<1>5. status \in Statuses
  BY <1>4, DeathStatus
<1>6. Leave(Dead(t, active, status), "signaled")
  BY Zenon DEF Terminate
<1> HIDE DEF status
<1>7. Evolves(t, Dead(t, active, status))
  BY <1>2, <1>3, <1>5, DeadTable
<1>8. Evolves(table, Dead(t, active, status))
  BY <1>1, <1>7, EvolvesTwice
<1> QED
  BY <1>6, <1>8, LeaveStep

\* A change of the process selected that its wait and its life survive.
LEMMA ActiveChanged ==
  ASSUME IInv, NEW q, Gentle(table[active], q)
  PROVE  /\ Evolves(table, [table EXCEPT ![active] = q])
         /\ Spares(table, [table EXCEPT ![active] = q], active)
         /\ [table EXCEPT ![active] = q][active] = q
<1>1. table \in Tables /\ active \in Slots /\ table[active] # None
  BY Typed
<1>2. [table EXCEPT ![active] = q][active] = q
  BY <1>1 DEF Tables
<1> QED
  BY <1>1, <1>2, GentleSlot

\* A step that leaves the table alone.
LEMMA TableItself ==
  ASSUME IInv
  PROVE  Evolves(table, table) /\ Spares(table, table, active) /\ Base(table)
<1>1. table \in Tables /\ Base(table)
  BY Typed
<1> QED
  BY <1>1, EvolvesSelf DEF Spares

-----------------------------------------------------------------------------
(* The driver's loop.                                                      *)

\* The head of the driver's loop.
LEMMA CheckStep ==
  ASSUME IInv, Check, Recorded
  PROVE  IInv'
<1>1. /\ P = table[active] /\ Evolves(table, table) /\ Spares(table, table, active)
      /\ Base(table) /\ WaitTyped
  BY Typed, TableItself
<1>2. UNCHANGED pidVars /\ UNCHANGED waitVars /\ phase = "check"
  BY DEF Check
<1>3. CASE P.kind = "app" /\ Fatal(P) # {} /\ Terminate(table)
  <2>1. ~P.zombie
    BY <1>2, <1>3 DEF IInv, Control
  <2> QED
    BY <1>1, <1>2, <1>3, <2>1, TerminateStep
<1>4. CASE phase' = "run" /\ UNCHANGED <<table, active, exits>>
  <2>1. nextPid' = nextPid /\ forks' = forks /\ WaitTyped'
    BY <1>1, <1>2 DEF pidVars, waitVars, WaitTyped
  <2> QED
    BY <1>1, <1>2, <1>4, <2>1, StayStep
<1> QED
  BY <1>3, <1>4 DEF Check

\* Guest code passes a checkpoint.
LEMMA CheckpointStep ==
  ASSUME IInv, Checkpoint, Recorded
  PROVE  IInv'
<1>1. /\ P = table[active] /\ Evolves(table, table) /\ Base(table) /\ WaitTyped
      /\ table[active] \in Process
  BY Typed, TableItself
<1>2. UNCHANGED pidVars /\ UNCHANGED waitVars /\ phase = "run" /\ ~P.zombie
  BY DEF Checkpoint, Runs
<1>3. CASE Fatal(P) # {} /\ Terminate(table)
  BY <1>1, <1>2, <1>3, TerminateStep
<1>4. CASE Continue([table EXCEPT ![active] = Delivered(table[active])])
  <2>1. Gentle(table[active], Delivered(table[active]))
    BY <1>1, DeliveredGentle
  <2>2. WaitTyped'
    BY <1>1, <1>2 DEF waitVars, WaitTyped
  <2>3. /\ Evolves(table, [table EXCEPT ![active] = Delivered(table[active])])
        /\ Spares(table, [table EXCEPT ![active] = Delivered(table[active])], active)
    BY <2>1, ActiveChanged
  <2> QED
    BY <1>1, <1>2, <1>4, <2>2, <2>3, ContinueStep
<1> QED
  BY <1>3, <1>4 DEF Checkpoint

\* The quantum of the process is used up.
LEMMA PumpStep ==
  ASSUME IInv, Pump, Recorded
  PROVE  IInv'
<1> DEFINE k == Pick(table, active + 1)
           q == [table[k] EXCEPT !.wait = "none"]
<1>1. /\ P = table[active] /\ Base(table) /\ WaitTyped /\ table \in Tables
      /\ active \in Slots /\ active \in Int /\ table[active] # None /\ forks \in Nat
  BY Typed
<1>2. /\ UNCHANGED pidVars /\ UNCHANGED waitVars /\ phase = "run" /\ ~P.zombie
      /\ exits' = CountExits(table) /\ active' = k /\ phase' = "yield"
      /\ table' = [table EXCEPT ![k] = q]
  BY DEF Pump, Computes, Runs
<1>3. active \in Ready(table)
  BY <1>1, <1>2 DEF IInv, Control, Ready, WaitReady, Live, Used
<1>4. k \in Ready(table)
  BY <1>1, <1>3, PickIsReady
<1>5. k \in Slots /\ table[k] # None /\ ~table[k].zombie
  BY <1>4 DEF Ready, Live, Used
<1>6. table[k] \in Process
  BY <1>1, <1>5, TableEntry, Zenon
<1> HIDE DEF k
<1>7. SameProcess(table[k], q) /\ ~q.zombie
  BY <1>5, <1>6 DEF SameProcess, Process
<1> HIDE DEF q
<1>8. Evolves(table, table')
  BY <1>1, <1>2, <1>5, <1>7, SlotChanged, Zenon
<1>9. table'[active'] = q /\ table'[active'] # None /\ active' \in Slots
  <2>1. table'[k] = q
    BY <1>1, <1>2, <1>5 DEF Tables
  <2> QED
    BY <1>2, <1>5, <1>8, <2>1 DEF Evolves
<1>10. exits' \in 0 .. forks
  BY <1>1, <1>2, CountRange
<1>11. nextPid' = nextPid /\ forks' = forks /\ WaitTyped'
  BY <1>1, <1>2 DEF pidVars, waitVars, WaitTyped
<1> QED
  BY <1>1, <1>2, <1>7, <1>8, <1>9, <1>10, <1>11, Advance, Zenon

\* fork: the child in a free slot, or the end of the invocation.
LEMMA ForkStep ==
  ASSUME IInv, Fork, Recorded
  PROVE  IInv'
<1>1. /\ P = table[active] /\ Base(table) /\ WaitTyped /\ table \in Tables
      /\ active \in Slots /\ table[active] # None /\ table[active] \in Process
      /\ forks \in Nat /\ nextPid \in Nat /\ nextPid >= 2 /\ forks = nextPid - 2
  BY Typed
<1>2. /\ UNCHANGED waitVars /\ phase = "run" /\ ~P.zombie /\ P.kind = "app"
      /\ nextPid <= MaxPid /\ exits' = CountExits(table)
  BY DEF Fork, Computes, Runs
<1>3. exits' \in 0 .. forks
  BY <1>1, <1>2, CountRange
<1>4. WaitTyped'
  BY <1>1, <1>2, Zenon DEF waitVars, WaitTyped
<1>5. CASE Used(table) = Slots /\ phase' = "full" /\ UNCHANGED <<table, active, pidVars>>
  <2>1. Evolves(table, table')
    BY <1>5, TableItself
  <2>2. nextPid' = nextPid /\ forks' = forks /\ phase' \in Ends
        /\ phase' \notin {"check", "run", "yield", "stall", "exited", "signaled"}
    BY <1>5 DEF pidVars, Ends
  <2> QED
    BY <1>1, <1>3, <1>4, <1>5, <2>1, <2>2, Advance, Zenon
<1>6. CASE Used(table) # Slots
  <2> DEFINE free == Min(Slots \ Used(table))
             a == [table[active] EXCEPT !.call = "fork"]
             u == [table EXCEPT ![active] = a]
             q == [P EXCEPT !.pid = nextPid, !.ppid = P.pid, !.pend = {},
                            !.call = "fork", !.input = FALSE]
  <2>1. /\ table' = [table EXCEPT ![active].call = "fork", ![free] = q]
        /\ active' = free /\ phase' = "check"
        /\ nextPid' = nextPid + 1 /\ forks' = forks + 1
    BY <1>6 DEF Fork
  <2>2. free \in Slots /\ free \notin Used(table)
    <3>1. Slots \ Used(table) \in SUBSET Nat
      BY SlotAssumption DEF Slots
    <3>2. Slots \ Used(table) # {}
      BY <1>6 DEF Used
    <3> QED
      BY <3>1, <3>2, MinIsMember
  <2> HIDE DEF free
  <2>3. table[free] = None /\ free # active
    BY <1>1, <2>2 DEF Used
  <2>4. table' = [u EXCEPT ![free] = q]
    BY <1>1, <2>1 DEF Tables
  <2>5. Gentle(table[active], a)
    BY <1>1 DEF Gentle, SameProcess, Process
  <2>6. /\ q \in Process /\ ~q.zombie /\ q.pid = nextPid /\ q.ppid = P.pid
        /\ q.target = P.target /\ q.wait = P.wait /\ q.kind = P.kind
    <3>1. nextPid \in Pids
      BY <1>1, <1>2, SlotAssumption DEF Pids
    <3>2. P \in Process /\ ~P.zombie
      BY <1>1, <1>2
    <3>3. q \in Process
      BY <3>1, <3>2, Zenon DEF Process
    <3>4. /\ q.pid = nextPid /\ q.ppid = P.pid /\ q.zombie = P.zombie
          /\ q.target = P.target /\ q.wait = P.wait /\ q.kind = P.kind
      BY <3>2 DEF Process
    <3> QED
      BY <3>2, <3>3, <3>4
  <2> HIDE DEF a, q
  <2>7. Evolves(table, u)
    BY <2>5, ActiveChanged
  <2>8. \A i \in Slots : u[i] = IF i = active THEN a ELSE table[i]
    BY <1>1 DEF Tables
  <2> HIDE DEF u
  <2>9. u \in Tables /\ Used(u) = Used(table)
    BY <2>7 DEF Evolves, Used
  <2>10. \A i \in Used(table) : u[i].zombie = table[i].zombie
    BY <2>5, <2>8, Zenon DEF Used, Gentle
  <2>11. Deaths(table, u) = {}
    BY <2>9, <2>10 DEF Deaths, Live
  <2>12. Books(u, died \cup Deaths(table, u), nextPid)
    BY <1>1, <2>7, BooksEvolve DEF Base
  <2>13. Books(u, died, nextPid)
    BY <2>11, <2>12
  <2>14. Entry(table[active], died, nextPid)
    BY <1>1, Zenon DEF Base, Books, Used
  <2>15. q.ppid < nextPid /\ q.target \in Targets \cup {-1}
    BY <1>1, <2>6, <2>14 DEF Entry
  <2>16. u[free] = None
    BY <2>2, <2>3, <2>8
  <2>17. table' \in Tables /\ Books(table', died, nextPid + 1)
    <3>1. nextPid \in Nat \ {0}
      BY <1>1
    <3> QED
      BY <2>2, <2>4, <2>6, <2>9, <2>13, <2>15, <2>16, <3>1, BooksFork, Zenon
  <2>18. \A i \in Slots : table'[i] = IF i = free THEN q ELSE u[i]
    BY <2>4, <2>9 DEF Tables
  <2>19. died' = died
    <3>1. \A j \in Live(table) : j \in Slots /\ j # free /\ ~table'[j].zombie
      BY <2>2, <2>10, <2>18 DEF Live, Used
    <3> QED
      BY <3>1 DEF Recorded
  <2>20. table'[active'] = q /\ q # None /\ q.wait = "none"
    BY <1>1, <1>2, <2>1, <2>2, <2>6, <2>18, NoneAssumption, Zenon DEF IInv, Control
  <2>21. TypeOK'
    <3>1. /\ nextPid' \in 2 .. MaxPid + 1 /\ forks' \in 0 .. MaxPid /\ exits' \in 0 .. forks'
      BY <1>1, <1>2, <1>3, <2>1, SlotAssumption, SMT, Z3
    <3>2. died' \subseteq [pid : Pids, to : Pids \cup {0}, status : Statuses]
      BY <2>19 DEF IInv, TypeOK
    <3> QED
      BY <1>4, <2>1, <2>2, <2>17, <2>20, <3>1, <3>2, Zenon DEF TypeOK, Tables, WaitTyped
  <2>22. Control'
    BY <2>1, <2>6, <2>20 DEF Control, P, ExitsCounted
  <2>23. forks' = nextPid' - 2
    BY <1>1, <2>1
  <2> QED
    BY <2>1, <2>17, <2>19, <2>21, <2>22, <2>23 DEF IInv
<1> QED
  BY <1>5, <1>6 DEF Fork

\* The fork returns in the child.
LEMMA ForkReturnsStep ==
  ASSUME IInv, ForkReturns, Recorded
  PROVE  IInv'
<1>1. /\ Evolves(table, table) /\ Spares(table, table, active) /\ Base(table) /\ WaitTyped
  BY Typed, TableItself
<1>2. /\ UNCHANGED pidVars /\ UNCHANGED waitVars /\ phase = "run" /\ Continue(table)
  BY DEF ForkReturns, Runs
<1>3. WaitTyped'
  BY <1>1, <1>2 DEF waitVars, WaitTyped
<1> QED
  BY <1>1, <1>2, <1>3, ContinueStep

\* What waitpid reports has its type.
LEMMA ReportTyped ==
  ASSUME IInv, NEW pid \in Pids, NEW status \in Statuses, Report(pid, status)
  PROVE  WaitTyped'
<1>1. P.pid \in Pids /\ WaitTyped
  BY Typed DEF Process
<1> QED
  BY <1>1, SMT, Z3 DEF Report, WaitTyped

\* The zombie that waitpid finds is a child of the process selected.
LEMMA FoundZombie ==
  ASSUME IInv, NEW target, Zombies(table, P, target) # {}
  PROVE  LET z == Min(Zombies(table, P, target))
         IN  /\ z \in Used(table) /\ table[z].zombie /\ table[z].ppid = P.pid /\ z # active
             /\ table[z].pid \in Pids /\ table[z].status \in Statuses
             /\ [pid |-> table[z].pid, to |-> P.pid, status |-> table[z].status] \in died
<1> DEFINE Z == Zombies(table, P, target)
           z == Min(Z)
<1>1. Z \in SUBSET Nat
  BY SlotAssumption DEF Zombies, Children, Used, Slots
<1>2. z \in Z
  BY <1>1, MinIsMember
<1> HIDE DEF z
<1>3. z \in Used(table) /\ table[z].zombie /\ table[z].ppid = P.pid
  BY <1>2 DEF Zombies, Children
<1>4. table \in Tables /\ P = table[active] /\ z \in Slots /\ table[z] # None
  BY <1>3, Typed DEF Used
<1>5. table[z] \in Process
  BY <1>4, TableEntry, Zenon
<1>6. Entry(table[z], died, nextPid)
  BY <1>3 DEF IInv, Books
<1>7. z # active
  <2>1. table[z].pid \in Int /\ table[z].ppid < table[z].pid
    BY <1>5, <1>6, SlotAssumption DEF Entry, Process, Pids
  <2> QED
    BY <1>3, <1>4, <2>1, SMT, Z3
<1> QED
  BY <1>3, <1>5, <1>6, <1>7, Zenon DEF Entry, Process, z

\* waitpid, called or retried.
LEMMA WaitOnStep ==
  ASSUME IInv, phase = "run", ~P.zombie, NEW target \in Targets \cup {-1},
         NEW nohang \in BOOLEAN, WaitOn(target, nohang), UNCHANGED pidVars, Recorded
  PROVE  IInv'
<1> DEFINE Z == Zombies(table, P, target)
           pending == Unmasked(P) # {} /\ ~nohang
           u == IF pending THEN [table EXCEPT ![active] = Delivered(table[active])] ELSE table
<1>1. /\ P = table[active] /\ Base(table) /\ WaitTyped /\ table \in Tables
      /\ active \in Slots /\ table[active] # None /\ table[active] \in Process
      /\ nextPid \in Nat
      /\ Evolves(table, table) /\ Spares(table, table, active)
  BY Typed, TableItself
<1>2. Evolves(table, u) /\ Spares(table, u, active)
  <2>1. Gentle(table[active], Delivered(table[active]))
    BY <1>1, DeliveredGentle
  <2> QED
    BY <1>1, <2>1, ActiveChanged
<1>3. CASE /\ Z # {}
           /\ Report(table[Min(Z)].pid, table[Min(Z)].status)
           /\ Continue([table EXCEPT ![Min(Z)] = None])
  <2> DEFINE z == Min(Z)
             b == [table EXCEPT ![z] = None]
  <2>1. /\ z \in Used(table) /\ table[z].zombie /\ z # active
        /\ table[z].pid \in Pids /\ table[z].status \in Statuses
    BY <1>3, FoundZombie, Zenon
  <2>2. WaitTyped'
    BY <1>3, <2>1, ReportTyped
  <2>3. Continue(b)
    BY <1>3
  <2> HIDE DEF z
  <2>4. b \in Tables /\ Books(b, died, nextPid) /\ Live(b) = Live(table)
    BY <1>1, <2>1, BooksReap DEF Base
  <2>5. b[active] = table[active]
    BY <1>1, <2>1 DEF Tables
  <2> HIDE DEF b
  <2>6. Base(b) /\ Evolves(b, b) /\ Spares(b, b, active)
    BY <2>4, <2>5, EvolvesSelf DEF Base, Spares
  <2> QED
    BY <2>2, <2>3, <2>6, ContinueStep
<1>4. CASE /\ IF target = 0 /\ lastWait # None
                THEN Report(lastWait.pid, lastWait.status) ELSE UNCHANGED waitVars
           /\ Continue(table)
  <2>1. WaitTyped'
    <3>1. CASE target = 0 /\ lastWait # None
      <4>1. lastWait.pid \in Pids /\ lastWait.status \in Statuses
        BY <1>1, <3>1, Zenon DEF WaitTyped
      <4> QED
        BY <1>4, <3>1, <4>1, ReportTyped, Zenon
    <3>2. CASE ~(target = 0 /\ lastWait # None)
      BY <1>1, <1>4, <3>2 DEF waitVars, WaitTyped
    <3> QED
      BY <3>1, <3>2
  <2> QED
    BY <1>1, <1>4, <2>1, ContinueStep
<1>5. CASE UNCHANGED waitVars /\ nohang /\ Continue(table)
  <2>1. WaitTyped'
    BY <1>1, <1>5 DEF waitVars, WaitTyped
  <2> QED
    BY <1>1, <1>5, <2>1, ContinueStep, Zenon
<1>6. CASE UNCHANGED waitVars /\ Fatal(P) # {} /\ Terminate(table)
  BY <1>1, <1>6, TerminateStep
<1>7. CASE UNCHANGED waitVars /\ Continue(u)
  <2>1. WaitTyped'
    BY <1>1, <1>7 DEF waitVars, WaitTyped
  <2> HIDE DEF u
  <2> QED
    BY <1>1, <1>2, <1>7, <2>1, ContinueStep, Zenon
<1>8. CASE UNCHANGED waitVars /\ Block(u, "waitpid", target)
  <2> HIDE DEF u
  <2> QED
    BY <1>2, <1>8, BlockStep
<1> QED
  BY <1>3, <1>4, <1>5, <1>6, <1>7, <1>8, Zenon DEF WaitOn

\* waitpid, the first time.
LEMMA WaitPidStep ==
  ASSUME IInv, WaitPid, Recorded
  PROVE  IInv'
<1>1. phase = "run" /\ ~P.zombie /\ UNCHANGED pidVars
  BY DEF WaitPid, Computes, Runs
<1>2. PICK target \in Targets, nohang \in BOOLEAN : WaitOn(target, nohang)
  BY DEF WaitPid
<1> QED
  BY <1>1, <1>2, WaitOnStep

\* waitpid, called again after its yield.
LEMMA WaitRetryStep ==
  ASSUME IInv, WaitRetry, Recorded
  PROVE  IInv'
<1>1. phase = "run" /\ ~P.zombie /\ UNCHANGED pidVars /\ P.target \in Targets \cup {-1}
  BY Typed DEF WaitRetry, Runs
<1>2. PICK nohang \in BOOLEAN : nohang = FALSE
  BY Zenon
<1>3. WaitOn(P.target, nohang)
  BY <1>2, Zenon DEF WaitRetry
<1> QED
  BY <1>1, <1>3, WaitOnStep

\* A read that blocks, and one that has its input.
LEMMA ReadStep ==
  ASSUME IInv, Read, Recorded
  PROVE  IInv'
<1> DEFINE u == [table EXCEPT ![active] = Delivered(table[active])]
<1>1. /\ P = table[active] /\ Base(table) /\ WaitTyped /\ table \in Tables
      /\ active \in Slots /\ table[active] # None /\ table[active] \in Process
      /\ P.target \in Targets \cup {-1}
      /\ Evolves(table, table) /\ Spares(table, table, active)
  BY Typed, TableItself
<1>2. UNCHANGED pidVars /\ UNCHANGED waitVars /\ phase = "run" /\ ~P.zombie
  BY DEF Read, Runs
<1>3. WaitTyped' /\ nextPid' = nextPid /\ forks' = forks
  BY <1>1, <1>2, Zenon DEF pidVars, waitVars, WaitTyped
<1>4. CASE Continue([table EXCEPT ![active].input = FALSE])
  <2> DEFINE q == [table[active] EXCEPT !.input = FALSE]
             t == [table EXCEPT ![active] = q]
  <2>1. Gentle(table[active], q)
    BY <1>1, Zenon DEF Gentle, SameProcess, Process
  <2>2. Evolves(table, t) /\ Spares(table, t, active)
    BY <2>1, ActiveChanged, Zenon
  <2>3. Continue(t)
    BY <1>4, Zenon
  <2> HIDE DEF t
  <2> QED
    BY <1>1, <1>2, <1>3, <2>2, <2>3, ContinueStep
<1>5. CASE Fatal(P) # {} /\ Terminate(table)
  BY <1>1, <1>2, <1>5, TerminateStep
<1>6. CASE /\ table' = [u EXCEPT ![active].call = IF Restarts(P) THEN "read" ELSE "none"]
           /\ UNCHANGED <<active, phase, exits>>
  <2> DEFINE p == Delivered(table[active])
             c == IF Restarts(P) THEN "read" ELSE "none"
             q == [p EXCEPT !.call = c]
  <2>1. Gentle(table[active], p)
    BY <1>1, DeliveredGentle, Zenon
  <2>2. p \in Process /\ c \in {"none", "fork", "waitpid", "read"}
    BY <2>1 DEF Gentle, SameProcess
  <2>3. table' = [table EXCEPT ![active] = q]
    BY <1>1, <1>6, Zenon DEF Tables
  <2> HIDE DEF p, c
  <2>4. Gentle(p, q)
    BY <2>2 DEF Gentle, SameProcess, Process
  <2>5. Gentle(table[active], q)
    BY <1>1, <2>1, <2>4, GentleTwice
  <2> HIDE DEF q
  <2>6. Evolves(table, table') /\ Spares(table, table', active)
    BY <2>3, <2>5, ActiveChanged, Zenon
  <2> QED
    BY <1>1, <1>2, <1>3, <1>6, <2>6, StayStep, Zenon
<1>7. CASE Block(table, "read", P.target)
  BY <1>1, <1>2, <1>7, BlockStep, Zenon
<1> QED
  BY <1>4, <1>5, <1>6, <1>7, Zenon DEF Read

\* exit of the process selected.
LEMMA ExitStep ==
  ASSUME IInv, Exit, Recorded
  PROVE  IInv'
<1>1. /\ P = table[active] /\ table \in Tables /\ active \in Slots /\ table[active] # None
      /\ Evolves(table, table)
  BY Typed, TableItself
<1>2. UNCHANGED pidVars /\ UNCHANGED waitVars /\ ~P.zombie
  BY DEF Exit, Computes, Runs
<1>3. PICK code \in Codes :
        Leave(IF P.pid = Root THEN table ELSE Dead(table, active, Exited(code)), "exited")
  BY DEF Exit
<1>4. active \in Live(table) /\ Exited(code) \in Statuses
  BY <1>1, <1>2, DeathStatus, Zenon DEF Live, Used
<1>5. Evolves(table, Dead(table, active, Exited(code)))
  BY <1>1, <1>4, DeadTable
<1> QED
  BY <1>1, <1>2, <1>3, <1>5, LeaveStep, Zenon

-----------------------------------------------------------------------------
(* Signals, exec and what comes from outside.                              *)

\* The active process takes its signals, after kill or a change of its mask.
LEMMA SelfSignalStep ==
  ASSUME IInv, phase = "run", ~P.zombie, NEW t, Evolves(table, t), Spares(table, t, active),
         SelfSignal(t), UNCHANGED pidVars, UNCHANGED waitVars, Recorded
  PROVE  IInv'
<1>1. /\ P = table[active] /\ Base(table) /\ WaitTyped /\ table \in Tables /\ active \in Slots
  BY Typed
<1>2. t \in Tables /\ t[active] # None
  BY Younger
<1>3. t[active] \in Process
  BY <1>1, <1>2, TableEntry
<1>4. WaitTyped'
  BY <1>1, Zenon DEF waitVars, WaitTyped
<1>5. CASE t[active].kind = "app" /\ Fatal(t[active]) # {} /\ Terminate(t)
  <2>1. ~t[active].zombie
    BY <1>1, <1>5 DEF Spares
  <2> QED
    BY <1>5, <2>1, TerminateStep, Zenon
<1>6. CASE Continue([t EXCEPT ![active] = Delivered(t[active])])
  <2> DEFINE v == [t EXCEPT ![active] = Delivered(t[active])]
  <2>1. Gentle(t[active], Delivered(t[active]))
    BY <1>3, DeliveredGentle
  <2>2. Evolves(t, v) /\ Spares(t, v, active)
    BY <1>1, <1>2, <2>1, GentleSlot
  <2>3. Continue(v)
    BY <1>6
  <2> HIDE DEF v
  <2>4. Evolves(table, v) /\ Spares(table, v, active)
    BY <1>1, <2>2, EvolvesTwice, SparesTwice
  <2> QED
    BY <1>1, <1>4, <2>3, <2>4, ContinueStep, SMT, Z3
<1>7. CASE Continue(t)
  BY <1>1, <1>4, <1>7, ContinueStep
<1> QED
  BY <1>5, <1>6, <1>7, Zenon DEF SelfSignal

\* kill, of a process or of the group.
LEMMA KillStep ==
  ASSUME IInv, Kill, Recorded
  PROVE  IInv'
<1>1. table \in Tables /\ active \in Slots /\ table[active] # None
  BY Typed
<1>2. phase = "run" /\ ~P.zombie /\ UNCHANGED pidVars /\ UNCHANGED waitVars
  BY DEF Kill, Computes, Runs
<1>3. PICK s \in Signals : \E t \in Signalled(s) : SelfSignal(t)
  BY DEF Kill
<1>4. PICK t \in Signalled(s) : SelfSignal(t)
  BY <1>3
<1>5. Evolves(table, t) /\ Spares(table, t, active)
  BY <1>1, SignalledTable
<1> QED
  BY <1>2, <1>4, <1>5, SelfSignalStep

\* sigprocmask.
LEMMA SetMaskStep ==
  ASSUME IInv, SetMask, Recorded
  PROVE  IInv'
<1>1. table[active] \in Process
  BY Typed
<1>2. phase = "run" /\ ~P.zombie /\ UNCHANGED pidVars /\ UNCHANGED waitVars
  BY DEF SetMask, Computes, Runs
<1>3. PICK m \in Masks : SelfSignal([table EXCEPT ![active].mask = m])
  BY DEF SetMask
<1> DEFINE q == [table[active] EXCEPT !.mask = m]
           t == [table EXCEPT ![active] = q]
<1>4. m \in SUBSET Signals
  BY SignalAssumption
<1>5. Gentle(table[active], q)
  BY <1>1, <1>4 DEF Gentle, SameProcess, Process
<1>6. Evolves(table, t) /\ Spares(table, t, active)
  BY <1>5, ActiveChanged
<1>7. SelfSignal(t)
  BY <1>3
<1> HIDE DEF t
<1> QED
  BY <1>2, <1>6, <1>7, SelfSignalStep

\* sigaction.
LEMMA SigactionStep ==
  ASSUME IInv, Sigaction, Recorded
  PROVE  IInv'
<1>1. /\ table[active] \in Process /\ table \in Tables /\ active \in Slots /\ Base(table)
      /\ WaitTyped
  BY Typed
<1>2. phase = "run" /\ UNCHANGED pidVars /\ UNCHANGED waitVars
  BY DEF Sigaction, Computes, Runs
<1>3. PICK s \in Caught, d \in Actions :
        Continue([table EXCEPT ![active].disp[s] = d,
                               ![active].pend = IF d = "ignore" THEN @ \ {s} ELSE @])
  BY DEF Sigaction
<1> DEFINE p == table[active]
           f == [p.disp EXCEPT ![s] = d]
           a == IF d = "ignore" THEN p.pend \ {s} ELSE p.pend
           q == [p EXCEPT !.disp = f, !.pend = a]
           t == [table EXCEPT ![active] = q]
<1>4. p.pend \in SUBSET Signals /\ p.disp \in [Signals -> Dispositions]
  BY <1>1 DEF Process
<1>5. a \in SUBSET Signals
  BY <1>4
<1>6. f \in [Signals -> Dispositions]
  BY <1>4, GuestAssumption, Zenon DEF Dispositions
<1>7. t = [table EXCEPT ![active].disp[s] = d,
                        ![active].pend = IF d = "ignore" THEN @ \ {s} ELSE @]
  BY <1>1, Zenon DEF Tables, Process
<1> HIDE DEF f, a
<1>8. Gentle(table[active], q)
  BY <1>1, <1>5, <1>6, Zenon DEF Gentle, SameProcess, Process
<1>9. Evolves(table, t) /\ Spares(table, t, active)
  BY <1>8, ActiveChanged
<1>10. Continue(t)
  BY <1>3, <1>7
<1>11. WaitTyped'
  BY <1>1, <1>2 DEF waitVars, WaitTyped
<1> HIDE DEF t
<1> QED
  BY <1>1, <1>2, <1>9, <1>10, <1>11, ContinueStep, Zenon

\* execve of an image or of a WAST command.
LEMMA ExecStep ==
  ASSUME IInv, ExecImage \/ ExecHandler, Recorded
  PROVE  IInv'
<1>1. /\ table[active] \in Process /\ table \in Tables /\ active \in Slots /\ Base(table)
      /\ WaitTyped /\ table[active] # None
  BY Typed
<1>2. /\ phase = "run" /\ phase' = "check" /\ active' = active /\ exits' = exits
      /\ UNCHANGED pidVars /\ UNCHANGED waitVars
  BY DEF ExecImage, ExecHandler, Computes, Runs
<1>3. WaitTyped' /\ nextPid' = nextPid /\ forks' = forks
  BY <1>1, <1>2 DEF pidVars, waitVars, WaitTyped
<1>4. CASE ExecImage
  <2>1. Gentle(table[active], SignalExec(table[active]))
    BY <1>1, SignalExecGentle
  <2>2. table' = [table EXCEPT ![active] = SignalExec(table[active])]
    BY <1>4 DEF ExecImage
  <2>3. Evolves(table, table') /\ Spares(table, table', active)
    BY <2>1, <2>2, ActiveChanged, Zenon
  <2> QED
    BY <1>1, <1>2, <1>3, <2>3, StayStep
<1>5. CASE ExecHandler
  <2> DEFINE q == [table[active] EXCEPT !.kind = "handler"]
  <2>1. table' = [table EXCEPT ![active] = q]
    BY <1>5 DEF ExecHandler
  <2>2. SameProcess(table[active], q) /\ q.kind = "handler" /\ q.wait = table[active].wait
    BY <1>1 DEF SameProcess, Process
  <2> HIDE DEF q
  <2>3. Evolves(table, table')
    BY <1>1, <2>1, <2>2, SlotChanged, Zenon
  <2>4. table'[active] = q
    BY <1>1, <2>1, Zenon DEF Tables
  <2>5. Spares(table, table', active)
    BY <2>2, <2>4 DEF Spares
  <2> QED
    BY <1>1, <1>2, <1>3, <2>3, <2>5, StayStep
<1> QED
  BY <1>4, <1>5

\* A WAST handler ends.
LEMMA HandlerDoneStep ==
  ASSUME IInv, HandlerDone, Recorded
  PROVE  IInv'
<1>1. /\ P = table[active] /\ table \in Tables /\ active \in Slots /\ table[active] # None
      /\ Evolves(table, table) /\ Base(table) /\ WaitTyped /\ exits \in 0 .. forks
  BY Typed, TableItself
<1>2. UNCHANGED pidVars /\ UNCHANGED waitVars
  BY DEF HandlerDone
<1>3. PICK code \in Codes :
        \/ P.pid = Root /\ Leave(table, "exited")
        \/ /\ P.pid # Root /\ ~P.zombie
           /\ Leave(Dead(table, active, Exited(code)), "exited")
        \/ /\ P.pid # Root /\ P.zombie
           /\ phase' = "broken" /\ UNCHANGED <<table, active, exits>>
  BY DEF HandlerDone
<1>4. CASE Leave(table, "exited")
  BY <1>1, <1>2, <1>4, LeaveStep
<1>5. CASE ~P.zombie /\ Leave(Dead(table, active, Exited(code)), "exited")
  <2>1. active \in Live(table) /\ Exited(code) \in Statuses
    BY <1>1, <1>5, DeathStatus, Zenon DEF Live, Used
  <2>2. Evolves(table, Dead(table, active, Exited(code)))
    BY <1>1, <2>1, DeadTable, Zenon
  <2> QED
    BY <1>2, <1>5, <2>2, LeaveStep, Zenon
<1>6. CASE phase' = "broken" /\ UNCHANGED <<table, active, exits>>
  <2>1. WaitTyped' /\ nextPid' = nextPid /\ forks' = forks
    BY <1>1, <1>2 DEF pidVars, waitVars, WaitTyped
  <2>2. phase' \in Ends
        /\ phase' \notin {"check", "run", "yield", "stall", "exited", "signaled"}
    BY <1>6 DEF Ends
  <2> QED
    BY <1>1, <1>6, <2>1, <2>2, Advance, Zenon
<1> QED
  BY <1>3, <1>4, <1>5, <1>6, Zenon

\* The adapter resumes the driver.
LEMMA ResumeStep ==
  ASSUME IInv, Resume, Recorded
  PROVE  IInv'
<1>1. /\ P = table[active] /\ table \in Tables /\ active \in Slots /\ table[active] # None
      /\ active \in Int /\ Evolves(table, table) /\ Base(table) /\ WaitTyped
      /\ exits \in 0 .. forks
  BY Typed, TableItself
<1>2. UNCHANGED pidVars /\ UNCHANGED waitVars /\ exits' = exits
  BY DEF Resume
<1>3. WaitTyped' /\ nextPid' = nextPid /\ forks' = forks
  BY <1>1, <1>2, Zenon DEF pidVars, waitVars, WaitTyped
<1>4. CASE phase' = "gone" /\ UNCHANGED <<table, active>>
  <2>1. phase' \in Ends
        /\ phase' \notin {"check", "run", "yield", "stall", "exited", "signaled"}
    BY <1>4 DEF Ends
  <2> QED
    BY <1>1, <1>2, <1>3, <1>4, <2>1, Advance
<1>5. CASE Schedule(table, active)
  BY <1>1, <1>2, <1>5, ScheduleStep, Zenon
<1>6. CASE ~P.zombie /\ P.wait = "none" /\ phase' = "check" /\ UNCHANGED <<table, active>>
  BY <1>1, <1>2, <1>3, <1>6, Advance, Zenon
<1> QED
  BY <1>4, <1>5, <1>6, Zenon DEF Resume

\* Input, and signals from outside.
LEMMA OutsideStep ==
  ASSUME IInv, InputArrives \/ ExternalSignal \/ ExternalRaise, Recorded
  PROVE  IInv'
<1>1. /\ table \in Tables /\ active \in Slots /\ table[active] # None
      /\ table[active] \in Process /\ Base(table) /\ WaitTyped
  BY Typed
<1>2. /\ phase \in {"run", "yield"} /\ phase' = phase /\ active' = active /\ exits' = exits
      /\ UNCHANGED pidVars /\ UNCHANGED waitVars
  BY DEF InputArrives, ExternalSignal, ExternalRaise
<1>3. WaitTyped' /\ nextPid' = nextPid /\ forks' = forks
  BY <1>1, <1>2 DEF pidVars, waitVars, WaitTyped
<1>4. Evolves(table, table') /\ Spares(table, table', active)
  <2>1. CASE InputArrives
    <3>1. PICK i \in Blocked(table) : table' = [table EXCEPT ![i].input = TRUE]
      BY <2>1, Zenon DEF InputArrives
    <3> DEFINE q == [table[i] EXCEPT !.input = TRUE]
    <3>2. i \in Slots /\ table[i] # None
      BY DEF Blocked, Live, Used
    <3>3. table[i] \in Process
      BY <1>1, <3>2, TableEntry
    <3>4. Gentle(table[i], q)
      BY <3>3, Zenon DEF Gentle, SameProcess, Process
    <3>5. table' = [table EXCEPT ![i] = q]
      BY <3>1
    <3> HIDE DEF q
    <3> QED
      BY <1>1, <3>2, <3>4, <3>5, GentleSlot, Zenon
  <2>2. CASE ExternalSignal
    <3>1. PICK s \in Signals : table' = SignalGroup(table, s) \/ table' \in Signalled(s)
      BY <2>2 DEF ExternalSignal
    <3> QED
      BY <1>1, <3>1, SignalGroupTable, SignalledTable
  <2>3. CASE ExternalRaise
    <3>1. PICK s \in Signals : table' = [table EXCEPT ![active] = Raised(table[active], s)]
      BY <2>3, Zenon DEF ExternalRaise
    <3>2. Gentle(table[active], Raised(table[active], s))
      BY <1>1, RaisedGentle
    <3> QED
      BY <3>1, <3>2, ActiveChanged, Zenon
  <2> QED
    BY <2>1, <2>2, <2>3
<1> QED
  BY <1>1, <1>2, <1>3, <1>4, StayStep

-----------------------------------------------------------------------------
(* The theorems.                                                           *)

\* The root is alive and alone at first.
LEMMA InitHolds == Init => IInv
<1> SUFFICES ASSUME Init PROVE IInv
  OBVIOUS
<1> DEFINE D == [s \in Signals |-> "default"]
           r == Fresh(Root, 0)
<1>1. D \in [Signals -> Dispositions]
  BY Zenon DEF Dispositions
<1>2. r = [pid |-> Root, ppid |-> 0, zombie |-> FALSE, status |-> None, kind |-> "app",
           pend |-> {}, mask |-> {}, disp |-> D, call |-> "none",
           target |-> -1, wait |-> "none", input |-> FALSE]
  BY DEF Fresh
<1>3. Root \in Pids /\ -1 \in -1 .. MaxPid
  BY SlotAssumption, SMT, Z3 DEF Root, Pids
<1> HIDE DEF D, r
<1>4. /\ r \in Process /\ r.pid = 1 /\ r.ppid = 0 /\ ~r.zombie /\ r.target = -1
      /\ r.wait = "none"
  BY <1>1, <1>2, <1>3 DEF Process, Root
<1>5. r # None /\ 0 \in Slots
  BY <1>4, NoneAssumption, SlotAssumption DEF Slots
<1>6. table = [i \in Slots |-> IF i = 0 THEN r ELSE None]
  BY DEF Init, r
<1>7. table \in Tables /\ table[0] = r /\ Used(table) = {0} /\ Live(table) = {0}
  BY <1>4, <1>5, <1>6, Zenon DEF Tables, Used, Live
<1>8. TypeOK
  <2>1. nextPid \in 2 .. MaxPid + 1 /\ forks \in 0 .. MaxPid /\ exits \in 0 .. forks
    BY SlotAssumption DEF Init
  <2> QED
    BY <1>5, <1>7, <2>1 DEF Init, TypeOK, Tables
<1>9. Books(table, died, nextPid)
  <2>1. died = {} /\ nextPid = 2
    BY DEF Init
  <2>2. Entry(r, died, nextPid)
    BY <1>4, <2>1 DEF Entry
  <2>3. \A m \in 1 .. nextPid - 1 : m = 1
    BY <2>1
  <2> QED
    BY <1>4, <1>7, <2>1, <2>2, <2>3 DEF Books
<1>10. Control
  BY <1>4, <1>7 DEF Init, Control, P, ExitsCounted
<1> QED
  BY <1>8, <1>9, <1>10 DEF Init, IInv

\* Every step keeps the invariant.
LEMMA NextKeeps ==
  ASSUME IInv, Next
  PROVE  IInv'
  BY CheckStep, CheckpointStep, PumpStep, ForkStep, ForkReturnsStep, WaitPidStep,
     WaitRetryStep, ReadStep, ExitStep, KillStep, SetMaskStep, SigactionStep, ExecStep,
     HandlerDoneStep, ResumeStep, OutsideStep, Zenon
  DEF Next, Step

\* So does a stuttering one.
LEMMA StutterKeeps == IInv /\ UNCHANGED vars => IInv'
  BY DEF vars, IInv, TypeOK, Books, Entry, Used, Live, Control, P, ExitsCounted

\* The inductive invariant holds throughout: every pid handed out is alive in
\* one slot of the table or dead once, a zombie's status is the one that it
\* died with, and parents are older than their children.
THEOREM Invariance == Spec => []IInv
<1>1. IInv /\ [Next]_vars => IInv'
  BY NextKeeps, StutterKeeps
<1> QED
  BY <1>1, InitHolds, PTL DEF Spec

\* The driver never runs an application that is dead, whoever signals it
\* (native_store_signal_process, process_schedule).
THEOREM SelectedLives == Spec => []SelectedAppAlive
<1>1. IInv => SelectedAppAlive
  BY DEF IInv, Control, SelectedAppAlive
<1> QED
  BY <1>1, Invariance, PTL

\* process_schedule finds nobody to run only when nobody is alive, and so
\* never while the root is.
THEOREM StallNeedsDeadRoot == Spec => []StallOnlyRootless
<1>1. IInv => StallOnlyRootless
  BY DEF IInv, Control, StallOnlyRootless, Live
<1> QED
  BY <1>1, Invariance, PTL

\* process_driver_count_exits, which subtracts the live children from the
\* forks, yields the number of children that died.
THEOREM DeathsCounted == Spec => []ExitsCounted
<1>1. IInv => ExitsCounted
  BY DEF IInv, Control
<1> QED
  BY <1>1, Invariance, PTL

\* Of the steps, only waitpid tells a guest anything, and unless it waits for
\* its process group (target 0) it tells of a zombie of the table.
LEMMA ToldStep ==
  ASSUME IInv, Next, 0 \notin Targets, StatusTrue
  PROVE  StatusTrue'
<1>1. died \subseteq died'
  BY Zenon DEF Next, Recorded
<1>2. ASSUME NEW target \in Targets \cup {-1}, NEW nohang \in BOOLEAN, WaitOn(target, nohang)
      PROVE  told' \subseteq died'
  <2>1. target # 0
    OBVIOUS
  <2>2. CASE UNCHANGED waitVars
    BY <1>1, <2>2 DEF waitVars, StatusTrue
  <2>3. CASE /\ Zombies(table, P, target) # {}
             /\ LET z == Min(Zombies(table, P, target))
                IN  Report(table[z].pid, table[z].status)
    <3> DEFINE z == Min(Zombies(table, P, target))
    <3>1. [pid |-> table[z].pid, to |-> P.pid, status |-> table[z].status] \in died
      BY <2>3, FoundZombie, Zenon
    <3>2. told' = told \cup {[pid |-> table[z].pid, to |-> P.pid, status |-> table[z].status]}
      BY <2>3 DEF Report
    <3> HIDE DEF z
    <3> QED
      BY <1>1, <3>1, <3>2, Zenon DEF StatusTrue
  <2> QED
    BY <1>2, <2>1, <2>2, <2>3 DEF WaitOn
<1>3. CASE WaitPid
  BY <1>2, <1>3 DEF WaitPid, StatusTrue
<1>4. CASE WaitRetry
  <2>1. PICK nohang \in BOOLEAN : nohang = FALSE
    BY Zenon
  <2>2. WaitOn(P.target, nohang) /\ P.target \in Targets \cup {-1}
    BY <1>4, <2>1, Typed, Zenon DEF WaitRetry
  <2> QED
    BY <1>2, <2>2 DEF StatusTrue
<1>5. CASE ~WaitPid /\ ~WaitRetry
  <2>1. UNCHANGED waitVars
    BY <1>5 DEF Next, Step, Check, Checkpoint, Pump, Fork, ForkReturns, Read, Exit, Kill,
                SetMask, Sigaction, ExecImage, ExecHandler, HandlerDone, Resume,
                InputArrives, ExternalSignal, ExternalRaise
  <2> QED
    BY <1>1, <2>1, Zenon DEF waitVars, StatusTrue
<1> QED
  BY <1>3, <1>4, <1>5, Zenon

\* Unless a guest waits for its process group, what waitpid reports is how a
\* child of the caller died (native_store_wait_process).  For target 0 and no
\* child left, guest_posix_waitpid_common repeats the last report made to
\* anybody, and the statement is false.
THEOREM WaitTellsTruth == 0 \notin Targets => (Spec => []StatusTrue)
<1> SUFFICES ASSUME 0 \notin Targets PROVE Spec => []StatusTrue
  OBVIOUS
<1>1. Init => StatusTrue
  BY DEF Init, StatusTrue
<1>2. IInv /\ StatusTrue /\ [Next]_vars => StatusTrue'
  BY ToldStep DEF vars, StatusTrue
<1> QED
  BY <1>1, <1>2, Invariance, PTL DEF Spec
=============================================================================
