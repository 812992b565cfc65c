------------------------- MODULE RecordLocksProofs -------------------------
(***************************************************************************)
(* Proofs about RecordLocks, for any number of processes, files and        *)
(* descriptors, any byte range and any record limit, and about FlockRange, *)
(* where the range of a request comes from, for every width of integers.   *)
(***************************************************************************)
EXTENDS RecordLocks, FlockRange, FiniteSetTheorems, TLAPS

\* A blocked or interrupted F_SETLKW has a resolved request.
RequestKept ==
  \A p \in Procs : phase[p] \in {"wait", "handler"} => req[p] \in Requests

\* A dead process has no descriptor.
DeadHasNothing ==
  \A p \in Procs : phase[p] = "dead" => \A d \in Fds : fds[p][d] = None

\* The descriptor of a blocked F_SETLKW still allows the lock it waits for.
WaitPermitted == \A p \in Procs : phase[p] = "wait" => Permits(p, req[p])

\* The inductive invariant.
IInv ==
  /\ TypeOK
  /\ RequestKept
  /\ DeadHasNothing
  /\ MutualExclusion
  /\ NoDeadlock
  /\ LocksNeedDescriptor
  /\ WaitPermitted

-----------------------------------------------------------------------------
(* Blockers and the wait-for search.                                       *)

\* Which of two processes blocks the other depends on the records of the
\* blocking one only.
LEMMA BlockersLocal ==
  ASSUME NEW p \in Procs, NEW q \in Procs, NEW r \in Requests,
         held'[r.file][q] = held[r.file][q]
  PROVE  q \in Blockers(p, r)' <=> q \in Blockers(p, r)
BY DEF Blockers, Conflicting

\* The visited set of the search contains where it starts and is closed.
LEMMA ReachStart ==
  ASSUME NEW S \in SUBSET Procs
  PROVE  S \subseteq Reach(S)
BY DEF Reach

\* The set of visited owners is closed.
LEMMA ReachClosed ==
  ASSUME NEW S \in SUBSET Procs
  PROVE  Closed(Reach(S))
<1>1. SUFFICES ASSUME NEW q \in Reach(S), phase[q] = "wait",
                      NEW b \in Blockers(q, req[q])
               PROVE  b \in Reach(S)
  BY DEF Closed
<1>2. b \in Procs
  BY DEF Blockers
<1>3. ASSUME NEW C \in SUBSET Procs, S \subseteq C, Closed(C)
      PROVE  b \in C
  <2>1. q \in C
    BY <1>3 DEF Reach
  <2>2. QED
    BY <1>1, <1>3, <2>1 DEF Closed
<1>4. QED
  BY <1>2, <1>3 DEF Reach

\* A set of waiters that is stuck after a step was stuck before it, when no
\* process starts to wait and no waiter starts to block another.
LEMMA StuckBefore ==
  ASSUME NEW S \in SUBSET Procs, RequestKept, Stuck(S)',
         \A p \in S : phase[p] = "wait" /\ req'[p] = req[p],
         \A p \in S : \A f \in Files : held'[f][p] = held[f][p]
  PROVE  Stuck(S)
<1>1. SUFFICES ASSUME NEW p \in S
               PROVE  phase[p] = "wait" /\ Blockers(p, req[p]) \cap S # {}
  BY DEF Stuck
<1>2. PICK q \in S : q \in Blockers(p, req[p])'
  BY DEF Stuck
<1>3. req[p] \in Requests
  BY DEF RequestKept
<1>4. req'[p] = req[p] /\ req[p].file \in Files
  BY <1>3 DEF Requests
<1>5. q \in Blockers(p, req[p])
  BY <1>2, <1>3, <1>4 DEF Blockers, Conflicting
<1>6. QED
  BY <1>5

\* No cycle appears when every waiter after the step waited before it with the
\* same request and the step leaves the records of waiters alone.
LEMMA NoDeadlockKept ==
  ASSUME IInv,
         \A p \in Procs : phase'[p] = "wait" =>
           phase[p] = "wait" /\ req'[p] = req[p] /\ \A f \in Files : held'[f][p] = held[f][p]
  PROVE  NoDeadlock'
<1>1. SUFFICES ASSUME NEW S \in SUBSET Procs, S # {}, Stuck(S)'
               PROVE  FALSE
  BY DEF NoDeadlock
<1>2. \A p \in S : phase'[p] = "wait"
  BY <1>1 DEF Stuck
<1>3. Stuck(S)
  BY <1>1, <1>2, StuckBefore DEF IInv
<1>4. QED
  BY <1>1, <1>3 DEF IInv, NoDeadlock

\* The wait a passed deadlock search registers closes no cycle: a stuck set
\* with the new waiter would meet the visited set in a set that was stuck
\* before.
LEMMA NewWaitNoDeadlock ==
  ASSUME IInv, NEW p \in Procs, NEW r \in Requests,
         ~WouldDeadlock(p, r),
         phase' = [phase EXCEPT ![p] = "wait"],
         req' = [req EXCEPT ![p] = r],
         UNCHANGED held
  PROVE  NoDeadlock'
<1> USE DEF IInv, TypeOK
<1>1. SUFFICES ASSUME NEW S \in SUBSET Procs, S # {}, Stuck(S)'
               PROVE  FALSE
  BY DEF NoDeadlock
<1>2. \A q \in S \ {p} : phase[q] = "wait" /\ req'[q] = req[q]
  BY <1>1 DEF Stuck
<1>3. CASE p \notin S
  <2>1. \A q \in S : phase[q] = "wait" /\ req'[q] = req[q]
    BY <1>2, <1>3
  <2>2. Stuck(S)
    BY <1>1, <2>1, StuckBefore
  <2>3. QED
    BY <1>1, <2>2 DEF NoDeadlock
<1>4. CASE p \in S
  <2> DEFINE V == Reach(Blockers(p, r))
  <2>1. Blockers(p, r) \in SUBSET Procs /\ V \in SUBSET Procs
    BY DEF Blockers, Reach
  <2>2. Blockers(p, r) \subseteq V /\ Closed(V) /\ p \notin V
    BY <2>1, ReachStart, ReachClosed DEF WouldDeadlock
  <2>3. S \cap V # {}
    <3>1. req'[p] = r
      OBVIOUS
    <3>2. PICK q \in S : q \in Blockers(p, req[p])'
      BY <1>1, <1>4 DEF Stuck
    <3>3. q \in Blockers(p, r)
      BY <3>1, <3>2 DEF Blockers, Conflicting
    <3>4. QED
      BY <2>2, <3>3
  <2>4. Stuck(S \cap V)
    <3>1. SUFFICES ASSUME NEW q \in S \cap V
                   PROVE  phase[q] = "wait" /\ Blockers(q, req[q]) \cap (S \cap V) # {}
      BY DEF Stuck
    <3>2. q # p /\ phase[q] = "wait" /\ req'[q] = req[q]
      BY <1>2, <2>2
    <3>3. PICK b \in S : b \in Blockers(q, req[q])'
      BY <1>1 DEF Stuck
    <3>4. b \in Blockers(q, req[q])
      BY <3>2, <3>3 DEF Blockers, Conflicting
    <3>5. b \in V
      BY <2>2, <3>2, <3>4 DEF Closed
    <3>6. QED
      BY <3>2, <3>4, <3>5
  <2>5. QED
    BY <2>3, <2>4, Zenon DEF NoDeadlock
<1>5. QED
  BY <1>3, <1>4

-----------------------------------------------------------------------------
(* Records.                                                                *)

\* Releasing records keeps exclusion.
LEMMA ReleaseExclusion ==
  ASSUME IInv, NEW p \in Procs, NEW FS, Release(p, FS)
  PROVE  /\ held' \in [Files -> [Procs -> [Bytes -> Types]]]
         /\ MutualExclusion'
         /\ \A q \in Procs \ {p} : \A f \in Files : held'[f][q] = held[f][q]
         /\ \A f \in Files : held'[f][p] = IF f \in FS THEN Unlocked ELSE held[f][p]
<1> USE DEF IInv, TypeOK
<1>1. Unlocked \in [Bytes -> Types]
  BY DEF Unlocked, Types
<1>2. held' \in [Files -> [Procs -> [Bytes -> Types]]]
  BY <1>1 DEF Release
<1>3. \A q \in Procs \ {p} : \A f \in Files : held'[f][q] = held[f][q]
  BY DEF Release
<1>4. \A f \in Files : held'[f][p] = IF f \in FS THEN Unlocked ELSE held[f][p]
  BY DEF Release
<1>5. MutualExclusion'
  <2>1. SUFFICES ASSUME NEW f \in Files, NEW x \in Procs, NEW y \in Procs,
                        NEW b \in Bytes, x # y
                 PROVE  ~Conflicting(held'[f][x][b], held'[f][y][b])
    BY DEF MutualExclusion, Conflicting
  <2>2. ASSUME NEW z \in Procs
        PROVE  held'[f][z][b] \in {held[f][z][b], "none"}
    <3>1. CASE z = p
      BY <1>4, <3>1, Zenon DEF Unlocked
    <3>2. CASE z # p
      BY <1>3, <3>2
    <3>3. QED
      BY <3>1, <3>2
  <2>3. ~Conflicting(held[f][x][b], held[f][y][b])
    BY <2>1 DEF MutualExclusion
  <2>4. QED
    BY <2>2, <2>3 DEF Conflicting
<1>6. QED
  BY <1>2, <1>3, <1>4, <1>5

\* A granted range keeps exclusion, because no other process blocks it.
LEMMA GrantExclusion ==
  ASSUME IInv, NEW p \in Procs, NEW r \in Requests, Blockers(p, r) = {}, Grant(p, r)
  PROVE  /\ held' \in [Files -> [Procs -> [Bytes -> Types]]]
         /\ MutualExclusion'
         /\ \A q \in Procs \ {p} : \A f \in Files : held'[f][q] = held[f][q]
         /\ \A f \in Files \ {r.file} : held'[f][p] = held[f][p]
<1> USE DEF IInv, TypeOK
<1>1. r.file \in Files /\ r.type \in Types /\ Replaced(held[r.file][p], r) \in [Bytes -> Types]
  BY DEF Requests, Replaced
<1>2. held' \in [Files -> [Procs -> [Bytes -> Types]]]
  BY <1>1 DEF Grant
<1>3. \A q \in Procs \ {p} : \A f \in Files : held'[f][q] = held[f][q]
  BY <1>1 DEF Grant
<1>4. \A f \in Files \ {r.file} : held'[f][p] = held[f][p]
  BY <1>1 DEF Grant
<1>5. \A b \in Bytes : held'[r.file][p][b] =
        IF b \in r.start .. r.end THEN r.type ELSE held[r.file][p][b]
  BY <1>1 DEF Grant, Replaced
<1>6. \A q \in Procs \ {p} : \A b \in r.start .. r.end :
        ~Conflicting(r.type, held[r.file][q][b])
  BY DEF Blockers
<1>7. ASSUME NEW q \in Procs \ {p}, NEW b \in Bytes, NEW f \in Files
      PROVE  ~Conflicting(held'[f][p][b], held'[f][q][b])
  <2>1. ~Conflicting(held[f][p][b], held[f][q][b])
    BY <1>7 DEF MutualExclusion
  <2>2. CASE f = r.file /\ b \in r.start .. r.end
    BY <1>3, <1>5, <1>6, <2>2
  <2>3. CASE ~(f = r.file /\ b \in r.start .. r.end)
    BY <1>3, <1>4, <1>5, <2>1, <2>3
  <2>4. QED
    BY <2>2, <2>3
<1>8. MutualExclusion'
  <2>1. SUFFICES ASSUME NEW f \in Files, NEW x \in Procs, NEW y \in Procs,
                        NEW b \in Bytes, x # y
                 PROVE  ~Conflicting(held'[f][x][b], held'[f][y][b])
    BY DEF MutualExclusion, Conflicting
  <2>2. CASE x = p
    BY <1>7, <2>1, <2>2
  <2>3. CASE y = p
    BY <1>7, <2>1, <2>3 DEF Conflicting
  <2>4. CASE x # p /\ y # p
    BY <1>3, <2>1, <2>4 DEF MutualExclusion
  <2>5. QED
    BY <2>2, <2>3, <2>4
<1>9. QED
  BY <1>2, <1>3, <1>4, <1>8

-----------------------------------------------------------------------------
(* Each step preserves the invariant.                                      *)

\* Steps of p that close the descriptors D: Close, Dup2, Exec and Exit.
LEMMA ClosingKeepsDescriptors ==
  ASSUME IInv, NEW p \in Procs, NEW D \in SUBSET Fds,
         Release(p, FilesAt(p, D)),
         \A q \in Procs \ {p} : fds'[q] = fds[q],
         \A d \in Fds \ D : fds'[p][d] = fds[p][d]
  PROVE  LocksNeedDescriptor'
<1> USE DEF IInv, TypeOK
<1>1. SUFFICES ASSUME NEW f \in Files, NEW q \in Procs, held'[f][q] # Unlocked
               PROVE  \E d \in Fds : fds'[q][d] # None /\ fds'[q][d].file = f
  BY Zenon DEF LocksNeedDescriptor, Unlocked, Bytes
<1>2. held'[f][q] = held[f][q] /\ (q = p => f \notin FilesAt(p, D))
  BY <1>1, ReleaseExclusion
<1>3. PICK d \in Fds : fds[q][d] # None /\ fds[q][d].file = f
  BY <1>1, <1>2 DEF LocksNeedDescriptor
<1>4. q = p => d \notin D
  BY <1>2, <1>3 DEF FilesAt
<1>5. fds'[q][d] = fds[q][d]
  BY <1>3, <1>4
<1>6. QED
  BY <1>3, <1>5

\* open adds a descriptor.
LEMMA OpenStep ==
  ASSUME IInv, NEW p \in Procs, NEW d \in Fds, NEW o \in Opens, Open(p, d, o)
  PROVE  IInv'
<1> USE DEF IInv
<1>1. TypeOK'
  BY DEF TypeOK, Open
<1>2. RequestKept'
  BY DEF RequestKept, Open
<1>3. DeadHasNothing'
  BY DEF DeadHasNothing, Open, Active, TypeOK
<1>4. MutualExclusion'
  BY DEF MutualExclusion, Conflicting, Open, Bytes
<1>5. NoDeadlock'
  BY NoDeadlockKept DEF Open
<1>6. LocksNeedDescriptor'
  BY NoneAssumption DEF LocksNeedDescriptor, Open, TypeOK, Unlocked, Bytes
<1>7. WaitPermitted'
  BY DEF WaitPermitted, Permits, Open, Active, TypeOK
<1>8. QED
  BY <1>1, <1>2, <1>3, <1>4, <1>5, <1>6, <1>7

\* close releases the locks of the owner on the file.
LEMMA CloseStep ==
  ASSUME IInv, NEW p \in Procs, NEW d \in Fds, Close(p, d)
  PROVE  IInv'
<1> USE DEF IInv
<1>0. /\ Release(p, FilesAt(p, {d}))
      /\ fds' = [fds EXCEPT ![p][d] = None]
      /\ phase[p] \in {"run", "handler"}
      /\ UNCHANGED <<phase, req, sig>>
  BY DEF Close, Active
<1>1. TypeOK'
  BY <1>0, ReleaseExclusion DEF TypeOK
<1>2. RequestKept'
  BY <1>0 DEF RequestKept
<1>3. DeadHasNothing'
  BY <1>0 DEF DeadHasNothing, TypeOK
<1>4. MutualExclusion'
  BY <1>0, ReleaseExclusion
<1>5. NoDeadlock'
  BY <1>0, ReleaseExclusion, NoDeadlockKept
<1>6. LocksNeedDescriptor'
  <2>1. /\ \A q \in Procs \ {p} : fds'[q] = fds[q]
        /\ \A e \in Fds \ {d} : fds'[p][e] = fds[p][e]
    BY <1>0 DEF TypeOK
  <2>2. QED
    BY <1>0, <2>1, ClosingKeepsDescriptors
<1>7. WaitPermitted'
  BY <1>0 DEF WaitPermitted, Permits, TypeOK
<1>8. QED
  BY <1>1, <1>2, <1>3, <1>4, <1>5, <1>6, <1>7

\* dup2 closes its target first.
LEMMA Dup2Step ==
  ASSUME IInv, NEW p \in Procs, NEW old \in Fds, NEW new \in Fds, Dup2(p, old, new)
  PROVE  IInv'
<1> USE DEF IInv
<1>0. /\ Release(p, FilesAt(p, {new}))
      /\ fds' = [fds EXCEPT ![p][new] = fds[p][old]]
      /\ phase[p] \in {"run", "handler"}
      /\ UNCHANGED <<phase, req, sig>>
  BY DEF Dup2, Active
<1>1. TypeOK'
  BY <1>0, ReleaseExclusion DEF TypeOK
<1>2. RequestKept'
  BY <1>0 DEF RequestKept
<1>3. DeadHasNothing'
  BY <1>0 DEF DeadHasNothing, TypeOK
<1>4. MutualExclusion'
  BY <1>0, ReleaseExclusion
<1>5. NoDeadlock'
  BY <1>0, ReleaseExclusion, NoDeadlockKept
<1>6. LocksNeedDescriptor'
  <2>1. /\ \A q \in Procs \ {p} : fds'[q] = fds[q]
        /\ \A e \in Fds \ {new} : fds'[p][e] = fds[p][e]
    BY <1>0 DEF TypeOK
  <2>2. QED
    BY <1>0, <2>1, ClosingKeepsDescriptors
<1>7. WaitPermitted'
  BY <1>0 DEF WaitPermitted, Permits, TypeOK
<1>8. QED
  BY <1>1, <1>2, <1>3, <1>4, <1>5, <1>6, <1>7

\* exec closes the descriptors that are marked.
LEMMA ExecStep ==
  ASSUME IInv, NEW p \in Procs, NEW D \in SUBSET Fds, Exec(p, D)
  PROVE  IInv'
<1> USE DEF IInv
<1>0. /\ Release(p, FilesAt(p, D))
      /\ fds' = [fds EXCEPT ![p] = [d \in Fds |-> IF d \in D THEN None ELSE fds[p][d]]]
      /\ phase[p] = "run"
      /\ UNCHANGED <<phase, req, sig>>
  BY DEF Exec
<1>1. TypeOK'
  BY <1>0, ReleaseExclusion DEF TypeOK
<1>2. RequestKept'
  BY <1>0 DEF RequestKept
<1>3. DeadHasNothing'
  BY <1>0 DEF DeadHasNothing, TypeOK
<1>4. MutualExclusion'
  BY <1>0, ReleaseExclusion
<1>5. NoDeadlock'
  BY <1>0, ReleaseExclusion, NoDeadlockKept
<1>6. LocksNeedDescriptor'
  <2>1. /\ \A q \in Procs \ {p} : fds'[q] = fds[q]
        /\ \A e \in Fds \ D : fds'[p][e] = fds[p][e]
    BY <1>0 DEF TypeOK
  <2>2. QED
    BY <1>0, <2>1, ClosingKeepsDescriptors
<1>7. WaitPermitted'
  BY <1>0 DEF WaitPermitted, Permits, TypeOK
<1>8. QED
  BY <1>1, <1>2, <1>3, <1>4, <1>5, <1>6, <1>7

\* exit and death by signal close all of them.
LEMMA ExitStep ==
  ASSUME IInv, NEW p \in Procs, Exit(p)
  PROVE  IInv'
<1> USE DEF IInv
<1>0. /\ Release(p, FilesAt(p, Fds))
      /\ fds' = [fds EXCEPT ![p] = [d \in Fds |-> None]]
      /\ phase' = [phase EXCEPT ![p] = "dead"]
      /\ req' = [req EXCEPT ![p] = None]
      /\ sig' = [sig EXCEPT ![p] = FALSE]
  BY DEF Exit
<1>1. TypeOK'
  BY <1>0, ReleaseExclusion DEF TypeOK
<1>2. RequestKept'
  BY <1>0 DEF RequestKept, TypeOK
<1>3. DeadHasNothing'
  BY <1>0 DEF DeadHasNothing, TypeOK
<1>4. MutualExclusion'
  BY <1>0, ReleaseExclusion
<1>5. NoDeadlock'
  <2>1. \A q \in Procs : phase'[q] = "wait" =>
          q # p /\ phase[q] = "wait" /\ req'[q] = req[q]
    BY <1>0 DEF TypeOK
  <2>2. QED
    BY <1>0, <2>1, ReleaseExclusion, NoDeadlockKept
<1>6. LocksNeedDescriptor'
  <2>1. \A q \in Procs \ {p} : fds'[q] = fds[q]
    BY <1>0 DEF TypeOK
  <2>2. QED
    BY <1>0, <2>1, ClosingKeepsDescriptors
<1>7. WaitPermitted'
  BY <1>0 DEF WaitPermitted, Permits, TypeOK
<1>8. QED
  BY <1>1, <1>2, <1>3, <1>4, <1>5, <1>6, <1>7

\* A fork child starts without records: its slot had no descriptor, so no
\* record was left in it.
LEMMA ForkStep ==
  ASSUME IInv, NEW p \in Procs, NEW c \in Procs, Fork(p, c)
  PROVE  IInv'
<1> USE DEF IInv
<1>0. /\ phase[p] = "run" /\ phase[c] = "dead"
      /\ fds' = [fds EXCEPT ![c] = fds[p]]
      /\ phase' = [phase EXCEPT ![c] = "run"]
      /\ UNCHANGED <<held, req, sig>>
  BY DEF Fork
<1>1. TypeOK'
  BY <1>0 DEF TypeOK
<1>2. RequestKept'
  BY <1>0 DEF RequestKept, TypeOK
<1>3. DeadHasNothing'
  BY <1>0 DEF DeadHasNothing, TypeOK
<1>4. MutualExclusion'
  BY <1>0 DEF MutualExclusion, Conflicting, Bytes
<1>5. NoDeadlock'
  <2>1. \A q \in Procs : phase'[q] = "wait" => phase[q] = "wait"
    BY <1>0 DEF TypeOK
  <2>2. QED
    BY <1>0, <2>1, NoDeadlockKept
<1>6. LocksNeedDescriptor'
  <2>1. \A f \in Files : held[f][c] = Unlocked
    BY <1>0 DEF LocksNeedDescriptor, DeadHasNothing
  <2>2. \A q \in Procs \ {c} : fds'[q] = fds[q]
    BY <1>0 DEF TypeOK
  <2>3. SUFFICES ASSUME NEW f \in Files, NEW q \in Procs, held'[f][q] # Unlocked
                 PROVE  \E d \in Fds : fds'[q][d] # None /\ fds'[q][d].file = f
    BY Zenon DEF LocksNeedDescriptor, Unlocked, Bytes
  <2>4. q # c /\ held[f][q] # Unlocked
    BY <1>0, <2>1, <2>3
  <2>5. QED
    BY <2>2, <2>4 DEF LocksNeedDescriptor
<1>7. WaitPermitted'
  BY <1>0 DEF WaitPermitted, Permits, TypeOK
<1>8. QED
  BY <1>1, <1>2, <1>3, <1>4, <1>5, <1>6, <1>7

\* A granted record is on a file its process has open.
LEMMA GrantNeedsDescriptor ==
  ASSUME IInv, NEW p \in Procs, NEW r \in Requests,
         Permits(p, r), Blockers(p, r) = {}, Grant(p, r), UNCHANGED fds
  PROVE  LocksNeedDescriptor'
<1> USE DEF IInv
<1>1. r.fd \in Fds /\ fds[p][r.fd] # None /\ fds[p][r.fd].file = r.file
  BY DEF Permits, Requests
<1>2. SUFFICES ASSUME NEW f \in Files, NEW q \in Procs, held'[f][q] # Unlocked
               PROVE  \E d \in Fds : fds[q][d] # None /\ fds[q][d].file = f
  BY Zenon DEF LocksNeedDescriptor, Unlocked, Bytes
<1>3. CASE q = p /\ f = r.file
  BY <1>1, <1>3
<1>4. CASE ~(q = p /\ f = r.file)
  <2>1. held'[f][q] = held[f][q]
    BY <1>4, GrantExclusion
  <2>2. QED
    BY <1>2, <2>1 DEF LocksNeedDescriptor
<1>5. QED
  BY <1>3, <1>4

\* F_SETLK grants a request that nothing is in the way of.
LEMMA SetLkStep ==
  ASSUME IInv, NEW p \in Procs, NEW d \in Fds, NEW t \in LockTypes, NEW g \in Ranges,
         SetLk(p, d, t, g)
  PROVE  IInv'
<1> DEFINE r == Resolve(p, d, t, g)
<1> USE DEF IInv
<1>0. /\ phase[p] \in {"run", "handler"}
      /\ fds[p][d] # None
      /\ Permits(p, r) /\ Blockers(p, r) = {} /\ Grant(p, r)
      /\ UNCHANGED <<fds, phase, req, sig>>
  BY DEF SetLk, Active
<1>1. r \in Requests
  <2>1. fds[p][d] \in Opens
    BY <1>0, SMT, Z3 DEF TypeOK
  <2>2. QED
    BY <2>1, ConstantsAssumption, MaxByteAssumption DEF Resolve, Requests, Opens, Types, Bytes
<1> HIDE DEF r
<1>2. TypeOK'
  BY <1>0, <1>1, GrantExclusion, SMT, Z3 DEF TypeOK
<1>3. RequestKept' /\ DeadHasNothing' /\ WaitPermitted'
  BY <1>0 DEF RequestKept, DeadHasNothing, WaitPermitted, Permits
<1>4. MutualExclusion'
  BY <1>0, <1>1, GrantExclusion
<1>5. NoDeadlock'
  BY <1>0, <1>1, GrantExclusion, NoDeadlockKept
<1>6. LocksNeedDescriptor'
  BY <1>0, <1>1, GrantNeedsDescriptor
<1>7. QED
  BY <1>2, <1>3, <1>4, <1>5, <1>6

\* Steps that change neither records nor descriptors.
LEMMA RecordsKept ==
  ASSUME IInv, UNCHANGED <<held, fds>>
  PROVE  MutualExclusion' /\ LocksNeedDescriptor'
<1>1. MutualExclusion'
  BY DEF IInv, MutualExclusion, Conflicting, Bytes
<1>2. LocksNeedDescriptor'
  BY DEF IInv, LocksNeedDescriptor, Unlocked, Bytes
<1>3. QED
  BY <1>1, <1>2

\* A call that returns without a change of records.
LEMMA ReturnStep ==
  ASSUME IInv, NEW p \in Procs, phase[p] # "dead", Return(p), UNCHANGED <<held, sig, fds>>
  PROVE  IInv'
<1> USE DEF IInv
<1>1. TypeOK' /\ RequestKept' /\ DeadHasNothing' /\ WaitPermitted'
  BY DEF TypeOK, Return, RequestKept, DeadHasNothing, WaitPermitted, Permits
<1>2. MutualExclusion' /\ LocksNeedDescriptor'
  BY RecordsKept
<1>3. \A q \in Procs : phase'[q] = "wait" => phase[q] = "wait" /\ req'[q] = req[q]
  BY DEF TypeOK, Return
<1>4. NoDeadlock'
  BY <1>3, NoDeadlockKept
<1>5. QED
  BY <1>1, <1>2, <1>4

\* Every outcome of a pass of F_SETLKW: EBADF, EINTR, granted or ENOLCK,
\* EDEADLK, and a registered wait.
LEMMA AttemptStep ==
  ASSUME IInv, NEW p \in Procs, NEW r \in Requests, Attempt(p, r), UNCHANGED fds,
         phase[p] # "dead"
  PROVE  IInv'
<1> USE DEF IInv
<1>1. CASE ~Permits(p, r)
  <2>1. Return(p) /\ UNCHANGED <<held, sig, fds>>
    BY <1>1 DEF Attempt
  <2>2. QED
    BY <2>1, ReturnStep, SMT, Z3
<1>2. CASE Permits(p, r) /\ sig[p]
  <2>0. /\ phase' = [phase EXCEPT ![p] = "handler"]
        /\ req' = [req EXCEPT ![p] = r]
        /\ sig' = [sig EXCEPT ![p] = FALSE]
        /\ UNCHANGED <<held, fds>>
    BY <1>2, SMT, Z3 DEF Attempt, Interrupt
  <2>1. TypeOK' /\ RequestKept' /\ DeadHasNothing' /\ WaitPermitted'
    BY <2>0 DEF TypeOK, RequestKept, DeadHasNothing, WaitPermitted, Permits
  <2>2. MutualExclusion' /\ LocksNeedDescriptor'
    BY <2>0, RecordsKept
  <2>3. \A q \in Procs : phase'[q] = "wait" => phase[q] = "wait" /\ req'[q] = req[q]
    BY <2>0 DEF TypeOK
  <2>4. NoDeadlock'
    BY <2>0, <2>3, NoDeadlockKept
  <2>5. QED
    BY <2>1, <2>2, <2>4
<1>3. CASE Permits(p, r) /\ ~sig[p] /\ Blockers(p, r) = {}
  <2>0. Return(p) /\ (Grant(p, r) \/ UNCHANGED held) /\ UNCHANGED <<sig, fds>>
    BY <1>3 DEF Attempt
  <2>1. CASE Grant(p, r)
    <3>1. TypeOK'
      BY <2>0, <2>1, <1>3, GrantExclusion, SMT, Z3 DEF TypeOK, Return
    <3>2. RequestKept' /\ DeadHasNothing' /\ WaitPermitted'
      BY <2>0 DEF TypeOK, Return, RequestKept, DeadHasNothing, WaitPermitted, Permits
    <3>3. \A q \in Procs : phase'[q] = "wait" =>
            q # p /\ phase[q] = "wait" /\ req'[q] = req[q]
      BY <2>0 DEF TypeOK, Return
    <3>4. NoDeadlock'
      BY <2>0, <2>1, <1>3, <3>3, GrantExclusion, NoDeadlockKept
    <3>5. QED
      BY <2>0, <2>1, <1>3, <3>1, <3>2, <3>4, GrantExclusion, GrantNeedsDescriptor, SMT, Z3
  <2>2. CASE UNCHANGED held
    BY <2>0, <2>2, ReturnStep, SMT, Z3
  <2>3. QED
    BY <2>0, <2>1, <2>2
<1>4. CASE Permits(p, r) /\ ~sig[p] /\ Blockers(p, r) # {} /\ WouldDeadlock(p, r)
  <2>1. Return(p) /\ UNCHANGED <<held, sig, fds>>
    BY <1>4 DEF Attempt
  <2>2. QED
    BY <2>1, ReturnStep
<1>5. CASE Permits(p, r) /\ ~sig[p] /\ Blockers(p, r) # {} /\ ~WouldDeadlock(p, r)
  <2>0. /\ phase' = [phase EXCEPT ![p] = "wait"]
        /\ req' = [req EXCEPT ![p] = r]
        /\ UNCHANGED <<held, sig, fds>>
    BY <1>5 DEF Attempt
  <2>1. TypeOK' /\ RequestKept' /\ DeadHasNothing'
    BY <2>0 DEF TypeOK, RequestKept, DeadHasNothing
  <2>2. MutualExclusion' /\ LocksNeedDescriptor'
    BY <2>0, RecordsKept, SMT, Z3
  <2>3. WaitPermitted'
    BY <1>5, <2>0 DEF WaitPermitted, TypeOK, Permits
  <2>4. NoDeadlock'
    BY <1>5, <2>0, NewWaitNoDeadlock, Zenon
  <2>5. QED
    BY <2>1, <2>2, <2>3, <2>4, SMT, Z3
<1>6. QED
  BY <1>1, <1>2, <1>3, <1>4, <1>5 DEF TypeOK

\* F_SETLKW, the first time.
LEMMA SetLkwStep ==
  ASSUME IInv, NEW p \in Procs, NEW d \in Fds, NEW t \in LockTypes, NEW g \in Ranges,
         SetLkw(p, d, t, g)
  PROVE  IInv'
<1> USE DEF IInv
<1>1. fds[p][d] \in Opens
  BY SMT, Z3 DEF SetLkw, TypeOK
<1>2. Resolve(p, d, t, g) \in Requests
  BY <1>1, ConstantsAssumption, MaxByteAssumption DEF Resolve, Requests, Opens, Types, Bytes
<1>3. QED
  BY <1>2, AttemptStep DEF SetLkw

\* F_SETLKW, called again after its yield.
LEMMA RetryStep ==
  ASSUME IInv, NEW p \in Procs, Retry(p)
  PROVE  IInv'
BY AttemptStep DEF Retry, IInv, RequestKept

\* F_SETLKW, restarted after a handler.
LEMMA HandlerRestartStep ==
  ASSUME IInv, NEW p \in Procs, HandlerRestart(p)
  PROVE  IInv'
<1> USE DEF IInv
<1>1. req[p] \in Requests /\ fds[p][req[p].fd] \in Opens
  BY DEF HandlerRestart, RequestKept, TypeOK, Requests
<1>2. [req[p] EXCEPT !.file = fds[p][req[p].fd].file] \in Requests
  BY <1>1 DEF Requests, Opens
<1>3. QED
  BY <1>2, AttemptStep DEF HandlerRestart

\* A signal comes or is taken.
LEMMA SignalStep ==
  ASSUME IInv, NEW p \in Procs, Signal(p) \/ Checkpoint(p)
  PROVE  IInv'
<1> USE DEF IInv
<1>0. sig' \in [Procs -> BOOLEAN] /\ UNCHANGED <<fds, held, phase, req>>
  BY Zenon DEF Signal, Checkpoint, TypeOK
<1>1. TypeOK' /\ RequestKept' /\ DeadHasNothing' /\ WaitPermitted'
  BY <1>0 DEF TypeOK, RequestKept, DeadHasNothing, WaitPermitted, Permits
<1>2. MutualExclusion' /\ LocksNeedDescriptor'
  BY <1>0, RecordsKept
<1>3. NoDeadlock'
  BY <1>0, NoDeadlockKept
<1>4. QED
  BY <1>1, <1>2, <1>3

\* F_SETLKW, ended by a handler.
LEMMA HandlerEintrStep ==
  ASSUME IInv, NEW p \in Procs, HandlerEintr(p)
  PROVE  IInv'
BY ReturnStep DEF HandlerEintr

\* No descriptor is open and no lock held at first.
LEMMA InitInv == Init => IInv
<1> SUFFICES ASSUME Init PROVE IInv
  OBVIOUS
<1>1. Unlocked \in [Bytes -> Types]
  BY DEF Unlocked, Types
<1>2. TypeOK
  BY <1>1 DEF Init, TypeOK
<1>3. RequestKept /\ DeadHasNothing /\ WaitPermitted
  BY SMT, Z3 DEF Init, RequestKept, DeadHasNothing, WaitPermitted, Permits
<1>4. \A f \in Files : \A p \in Procs : held[f][p] = Unlocked
  BY DEF Init
<1>5. MutualExclusion
  BY <1>4 DEF MutualExclusion, Conflicting, Unlocked
<1>6. LocksNeedDescriptor
  BY <1>4 DEF LocksNeedDescriptor
<1>7. NoDeadlock
  BY DEF Init, NoDeadlock, Stuck
<1>8. QED
  BY <1>2, <1>3, <1>5, <1>6, <1>7 DEF IInv

\* Every step keeps the invariant.
LEMMA NextInv == IInv /\ [Next]_vars => IInv'
<1> SUFFICES ASSUME IInv, [Next]_vars PROVE IInv'
  OBVIOUS
<1>1. CASE UNCHANGED vars
  <2>1. UNCHANGED <<fds, held, phase, req, sig>>
    BY <1>1, SMT, Z3 DEF vars
  <2>2. TypeOK' /\ RequestKept' /\ DeadHasNothing' /\ WaitPermitted'
    BY <2>1 DEF IInv, TypeOK, RequestKept, DeadHasNothing, WaitPermitted, Permits
  <2>3. MutualExclusion' /\ LocksNeedDescriptor'
    BY <2>1, RecordsKept
  <2>4. NoDeadlock'
    BY <2>1, NoDeadlockKept
  <2>5. QED
    BY <2>2, <2>3, <2>4 DEF IInv
<1>2. CASE Next
  <2>0. PICK p \in Procs :
          \/ \E d \in Fds, o \in Opens : Open(p, d, o)
          \/ \E d \in Fds : Close(p, d)
          \/ \E d, e \in Fds : Dup2(p, d, e)
          \/ \E D \in SUBSET Fds : Exec(p, D)
          \/ \E d \in Fds, t \in LockTypes, g \in Ranges : SetLk(p, d, t, g)
          \/ \E d \in Fds, t \in LockTypes, g \in Ranges : SetLkw(p, d, t, g)
          \/ Retry(p)
          \/ HandlerEintr(p)
          \/ HandlerRestart(p)
          \/ Signal(p)
          \/ Checkpoint(p)
          \/ \E c \in Procs : Fork(p, c)
          \/ Exit(p)
    BY <1>2 DEF Next
  <2>1. CASE \E d \in Fds, o \in Opens : Open(p, d, o)
    BY <2>1, OpenStep
  <2>2. CASE \E d \in Fds : Close(p, d)
    BY <2>2, CloseStep
  <2>3. CASE \E d, e \in Fds : Dup2(p, d, e)
    BY <2>3, Dup2Step
  <2>4. CASE \E D \in SUBSET Fds : Exec(p, D)
    BY <2>4, ExecStep
  <2>5. CASE \E d \in Fds, t \in LockTypes, g \in Ranges : SetLk(p, d, t, g)
    BY <2>5, SetLkStep
  <2>6. CASE \E d \in Fds, t \in LockTypes, g \in Ranges : SetLkw(p, d, t, g)
    BY <2>6, SetLkwStep
  <2>7. CASE Retry(p)
    BY <2>7, RetryStep
  <2>8. CASE HandlerEintr(p)
    BY <2>8, HandlerEintrStep
  <2>9. CASE HandlerRestart(p)
    BY <2>9, HandlerRestartStep
  <2>10. CASE Signal(p) \/ Checkpoint(p)
    BY <2>10, SignalStep
  <2>11. CASE \E c \in Procs : Fork(p, c)
    BY <2>11, ForkStep
  <2>12. CASE Exit(p)
    BY <2>12, ExitStep
  <2>13. QED
    BY <2>0, <2>1, <2>2, <2>3, <2>4, <2>5, <2>6, <2>7, <2>8, <2>9, <2>10, <2>11, <2>12
<1>3. QED
  BY <1>1, <1>2

-----------------------------------------------------------------------------
(* The theorems.                                                           *)

\* The inductive invariant holds in every reachable state.
THEOREM Invariance == Spec => []IInv
BY InitInv, NextInv, PTL DEF Spec

\* The variables keep their types.
THEOREM TypeCorrect == Spec => []TypeOK
BY Invariance, PTL DEF IInv

\* Conflicting records of two processes never overlap.
THEOREM Exclusion == Spec => []MutualExclusion
BY Invariance, PTL DEF IInv

\* Blocked F_SETLKW calls never wait for each other in a cycle.
THEOREM DeadlockFreedom == Spec => []NoDeadlock
BY Invariance, PTL DEF IInv

\* Records are released with the last descriptor of their process on the file.
THEOREM NoOrphanRecords == Spec => []LocksNeedDescriptor
BY Invariance, PTL DEF IInv

\* The descriptor of a blocked F_SETLKW stays open on the file it waits for.
THEOREM WaitDescriptor == Spec => []WaitKeepsDescriptor
<1>1. IInv => WaitKeepsDescriptor
  BY DEF IInv, WaitPermitted, Permits, WaitKeepsDescriptor
<1>2. QED
  BY <1>1, Invariance, PTL

\* A blocked F_SETLKW returns to the guest with the lock or at the record limit.
THEOREM WaitEnds == Spec => WaitOutcome
<1> DEFINE Outcome(p) ==
      \/ \A b \in req[p].start .. req[p].end : held'[req[p].file][p][b] = req[p].type
      \/ ~Admits(req[p].file, p, Replaced(held[req[p].file][p], req[p]))
<1>1. ASSUME IInv, [Next]_vars, NEW p \in Procs, phase[p] = "wait", phase'[p] = "run"
      PROVE  Outcome(p)
  <2>1. Retry(p)
    <3>1. ASSUME NEW q \in Procs, NEW r, Attempt(q, r), phase[q] # "wait"
          PROVE  FALSE
      BY <1>1, <3>1 DEF Attempt, Return, Interrupt, IInv, TypeOK
    <3>2. ASSUME NEW q \in Procs, Retry(q), q # p
          PROVE  FALSE
      BY <1>1, <3>2 DEF Retry, Attempt, Return, Interrupt, IInv, TypeOK
    <3>3. ASSUME NEW q \in Procs, HandlerEintr(q) \/ Exit(q) \/ \E c \in Procs : Fork(q, c)
          PROVE  FALSE
      BY <1>1, <3>3, Zenon DEF HandlerEintr, Return, Exit, Fork, IInv, TypeOK
    <3>4. phase' # phase
      BY <1>1
    <3>5. ASSUME NEW q \in Procs,
                 \/ \E d \in Fds, o \in Opens : Open(q, d, o)
                 \/ \E d \in Fds : Close(q, d)
                 \/ \E d, e \in Fds : Dup2(q, d, e)
                 \/ \E D \in SUBSET Fds : Exec(q, D)
                 \/ \E d \in Fds, t \in LockTypes, g \in Ranges : SetLk(q, d, t, g)
                 \/ Signal(q)
                 \/ Checkpoint(q)
          PROVE  FALSE
      <4>1. phase' = phase
        BY <3>5, Zenon DEF Open, Close, Dup2, Exec, SetLk, Signal, Checkpoint
      <4>2. QED
        BY <3>4, <4>1
    <3>6. Next
      BY <1>1, <3>4 DEF vars
    <3>7. PICK q \in Procs :
            \/ \E d \in Fds, t \in LockTypes, g \in Ranges : SetLkw(q, d, t, g)
            \/ Retry(q)
            \/ HandlerRestart(q)
      BY <3>6, <3>5, <3>3, Zenon DEF Next
    <3>8. ~ \E d \in Fds, t \in LockTypes, g \in Ranges : SetLkw(q, d, t, g)
      BY <3>1 DEF SetLkw
    <3>9. ~HandlerRestart(q)
      BY <3>1 DEF HandlerRestart
    <3>10. QED
      BY <3>2, <3>7, <3>8, <3>9
  <2>2. Permits(p, req[p]) /\ req[p] \in Requests
    BY <1>1 DEF IInv, WaitPermitted, RequestKept
  <2>3. ~sig[p]
    BY <1>1, <2>1, <2>2, SMT, Z3 DEF Retry, Attempt, Interrupt, IInv, TypeOK
  <2>4. Blockers(p, req[p]) = {}
    BY <2>1, <2>2, <2>3 DEF Retry, WaitReady, Permits
  <2>5. CASE Admits(req[p].file, p, Replaced(held[req[p].file][p], req[p]))
    <3>1. Grant(p, req[p])
      BY <2>1, <2>2, <2>3, <2>4, <2>5 DEF Retry, Attempt
    <3>2. held'[req[p].file][p] = Replaced(held[req[p].file][p], req[p])
      BY <1>1, <2>2, <3>1 DEF Grant, Requests, IInv, TypeOK
    <3>3. \A b \in req[p].start .. req[p].end : b \in Bytes
      BY <2>2, ConstantsAssumption, MaxByteAssumption DEF Requests, Bytes
    <3>4. QED
      BY <3>2, <3>3 DEF Replaced
  <2>6. QED
    BY <2>5
<1>2. IInv /\ [Next]_vars =>
        [\A p \in Procs : phase[p] = "wait" /\ phase'[p] = "run" => Outcome(p)]_vars
  BY <1>1
<1>3. QED
  BY <1>2, Invariance, PTL DEF Spec, WaitOutcome

-----------------------------------------------------------------------------
(* The limit on the records of a file.                                     *)

\* The records of all owners when they have the rows h.
RecordsOf(h) == {e \in Procs \X Bytes : e[2] \in Starts(h[e[1]])}

\* Records counts them, with one row replaced by the row to be.
LEMMA RecordsAre ==
  ASSUME NEW f, NEW p \in Procs, NEW row, NEW h,
         h[p] = row, \A q \in Procs \ {p} : h[q] = held[f][q]
  PROVE  Records(f, p, row) = RecordsOf(h)
<1>1. \A q \in Procs : (IF q = p THEN row ELSE held[f][q]) = h[q]
  OBVIOUS
<1>2. ASSUME NEW e PROVE e \in Records(f, p, row) <=>
                           \E q \in Procs : \E b \in Starts(h[q]) : e = <<q, b>>
  BY <1>1 DEF Records
<1>3. ASSUME NEW e PROVE e \in RecordsOf(h) <=>
                           \E q \in Procs : \E b \in Starts(h[q]) : e = <<q, b>>
  BY DEF RecordsOf, Starts
<1> QED
  BY <1>2, <1>3

\* A file has finitely many records.
LEMMA RecordsFinite == ASSUME NEW h PROVE IsFiniteSet(RecordsOf(h))
<1>1. IsFiniteSet(Bytes)
  BY MaxByteAssumption, FS_Interval DEF Bytes
<1>2. IsFiniteSet(Procs \X Bytes)
  BY <1>1, ConstantsAssumption, FS_Product, SMT, Z3
<1> QED
  BY <1>2, FS_Subset DEF RecordsOf

\* One pass of F_SETLKW changes no record, or grants an admitted request.
LEMMA AttemptHeld ==
  ASSUME NEW p, NEW r, Attempt(p, r)
  PROVE  \/ held' = held
         \/ Admits(r.file, p, Replaced(held[r.file][p], r)) /\ Grant(p, r)
  BY DEF Attempt

\* A step changes no record, releases records of one owner, or grants a
\* request that the limit admits.
LEMMA HeldChanges ==
  ASSUME [Next]_vars
  PROVE  \/ held' = held
         \/ \E p \in Procs : \E FS : Release(p, FS)
         \/ \E p \in Procs : \E r :
              Admits(r.file, p, Replaced(held[r.file][p], r)) /\ Grant(p, r)
<1>1. CASE UNCHANGED vars
  BY <1>1 DEF vars
<1>2. ASSUME NEW p \in Procs,
             \/ \E d \in Fds, o \in Opens : Open(p, d, o)
             \/ HandlerEintr(p) \/ Signal(p) \/ Checkpoint(p)
             \/ \E c \in Procs : Fork(p, c)
      PROVE  held' = held
  BY <1>2 DEF Open, HandlerEintr, Signal, Checkpoint, Fork
<1>3. ASSUME NEW p \in Procs,
             \/ \E d \in Fds : Close(p, d)
             \/ \E d, e \in Fds : Dup2(p, d, e)
             \/ \E D \in SUBSET Fds : Exec(p, D)
             \/ Exit(p)
      PROVE  \E FS : Release(p, FS)
  BY <1>3, Zenon DEF Close, Dup2, Exec, Exit
<1>4. ASSUME NEW p \in Procs,
             \E d \in Fds, t \in LockTypes, g \in Ranges : SetLk(p, d, t, g)
      PROVE  \E r : Admits(r.file, p, Replaced(held[r.file][p], r)) /\ Grant(p, r)
  BY <1>4, Zenon DEF SetLk
<1>5. ASSUME NEW p \in Procs,
             \/ \E d \in Fds, t \in LockTypes, g \in Ranges : SetLkw(p, d, t, g)
             \/ Retry(p) \/ HandlerRestart(p)
      PROVE  \/ held' = held
             \/ \E r : Admits(r.file, p, Replaced(held[r.file][p], r)) /\ Grant(p, r)
  <2>1. \E r : Attempt(p, r)
    BY <1>5, Zenon DEF SetLkw, Retry, HandlerRestart
  <2> QED
    BY <2>1, AttemptHeld, Zenon
<1> QED
  BY <1>1, <1>2, <1>3, <1>4, <1>5, Zenon DEF Next

\* The limit in terms of the rows.
LEMMA LimitOfRows ==
  ASSUME NEW f \in Files, NEW p \in Procs
  PROVE  Records(f, p, held[f][p]) = RecordsOf(held[f])
  BY RecordsAre

\* Every step keeps the limit: releasing a row only takes records away, and
\* record_replace counts exactly the records that the file then has.
LEMMA NextLimit ==
  ASSUME TypeOK, TypeOK', RecordLimit, [Next]_vars
  PROVE  RecordLimit'
<1> SUFFICES ASSUME NEW f \in Files, NEW p \in Procs
             PROVE  Cardinality(Records(f, p, held[f][p])') <= LockMax
  BY DEF RecordLimit
<1>1. Records(f, p, held[f][p])' = RecordsOf(held'[f])
  <2>1. Records(f, p, held[f][p])' =
          UNION {{<<q, b>> : b \in Starts(held'[f][q])} : q \in Procs}
    BY DEF Records
  <2>2. RecordsOf(held'[f]) =
          UNION {{<<q, b>> : b \in Starts(held'[f][q])} : q \in Procs}
    BY DEF RecordsOf, Starts
  <2> QED
    BY <2>1, <2>2
<1>2. Cardinality(RecordsOf(held[f])) <= LockMax
  BY LimitOfRows DEF RecordLimit
<1>3. /\ held \in [Files -> [Procs -> [Bytes -> Types]]]
      /\ held' \in [Files -> [Procs -> [Bytes -> Types]]]
  BY DEF TypeOK
<1>4. CASE held'[f] = held[f]
  BY <1>1, <1>2, <1>4
<1>5. CASE \E q \in Procs : held'[f] = [held[f] EXCEPT ![q] = Unlocked]
  <2>1. PICK q \in Procs : held'[f] = [held[f] EXCEPT ![q] = Unlocked]
    BY <1>5
  <2>2. Starts(Unlocked) = {}
    BY DEF Starts, Unlocked
  <2>3. \A s \in Procs : s # q => held'[f][s] = held[f][s]
    BY <1>3, <2>1
  <2>4. held'[f][q] = Unlocked
    BY <1>3, <2>1
  <2>5. RecordsOf(held'[f]) \in SUBSET RecordsOf(held[f])
    BY <2>2, <2>3, <2>4 DEF RecordsOf
  <2>6. Cardinality(RecordsOf(held'[f])) <= Cardinality(RecordsOf(held[f]))
    BY <2>5, RecordsFinite, FS_Subset
  <2>7. /\ Cardinality(RecordsOf(held'[f])) \in Nat
        /\ Cardinality(RecordsOf(held[f])) \in Nat
    BY RecordsFinite, FS_CardinalityType
  <2> QED
    BY <1>1, <1>2, <2>6, <2>7, ConstantsAssumption
<1>6. CASE \E q \in Procs : \E row : Admits(f, q, row) /\ held'[f] = [held[f] EXCEPT ![q] = row]
  <2>0. PICK q \in Procs : \E row : Admits(f, q, row) /\ held'[f] = [held[f] EXCEPT ![q] = row]
    BY <1>6
  <2>1. PICK row : Admits(f, q, row) /\ held'[f] = [held[f] EXCEPT ![q] = row]
    BY <2>0
  <2>2. held'[f][q] = row /\ \A s \in Procs \ {q} : held'[f][s] = held[f][s]
    BY <1>3, <2>1
  <2>3. Records(f, q, row) = RecordsOf(held'[f])
    BY <2>2, RecordsAre
  <2> QED
    BY <1>1, <2>1, <2>3 DEF Admits
<1>7. ASSUME NEW q \in Procs, NEW FS, Release(q, FS)
      PROVE  held'[f] = held[f] \/ held'[f] = [held[f] EXCEPT ![q] = Unlocked]
  BY <1>7 DEF Release
<1>8. ASSUME NEW q \in Procs, NEW r,
             Admits(r.file, q, Replaced(held[r.file][q], r)), Grant(q, r)
      PROVE  \/ held'[f] = held[f]
             \/ \E row : Admits(f, q, row) /\ held'[f] = [held[f] EXCEPT ![q] = row]
  <2> DEFINE row == Replaced(held[r.file][q], r)
  <2>1. held' = [held EXCEPT ![r.file] = [held[r.file] EXCEPT ![q] = row]]
    BY <1>8 DEF Grant
  <2> HIDE DEF row
  <2>2. CASE r.file = f
    <3>1. held'[f] = [held[f] EXCEPT ![q] = row]
      BY <1>3, <2>1, <2>2
    <3>2. Admits(f, q, row)
      BY <1>8, <2>2 DEF row
    <3> QED
      BY <3>1, <3>2
  <2>3. CASE r.file # f
    BY <1>3, <2>1, <2>3
  <2> QED
    BY <2>2, <2>3
<1> QED
  BY <1>4, <1>5, <1>6, <1>7, <1>8, HeldChanges, Zenon

\* A file never has more than LockMax records of all its owners, whatever they
\* replace, split, join and release.
THEOREM LimitKept == Spec => []RecordLimit
<1>1. Init => RecordLimit
  <2> SUFFICES ASSUME Init, NEW f \in Files, NEW p \in Procs
               PROVE  Cardinality(Records(f, p, held[f][p])) <= LockMax
    BY DEF RecordLimit
  <2>1. \A q \in Procs : held[f][q] = Unlocked
    BY DEF Init
  <2>2. Starts(Unlocked) = {}
    BY DEF Starts, Unlocked
  <2>3. RecordsOf(held[f]) = {}
    BY <2>1, <2>2 DEF RecordsOf
  <2>4. Records(f, p, held[f][p]) = {}
    BY <2>3, LimitOfRows
  <2>5. Cardinality({}) = 0
    BY FS_EmptySet
  <2> QED
    BY <2>4, <2>5, ConstantsAssumption
<1>2. TypeOK /\ TypeOK' /\ RecordLimit /\ [Next]_vars => RecordLimit'
  BY NextLimit
<1> QED
  BY TypeCorrect, <1>1, <1>2, PTL DEF Spec

-----------------------------------------------------------------------------
(* The byte range of a request: FlockRange, for every width.               *)

(* The ranges that resolve to themselves: inside the 32 bits of the interface
   or open-ended, and short enough for a 32-bit length. *)
Encodable(r) ==
  /\ r \in ByteRanges
  /\ 0 <= r.start /\ r.start <= r.end /\ r.start <= I32Max
  /\ r.end = U64Max \/ (r.end <= I32Max /\ r.end - r.start + 1 <= I32Max)

BaseOf(a) ==
  CASE a.flock.whence = 0 -> 0 [] a.flock.whence = 1 -> a.offset [] a.flock.whence = 2 -> a.size

(* r is the range of the guest's own operand. *)
IsNamed(r, a) ==
  /\ r.start .. r.end = Named(a.flock, BaseOf(a))
  /\ r.end <= I32Max \/ r.end = U64Max

RangeInv ==
  /\ offset \in 0 .. I64Max /\ size \in 0 .. I64Max
  /\ stage \in {"call", "handler", "done"}
  /\ asked \in [flock : Operands, offset : 0 .. I64Max, size : 0 .. I64Max]
  /\ first = NoRange =>
       /\ stage # "handler" /\ operand = asked.flock
       /\ stage = "call" => range = NoRange /\ offset = asked.offset /\ size = asked.size
       /\ range \notin {NoRange, Error} => Encodable(range) /\ IsNamed(range, asked)
  /\ first # NoRange =>
       /\ Encodable(first) /\ IsNamed(first, asked)
       /\ operand = Encoded(first) /\ range = first

(* A value that fits its width does not wrap. *)
LEMMA SmallModulo ==
  ASSUME NEW m \in Nat, NEW x \in 0 .. m
  PROVE  x % (m + 1) = x
BY Z3

(* What posix_kernel_record_lock resolves from a guest's operand can be
   written back into a 32-bit struct flock. *)
LEMMA ResolveEncodable ==
  ASSUME NEW op \in Operands, offset \in 0 .. I64Max, size \in 0 .. I64Max,
         ResolveFlock(op) # Error
  PROVE  /\ Encodable(ResolveFlock(op))
         /\ ResolveFlock(op).start .. ResolveFlock(op).end = Named(op, Base(op.whence))
<1> DEFINE base == Base(op.whence)
           position == base + op.start
<1>1. /\ op.whence \in 0 .. 2 /\ op.start \in Int /\ op.length \in Int
      /\ -I32Max - 1 <= op.length /\ op.length <= I32Max
      /\ I32Max \in Nat /\ I64Max \in Nat /\ U64Max \in Nat
      /\ I32Max < U64Max
  BY WidthAssumption DEF Operands, Int32
<1>2. base \in Int /\ position \in Int
  BY <1>1, WidthAssumption DEF Base
<1>3. position >= 0 /\ position <= I32Max /\ (op.length < 0 => position + op.length >= 0)
  BY <1>1, <1>2 DEF ResolveFlock
<1> HIDE DEF base
<1>4. CASE op.length < 0
  <2>1. position - 1 \in 0 .. U64Max
    BY <1>1, <1>2, <1>3, <1>4
  <2>2. (position - 1) % (U64Max + 1) = position - 1
    BY <2>1, <1>1, SmallModulo, SMT, Z3
  <2>3. ResolveFlock(op) = [start |-> position + op.length, end |-> position - 1]
    BY <2>2, <1>4 DEF ResolveFlock, base
  <2>4. Named(op, base) = position + op.length .. position - 1
    BY <1>1, <1>4 DEF Named
  <2>5. Encodable(ResolveFlock(op))
    BY <2>3, <1>1, <1>2, <1>3, <1>4 DEF Encodable, ByteRanges
  <2> QED
    BY <2>3, <2>4, <2>5 DEF base
<1>5. CASE op.length = 0
  <2>1. ResolveFlock(op) = [start |-> position, end |-> U64Max]
    BY <1>5, <1>1 DEF ResolveFlock, base
  <2>2. Named(op, base) = position .. U64Max
    BY <1>1, <1>5 DEF Named
  <2>3. Encodable(ResolveFlock(op))
    BY <2>1, <1>1, <1>2, <1>3 DEF Encodable, ByteRanges
  <2> QED
    BY <2>1, <2>2, <2>3, SMT, Z3 DEF base
<1>6. CASE op.length > 0
  <2>1. ResolveFlock(op) = [start |-> position, end |-> position + op.length - 1]
        /\ position + op.length - 1 <= I32Max
    BY <1>6, <1>1, <1>2 DEF ResolveFlock, base
  <2>2. Named(op, base) = position .. position + op.length - 1
    BY <1>1, <1>6 DEF Named
  <2>3. Encodable(ResolveFlock(op))
    BY <2>1, <1>1, <1>2, <1>3, <1>6 DEF Encodable, ByteRanges
  <2> QED
    BY <2>1, <2>2, <2>3, SMT, Z3 DEF base
<1> QED
  BY <1>1, <1>4, <1>5, <1>6

(* An operand written back resolves to the same range, wherever the offset
   and the end of the file are by now. *)
LEMMA ResolveEncoded ==
  ASSUME NEW r, Encodable(r)
  PROVE  ResolveFlock(Encoded(r)) = r
<1>1. /\ r.start \in Int /\ r.end \in Int /\ r = [start |-> r.start, end |-> r.end]
      /\ 0 <= r.start /\ r.start <= r.end /\ r.start <= I32Max
      /\ r.end = U64Max \/ (r.end <= I32Max /\ r.end - r.start + 1 <= I32Max)
  BY DEF Encodable, ByteRanges
<1>2. /\ I32Max \in Nat /\ I64Max \in Nat /\ U64Max \in Nat
      /\ I32Max < I64Max /\ I32Max < U64Max
  BY WidthAssumption
<1>3. CASE r.end = U64Max
  <2>1. Encoded(r) = [whence |-> 0, start |-> r.start, length |-> 0]
    BY <1>3 DEF Encoded
  <2> QED
    BY <2>1, <1>1, <1>2, <1>3 DEF ResolveFlock, Base, Int32
<1>4. CASE r.end # U64Max
  <2> DEFINE n == r.end - r.start + 1
  <2>1. Encoded(r) = [whence |-> 0, start |-> r.start, length |-> n]
    BY <1>4 DEF Encoded
  <2>2. n \in 1 .. I32Max /\ r.start + n - 1 = r.end /\ r.end <= I32Max
    BY <1>1, <1>2, <1>4
  <2> HIDE DEF n
  <2> QED
    BY <2>1, <2>2, <1>1, <1>2 DEF ResolveFlock, Base, Int32
<1> QED
  BY <1>3, <1>4

(* Each action of FlockRange keeps the invariant. *)
LEMMA FlockInitStep == RangeInit => RangeInv
BY WidthAssumption, NoRangeAssumption DEF RangeInit, RangeInv, Operands

\* A call that ends locks the range that it resolved.
LEMMA FinishStep == RangeInv /\ Finish => RangeInv'
<1> SUFFICES ASSUME RangeInv, Finish PROVE RangeInv'
  OBVIOUS
<1> USE DEF RangeInv, Finish
<1>1. CASE first = NoRange
  <2>1. range' # Error => Encodable(range') /\ IsNamed(range', asked)
    <3> SUFFICES ASSUME ResolveFlock(operand) # Error
                 PROVE  Encodable(ResolveFlock(operand)) /\ IsNamed(ResolveFlock(operand), asked)
      OBVIOUS
    <3>1. operand \in Operands /\ Base(operand.whence) = BaseOf(asked)
      BY <1>1, Zenon DEF Base, BaseOf
    <3> QED
      BY <3>1, <1>1, ResolveEncodable DEF IsNamed, Encodable
  <2> QED
    BY <1>1, <2>1, NoRangeAssumption, Zenon DEF IsNamed, BaseOf
<1>2. CASE first # NoRange
  <2>1. range' = first
    BY <1>2, ResolveEncoded, SMT, Z3
  <2> QED
    BY <1>2, <2>1, Zenon DEF IsNamed, BaseOf, Encoded
<1> QED
  BY <1>1, <1>2

\* The operand written back is the encoding of the resolved range.
LEMMA InterruptedStep == RangeInv /\ Interrupted => RangeInv'
<1> SUFFICES ASSUME RangeInv, Interrupted PROVE RangeInv'
  OBVIOUS
<1> USE DEF RangeInv, Interrupted
<1>1. CASE first = NoRange
  <2>1. operand \in Operands /\ Base(operand.whence) = BaseOf(asked)
    BY <1>1, Zenon DEF Base, BaseOf
  <2>2. Encodable(ResolveFlock(operand)) /\ IsNamed(ResolveFlock(operand), asked)
    BY <2>1, <1>1, ResolveEncodable DEF IsNamed, Encodable
  <2>3. first' = ResolveFlock(operand) /\ first' # NoRange
    BY <1>1, <2>2, NoRangeAssumption DEF Encodable
  <2> QED
    BY <2>2, <2>3, Zenon DEF IsNamed, BaseOf, Encoded, Encodable
<1>2. CASE first # NoRange
  <2>1. ResolveFlock(operand) = first
    BY <1>2, ResolveEncoded
  <2> QED
    BY <1>2, <2>1, Zenon DEF IsNamed, BaseOf, Encoded, Encodable
<1> QED
  BY <1>1, <1>2

\* A handler moves the file's offset and its end, not the operand.
LEMMA HandlerStep == RangeInv /\ Handler => RangeInv'
BY WidthAssumption, Zenon DEF RangeInv, Handler, IsNamed, BaseOf, Encoded, Encodable

\* A stuttering step changes nothing of it.
LEMMA FlockStutter == RangeInv /\ UNCHANGED rangeVars => RangeInv'
BY Zenon DEF RangeInv, rangeVars, IsNamed, BaseOf, Encoded, Encodable

(* The inductive invariant: once a call was interrupted, its operand is the
   32-bit encoding of the range it had resolved. *)
THEOREM RangeInvariance == RangeSpec => []RangeInv
<1>1. RangeInv /\ [RangeNext]_rangeVars => RangeInv'
  BY FinishStep, InterruptedStep, HandlerStep, FlockStutter DEF RangeNext, Done
<1> QED
  BY FlockInitStep, <1>1, PTL DEF RangeSpec

(* However often handlers interrupt F_SETLKW, and wherever they leave the
   offset and the end of the file, the restarted call resolves the range of
   the first: for every width, and so for the 32 and 64 bits of the code. *)
THEOREM RestartedRange == RangeSpec => []RestartKeepsRange
<1>1. RangeInv => RestartKeepsRange
  BY DEF RangeInv, RestartKeepsRange
<1> QED
  BY RangeInvariance, <1>1, PTL

(* The range that is locked holds the bytes the guest named. *)
THEOREM RangeNamed == RangeSpec => []RangeIsNamed
<1>1. RangeInv => RangeIsNamed
  <2> SUFFICES ASSUME RangeInv, range \notin {NoRange, Error} PROVE Encodable(range) /\ IsNamed(range, asked)
    BY Zenon DEF RangeIsNamed, Encodable, IsNamed, BaseOf
  <2> QED
    BY DEF RangeInv
<1> QED
  BY RangeInvariance, <1>1, PTL
=============================================================================
