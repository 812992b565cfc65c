---------------------------- MODULE RecordLocks ----------------------------
(***************************************************************************)
(* Advisory record locks of the process kernel (engine/lib/kernel.c) as    *)
(* the fcntl import of engine/guest_posix.c drives them: F_SETLK, F_SETLKW *)
(* with its wait record and its wait-for search, the release of a file's   *)
(* locks by any close, and the ways a blocked F_SETLKW ends.               *)
(*                                                                         *)
(* Every process has one lock owner (posix_kernel_set_lock_pid gives a     *)
(* fork child a fresh one), so owners are processes.  The records of one   *)
(* owner on one file are a row (LockRows); module RecordList shows that    *)
(* the linked list of records implements this.  A call that fails and      *)
(* changes nothing is a stuttering step.                                   *)
(***************************************************************************)
EXTENDS LockRows, FiniteSets

CONSTANTS Procs,     \* process slots of the store
          Files,     \* inode objects
          Fds,       \* descriptor numbers of one process
          Modes,     \* access modes a descriptor may be opened with
          LockTypes, \* the lock types requests may ask for
          Ranges,    \* the resolved byte ranges <<start, end>> of requests
          LockMax,   \* POSIX_RECORD_LOCK_MAX, records on one file
          None       \* no descriptor, no request

ASSUME ConstantsAssumption ==
  /\ LockMax \in Nat
  /\ Modes \subseteq SUBSET {"rd", "wr"}
  /\ LockTypes \subseteq {"rd", "wr", "none"}
  /\ Ranges \subseteq {g \in (0 .. MaxByte - 1) \X (0 .. MaxByte) : g[1] <= g[2]}
  /\ IsFiniteSet(Procs)

Opens == [file : Files, mode : Modes]    \* an open regular file description
Requests == [fd : Fds, file : Files, type : Types, start : Bytes, end : Bytes]

ASSUME NoneAssumption == None \notin Opens \cup Requests

VARIABLES
  fds,     \* fds[p][d]: the description at descriptor d of p, or None
  held,    \* held[f][p][b]: the type of the record of p over byte b of f
  phase,   \* "run", "wait" (in F_SETLKW), "handler" (inside it), "dead"
  req,     \* the resolved request of a blocked or interrupted F_SETLKW
  sig      \* sig[p]: an unmasked caught signal is pending

vars == <<fds, held, phase, req, sig>>

TypeOK ==
  /\ fds \in [Procs -> [Fds -> Opens \cup {None}]]
  /\ held \in [Files -> [Procs -> [Bytes -> Types]]]
  /\ phase \in [Procs -> {"run", "wait", "handler", "dead"}]
  /\ req \in [Procs -> Requests \cup {None}]
  /\ sig \in [Procs -> BOOLEAN]

Init ==
  /\ fds = [p \in Procs |-> [d \in Fds |-> None]]
  /\ held = [f \in Files |-> [p \in Procs |-> Unlocked]]
  /\ phase \in {ph \in [Procs -> {"run", "dead"}] :
                  Cardinality({p \in Procs : ph[p] = "run"}) = 1}
  /\ req = [p \in Procs |-> None]
  /\ sig = [p \in Procs |-> FALSE]

-----------------------------------------------------------------------------
(* Records and conflicts.                                                  *)

\* The other owners with a record in the way of request r of p.
Blockers_ShortRange(p, r) ==
  {q \in Procs \ {p} :
     \E b \in r.start .. r.end - 1 : Conflicting(r.type, held[r.file][q][b])}

Blockers(p, r) ==
  {q \in Procs \ {p} :
     \E b \in r.start .. r.end : Conflicting(r.type, held[r.file][q][b])}

\* The records on file f when p has the given row, each with its owner.
Records(f, p, row) ==
  UNION {{<<q, b>> : b \in Starts(IF q = p THEN row ELSE held[f][q])} : q \in Procs}

\* Whether record_replace admits the new row under the limit of the file.
Admits_OwnOnly(f, p, row) == Cardinality(Starts(row)) <= LockMax

Admits(f, p, row) == Cardinality(Records(f, p, row)) <= LockMax

\* record_wait_cycle: the owners its search visits from a set of owners.
\* An owner that waits leads on to every owner that blocks its request.
Closed(C) ==
  \A q \in C : phase[q] = "wait" => Blockers(q, req[q]) \subseteq C

Reach(S) ==
  {q \in Procs : \A C \in SUBSET Procs : S \subseteq C /\ Closed(C) => q \in C}

WouldDeadlock_FirstByte(p, r) ==
  \E q \in Blockers(p, r) :
    phase[q] = "wait" /\ p \in Blockers(q, [req[q] EXCEPT !.end = req[q].start])

WouldDeadlock(p, r) == p \in Reach(Blockers(p, r))

-----------------------------------------------------------------------------
(* Descriptors.  A signal handler runs to its end before another process   *)
(* is scheduled (guest_posix_handle_signal clears the pump quantum).       *)

Active(p) ==
  /\ phase[p] \in {"run", "handler"}
  /\ \A q \in Procs \ {p} : phase[q] # "handler"

\* record_release_file for each of the files FS.
Release(p, FS) ==
  held' = [f \in Files |->
             IF f \in FS THEN [held[f] EXCEPT ![p] = Unlocked] ELSE held[f]]

FilesAt(p, D) == {fds[p][d].file : d \in {e \in D : fds[p][e] # None}}

Open(p, d, o) ==
  /\ Active(p)
  /\ fds[p][d] = None
  /\ fds' = [fds EXCEPT ![p][d] = o]
  /\ UNCHANGED <<held, phase, req, sig>>

\* Closing any descriptor of a file releases all locks of the owner on it.
Close(p, d) ==
  /\ Active(p)
  /\ fds[p][d] # None
  /\ Release(p, FilesAt(p, {d}))
  /\ fds' = [fds EXCEPT ![p][d] = None]
  /\ UNCHANGED <<phase, req, sig>>

\* dup, dupfd and dup2; dup2 closes the target first.
Dup2(p, old, new) ==
  /\ Active(p)
  /\ old # new
  /\ fds[p][old] # None
  /\ Release(p, FilesAt(p, {new}))
  /\ fds' = [fds EXCEPT ![p][new] = fds[p][old]]
  /\ UNCHANGED <<phase, req, sig>>

\* posix_kernel_close_on_exec; D is the set of descriptors marked FD_CLOEXEC.
\* Exec keeps the process and with it the lock owner.
Exec_KeepsRecords(p, D) ==
  /\ Active(p)
  /\ phase[p] = "run"
  /\ fds' = [fds EXCEPT ![p] = [d \in Fds |-> IF d \in D THEN None ELSE fds[p][d]]]
  /\ UNCHANGED <<held, phase, req, sig>>

Exec(p, D) ==
  /\ Active(p)
  /\ phase[p] = "run"
  /\ Release(p, FilesAt(p, D))
  /\ fds' = [fds EXCEPT ![p] = [d \in Fds |-> IF d \in D THEN None ELSE fds[p][d]]]
  /\ UNCHANGED <<phase, req, sig>>

-----------------------------------------------------------------------------
(* posix_kernel_record_lock.                                               *)

\* The descriptor is open on the file and its mode allows the lock type.
Permits(p, r) ==
  /\ fds[p][r.fd] # None
  /\ fds[p][r.fd].file = r.file
  /\ r.type = "none" \/ r.type \in fds[p][r.fd].mode

Grant(p, r) == held' = [held EXCEPT ![r.file][p] = Replaced(held[r.file][p], r)]

\* The request the adapter passes, resolved against the descriptor's file.
Resolve(p, d, type, range) ==
  [fd |-> d, file |-> fds[p][d].file, type |-> type,
   start |-> range[1], end |-> range[2]]

\* F_SETLK: EAGAIN on a conflict and ENOLCK over the limit change nothing.
SetLk(p, d, type, range) ==
  /\ Active(p)
  /\ fds[p][d] # None
  /\ LET r == Resolve(p, d, type, range)
     IN  /\ Permits(p, r)
         /\ Blockers(p, r) = {}
         /\ Admits(r.file, p, Replaced(held[r.file][p], r))
         /\ Grant(p, r)
  /\ UNCHANGED <<fds, phase, req, sig>>

\* posix_kernel_cancel_wait and a return to the guest.
Return(p) ==
  /\ phase' = [phase EXCEPT ![p] = "run"]
  /\ req' = [req EXCEPT ![p] = None]

\* posix_kernel_signal_interrupt consumes the signal and cancels the wait; the
\* adapter enters the handler with the resolved range in its retry operand.
Interrupt_NoHandler(p, r) ==
  /\ Return(p)
  /\ sig' = [sig EXCEPT ![p] = FALSE]

Interrupt(p, r) ==
  /\ phase' = [phase EXCEPT ![p] = "handler"]
  /\ req' = [req EXCEPT ![p] = r]
  /\ sig' = [sig EXCEPT ![p] = FALSE]

\* One pass of F_SETLKW over a resolved request, on the first call, on a
\* retry after a wake-up and on a restart after a handler.  The first test
\* is that the descriptor is still the one the request was resolved on.
Attempt(p, r) ==
  IF ~Permits(p, r)                                  \* EBADF
  THEN Return(p) /\ UNCHANGED <<held, sig>>
  ELSE IF sig[p]                                     \* EINTR
  THEN Interrupt(p, r) /\ UNCHANGED held
  ELSE IF Blockers(p, r) = {}                        \* granted, or ENOLCK
  THEN /\ Return(p)
       /\ IF Admits(r.file, p, Replaced(held[r.file][p], r))
          THEN Grant(p, r) ELSE UNCHANGED held
       /\ UNCHANGED sig
  ELSE IF WouldDeadlock(p, r)                        \* EDEADLK
  THEN Return(p) /\ UNCHANGED <<held, sig>>
  ELSE /\ phase' = [phase EXCEPT ![p] = "wait"]      \* wait registered or kept
       /\ req' = [req EXCEPT ![p] = r]
       /\ UNCHANGED <<held, sig>>

SetLkw(p, d, type, range) ==
  /\ Active(p)
  /\ phase[p] = "run"
  /\ fds[p][d] # None
  /\ Attempt(p, Resolve(p, d, type, range))
  /\ UNCHANGED fds

\* posix_kernel_wait_poll on a lock wait.
WaitReady_SignalOnly(p) == sig[p]

WaitReady(p) ==
  \/ sig[p]
  \/ fds[p][req[p].fd] = None
  \/ fds[p][req[p].fd] # None /\ fds[p][req[p].fd].file # req[p].file
  \/ Blockers(p, req[p]) = {}

\* The driver resumes a ready waiter, which repeats the import.
Retry(p) ==
  /\ phase[p] = "wait"
  /\ \A q \in Procs : phase[q] # "handler"
  /\ WaitReady(p)
  /\ Attempt(p, req[p])
  /\ UNCHANGED fds

\* The handler returned and one of the delivered actions lacks SA_RESTART.
HandlerEintr(p) ==
  /\ phase[p] = "handler"
  /\ Return(p)
  /\ UNCHANGED <<fds, held, sig>>

\* SA_RESTART: the adapter repeats the call with the range resolved before
\* the handler ran, on whatever file the descriptor refers to by now.  When
\* the handler closed it, the call ends with EBADF, as HandlerEintr does.
HandlerRestart(p) ==
  /\ phase[p] = "handler"
  /\ fds[p][req[p].fd] # None
  /\ Attempt(p, [req[p] EXCEPT !.file = fds[p][req[p].fd].file])
  /\ UNCHANGED fds

-----------------------------------------------------------------------------
(* Signals and the process life cycle.                                     *)

\* A caught signal is raised for p: kill by a process, or the alarm of p.
Signal(p) ==
  /\ phase[p] # "dead"
  /\ ~sig[p]
  /\ sig' = [sig EXCEPT ![p] = TRUE]
  /\ UNCHANGED <<fds, held, phase, req>>

\* A running process, or its handler, takes the signal at an opcode checkpoint.
Checkpoint(p) ==
  /\ Active(p)
  /\ sig[p]
  /\ sig' = [sig EXCEPT ![p] = FALSE]
  /\ UNCHANGED <<fds, held, phase, req>>

\* native_store_fork_process: the descriptors are inherited, the lock owner
\* is fresh, and neither the wait record nor pending signals are.
Fork(p, c) ==
  /\ Active(p)
  /\ phase[p] = "run"
  /\ phase[c] = "dead"
  /\ fds' = [fds EXCEPT ![c] = fds[p]]
  /\ phase' = [phase EXCEPT ![c] = "run"]
  /\ UNCHANGED <<held, req, sig>>

\* Exit of p, or its termination by a signal in any phase:
\* posix_kernel_close_all_fds cancels the wait and closes every descriptor.
\* The exit of the last process ends the invocation and is not a step.
Exit(p) ==
  /\ phase[p] # "dead"
  /\ \A q \in Procs \ {p} : phase[q] # "handler"
  /\ \E q \in Procs \ {p} : phase[q] # "dead"
  /\ Release(p, FilesAt(p, Fds))
  /\ fds' = [fds EXCEPT ![p] = [d \in Fds |-> None]]
  /\ phase' = [phase EXCEPT ![p] = "dead"]
  /\ req' = [req EXCEPT ![p] = None]
  /\ sig' = [sig EXCEPT ![p] = FALSE]

Next ==
  \E p \in Procs :
    \/ \E d \in Fds, o \in Opens : Open(p, d, o)
    \/ \E d \in Fds : Close(p, d)
    \/ \E d, e \in Fds : Dup2(p, d, e)
    \/ \E D \in SUBSET Fds : Exec(p, D)
    \/ \E d \in Fds, t \in LockTypes, g \in Ranges : SetLk(p, d, t, g)
    \/ \E d \in Fds, t \in LockTypes, g \in Ranges : SetLkw(p, d, t, g)
    \/ Retry(p)
    \/ HandlerEintr(p)
    \/ HandlerRestart(p)
    \/ Signal(p)
    \/ Checkpoint(p)
    \/ \E c \in Procs : Fork(p, c)
    \/ Exit(p)

Spec == Init /\ [][Next]_vars

\* process_schedule visits the slots round-robin, so a waiter that is ready
\* whenever a process gives up the engine is resumed.  Fairness is strong
\* because a handler, during which nothing is scheduled, disables Retry.
\* A signal handler is assumed to return.
Fairness ==
  \A p \in Procs : SF_vars(Retry(p)) /\ WF_vars(HandlerEintr(p))

FairSpec == Spec /\ Fairness

-----------------------------------------------------------------------------
(* Properties.                                                             *)

\* Two processes never hold conflicting records over the same byte, whatever
\* replacements, splits, retries, forks and closes led there: what
\* record_conflict and record_replace are for.
MutualExclusion ==
  \A f \in Files : \A p, q \in Procs : \A b \in Bytes :
    p # q => ~Conflicting(held[f][p][b], held[f][q][b])

\* No set of processes waits for its own members: every cycle of blocked
\* F_SETLKW calls was refused with EDEADLK when its last edge would have
\* closed it, although the search runs only when a wait is registered and
\* records change hands afterwards.
Stuck(S) ==
  \A p \in S : phase[p] = "wait" /\ Blockers(p, req[p]) \cap S # {}

NoDeadlock == \A S \in SUBSET Procs : S # {} => ~Stuck(S)

\* A record outlives neither its process nor the last descriptor its process
\* has on the file: posix_kernel_close, dup2 onto the last descriptor, exec,
\* exit and death by signal all release it.
LocksNeedDescriptor ==
  \A f \in Files, p \in Procs :
    held[f][p] # Unlocked =>
      \E d \in Fds : fds[p][d] # None /\ fds[p][d].file = f

\* Nothing can pull the descriptor from under a blocked F_SETLKW, so the
\* EBADF exits that cancel a lock wait on a retry guard against a state the
\* process cannot reach.
WaitKeepsDescriptor ==
  \A p \in Procs :
    phase[p] = "wait" =>
      fds[p][req[p].fd] # None /\ fds[p][req[p].fd].file = req[p].file

\* Only POSIX_RECORD_LOCK_MAX records are kept on a file.
RecordLimit ==
  \A f \in Files : \A p \in Procs : Cardinality(Records(f, p, held[f][p])) <= LockMax

\* A process that blocks in F_SETLKW goes on running only with the lock, with
\* EINTR through its handler, or with ENOLCK at the record limit; a wait that
\* was accepted is never refused with EDEADLK afterwards.
WaitOutcome ==
  [][\A p \in Procs :
       phase[p] = "wait" /\ phase'[p] = "run" =>
         \/ \A b \in req[p].start .. req[p].end :
              held'[req[p].file][p][b] = req[p].type
         \/ ~Admits(req[p].file, p, Replaced(held[req[p].file][p], req[p]))]_vars

\* No lost wake-up: a blocked F_SETLKW whose conflicts are gone is resumed,
\* unless another process takes a conflicting lock first.
NoLostWakeup ==
  \A p \in Procs :
    (phase[p] = "wait" /\ Blockers(p, req[p]) = {})
      ~> (phase[p] # "wait" \/ Blockers(p, req[p]) # {})
=============================================================================
