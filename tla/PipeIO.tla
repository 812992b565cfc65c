------------------------------- MODULE PipeIO -------------------------------
(***************************************************************************)
(* Pipes and blocking descriptor I/O of engine/lib/kernel.c: descriptors   *)
(* shared by dup and fork, reader and writer tallies, the bounded buffer,  *)
(* the one wait record of a process, and the calls that use it (read,      *)
(* write, select), as engine/guest_posix.c calls them and                  *)
(* engine/process_driver.c resumes them.                                   *)
(*                                                                         *)
(* A pipe has one open file description per end (dup and fork share it),   *)
(* so a description is a pair <<pipe, end>>.  A call that fails and        *)
(* changes nothing is a stuttering step.                                   *)
(***************************************************************************)
EXTENDS Integers, Sequences, FiniteSets, FiniteSetsExt

CONSTANTS Procs,     \* process slots of the store
          FdMax,     \* POSIX_KERNEL_FD_MAX
          Pipes,     \* pipe objects
          Capacity,  \* POSIX_PIPE_CAPACITY
          MaxCount,  \* the largest count a read or write is called with
          Requests,  \* the calls guests make
          Signalled, \* the processes that signals are sent to
          None

ASSUME PipeAssumption ==
  /\ FdMax \in Nat /\ Capacity \in Nat \ {0} /\ MaxCount \in Nat \ {0}
  /\ IsFiniteSet(Procs)

Fds == 0 .. FdMax - 1
Ofds == Pipes \X {"r", "w"}
R(k) == <<k, "r">>
W(k) == <<k, "w">>
Stamps == Capacity + 1   \* bytes are numbered modulo this, in writing order

VARIABLES
  fds,       \* fds[p][d]: the description at descriptor d of p, or None
  tally,     \* pipe->readers and pipe->writers; ofd->ref_count moves with it
  nonblock,  \* O_NONBLOCK of the description's shared status flags
  buffer,    \* buffer[k]: the bytes in the pipe
  sent,      \* sent[k]: the number of the next byte written
  got,       \* got[k]: the number of the next byte to be read
  wait,      \* wait[p]: the kernel wait record while active, or None
  call,      \* call[p]: the blocked import of p, None while it runs
  phase,     \* "run", "wait", "handler", "dead"
  sig,       \* sig[p]: an unmasked caught signal is pending
  delivered  \* delivered[p]: kernel->delivered_signal is set

vars == <<fds, tally, nonblock, buffer, sent, got, wait, call, phase, sig, delivered>>
pipeVars == <<nonblock, buffer, sent, got>>
waitVars == <<wait, call, phase, sig, delivered>>

Calls ==
  [op : {"read", "write"}, fd : Fds, count : 1 .. MaxCount]
    \cup [op : {"select"}, read : SUBSET Fds, write : SUBSET Fds, timeout : {"zero", "some", "none"}]

ASSUME RequestsAssumption == Requests \subseteq Calls

Waits == [read : SUBSET Fds, write : SUBSET Fds, except : SUBSET Fds, timed : BOOLEAN]

ASSUME NoneAssumption == None \notin Ofds \cup Calls \cup Waits

TypeOK ==
  /\ fds \in [Procs -> [Fds -> Ofds \cup {None}]]
  /\ tally \in [Ofds -> Nat]
  /\ nonblock \in [Ofds -> BOOLEAN]
  /\ buffer \in [Pipes -> Seq(0 .. Stamps - 1)]
  /\ \A k \in Pipes : Len(buffer[k]) <= Capacity
  /\ sent \in [Pipes -> 0 .. Stamps - 1]
  /\ got \in [Pipes -> 0 .. Stamps - 1]
  /\ wait \in [Procs -> Waits \cup {None}]
  /\ call \in [Procs -> Calls \cup {None}]
  /\ phase \in [Procs -> {"run", "wait", "handler", "dead"}]
  /\ sig \in [Procs -> BOOLEAN]
  /\ delivered \in [Procs -> BOOLEAN]

Init ==
  /\ fds = [p \in Procs |-> [d \in Fds |-> None]]
  /\ tally = [o \in Ofds |-> 0]
  /\ nonblock = [o \in Ofds |-> FALSE]
  /\ buffer = [k \in Pipes |-> <<>>]
  /\ sent = [k \in Pipes |-> 0]
  /\ got = [k \in Pipes |-> 0]
  /\ wait = [p \in Procs |-> None]
  /\ call = [p \in Procs |-> None]
  /\ phase \in {ph \in [Procs -> {"run", "dead"}] :
                  Cardinality({p \in Procs : ph[p] = "run"}) = 1}
  /\ sig = [p \in Procs |-> FALSE]
  /\ delivered = [p \in Procs |-> FALSE]

-----------------------------------------------------------------------------
(* Descriptors.  A handler runs to its end before another process runs.    *)

Active(p) ==
  /\ phase[p] \in {"run", "handler"}
  /\ \A q \in Procs \ {p} : phase[q] # "handler"

Free(p, least) == {d \in Fds : d >= least /\ fds[p][d] = None}

\* The descriptors in D that p has on description o.
On(p, D, o) == {d \in D : fds[p][d] = o}

\* posix_kernel_pipe: the two lowest free descriptors, EMFILE without them.
\* The pipe object is fresh memory, or that of a pipe freed before.
Pipe(p, k) ==
  /\ Active(p)
  /\ tally[R(k)] = 0 /\ tally[W(k)] = 0
  /\ Cardinality(Free(p, 0)) >= 2
  /\ LET rfd == Min(Free(p, 0))
         wfd == Min(Free(p, rfd + 1))
     IN  fds' = [fds EXCEPT ![p] = [@ EXCEPT ![rfd] = R(k), ![wfd] = W(k)]]
  /\ tally' = [tally EXCEPT ![R(k)] = 1, ![W(k)] = 1]
  /\ nonblock' = [nonblock EXCEPT ![R(k)] = FALSE, ![W(k)] = FALSE]
  /\ buffer' = [buffer EXCEPT ![k] = <<>>]
  /\ sent' = [sent EXCEPT ![k] = 0]
  /\ got' = [got EXCEPT ![k] = 0]
  /\ UNCHANGED waitVars

Close(p, d) ==
  /\ Active(p)
  /\ fds[p][d] # None
  /\ fds' = [fds EXCEPT ![p][d] = None]
  /\ tally' = [tally EXCEPT ![fds[p][d]] = @ - 1]
  /\ UNCHANGED <<pipeVars, waitVars>>

\* posix_kernel_dup2: the target is closed before the description is shared.
Dup2_NoClose(p, old, new) ==
  /\ Active(p)
  /\ fds[p][old] # None
  /\ old # new
  /\ tally' = [tally EXCEPT ![fds[p][old]] = @ + 1]
  /\ fds' = [fds EXCEPT ![p][new] = fds[p][old]]
  /\ UNCHANGED <<pipeVars, waitVars>>

Dup2(p, old, new) ==
  /\ Active(p)
  /\ fds[p][old] # None
  /\ old # new
  /\ LET closed == IF fds[p][new] = None THEN tally
                   ELSE [tally EXCEPT ![fds[p][new]] = @ - 1]
     IN  tally' = [closed EXCEPT ![fds[p][old]] = @ + 1]
  /\ fds' = [fds EXCEPT ![p][new] = fds[p][old]]
  /\ UNCHANGED <<pipeVars, waitVars>>

\* posix_kernel_dup, and dupfd with its least descriptor.
Dup(p, old, least) ==
  /\ Active(p)
  /\ fds[p][old] # None
  /\ Free(p, least) # {}
  /\ fds' = [fds EXCEPT ![p][Min(Free(p, least))] = fds[p][old]]
  /\ tally' = [tally EXCEPT ![fds[p][old]] = @ + 1]
  /\ UNCHANGED <<pipeVars, waitVars>>

\* fcntl F_SETFL; the flag belongs to the description.
SetNonblock(p, d) ==
  /\ Active(p)
  /\ fds[p][d] # None
  /\ nonblock' = [nonblock EXCEPT ![fds[p][d]] = ~@]
  /\ UNCHANGED <<fds, tally, buffer, sent, got, waitVars>>

\* Closing the descriptors D of p, one by one.
CloseSet(p, D) ==
  /\ fds' = [fds EXCEPT ![p] = [d \in Fds |-> IF d \in D THEN None ELSE fds[p][d]]]
  /\ tally' = [o \in Ofds |-> tally[o] - Cardinality(On(p, D, o))]

\* posix_kernel_close_on_exec; D is the set of descriptors marked FD_CLOEXEC.
\* commit_process_image keeps the kernel and its wait record.  Handlers are
\* reset, so a pending signal would be that of another disposition.
Exec(p, D) ==
  /\ Active(p)
  /\ phase[p] = "run"
  /\ ~sig[p]
  /\ CloseSet(p, D)
  /\ delivered' = [delivered EXCEPT ![p] = FALSE]
  /\ UNCHANGED <<pipeVars, wait, call, phase, sig>>

\* native_store_fork_process: posix_kernel_clone shares every description and
\* clears the wait record and the pending signals of the child.
Fork(p, c) ==
  /\ Active(p)
  /\ phase[p] = "run" /\ phase[c] = "dead"
  /\ fds' = [fds EXCEPT ![c] = fds[p]]
  /\ tally' = [o \in Ofds |-> tally[o] + Cardinality(On(p, Fds, o))]
  /\ phase' = [phase EXCEPT ![c] = "run"]
  /\ UNCHANGED <<pipeVars, wait, call, sig, delivered>>

\* Exit, or death by signal in any phase: posix_kernel_close_all_fds.  The
\* exit of the last process ends the invocation and is not a step.
Exit(p) ==
  /\ phase[p] # "dead"
  /\ \A q \in Procs \ {p} : phase[q] # "handler"
  /\ \E q \in Procs \ {p} : phase[q] # "dead"
  /\ CloseSet(p, Fds)
  /\ wait' = [wait EXCEPT ![p] = None]
  /\ call' = [call EXCEPT ![p] = None]
  /\ phase' = [phase EXCEPT ![p] = "dead"]
  /\ sig' = [sig EXCEPT ![p] = FALSE]
  /\ delivered' = [delivered EXCEPT ![p] = FALSE]
  /\ UNCHANGED pipeVars

-----------------------------------------------------------------------------
(* Readiness.                                                              *)

\* posix_kernel_query_readiness on a pipe end.
Readable(o) == o[2] = "r" /\ (buffer[o[1]] # <<>> \/ tally[W(o[1])] = 0)
Writable(o) == o[2] = "w" /\ tally[R(o[1])] > 0 /\ Len(buffer[o[1]]) < Capacity
Broken(o) == o[2] = "w" /\ tally[R(o[1])] = 0

\* wait_sets_ready: a descriptor that was closed is skipped.
WaitSetsReady_NoHangup(p) ==
  \E d \in Fds :
    /\ fds[p][d] # None
    /\ \/ d \in wait[p].read /\ buffer[fds[p][d][1]] # <<>>
       \/ d \in wait[p].write /\ Writable(fds[p][d])
       \/ d \in wait[p].except /\ Broken(fds[p][d])

WaitSetsReady_NoSpace(p) ==
  \E d \in Fds :
    /\ fds[p][d] # None
    /\ \/ d \in wait[p].read /\ Readable(fds[p][d])
       \/ d \in wait[p].except /\ Broken(fds[p][d])

WaitSetsReady(p) ==
  \E d \in Fds :
    /\ fds[p][d] # None
    /\ \/ d \in wait[p].read /\ Readable(fds[p][d])
       \/ d \in wait[p].write /\ Writable(fds[p][d])
       \/ d \in wait[p].except /\ Broken(fds[p][d])

-----------------------------------------------------------------------------
(* How an import ends.                                                     *)

\* A return to the guest that leaves the wait record as it is.
ReturnOnly(p) ==
  /\ phase' = [phase EXCEPT ![p] = "run"]
  /\ call' = [call EXCEPT ![p] = None]
  /\ UNCHANGED <<wait, sig, delivered>>

\* posix_kernel_cancel_wait and a return to the guest.
Return(p) ==
  /\ phase' = [phase EXCEPT ![p] = "run"]
  /\ call' = [call EXCEPT ![p] = None]
  /\ wait' = [wait EXCEPT ![p] = None]
  /\ UNCHANGED <<sig, delivered>>

\* posix_kernel_signal_interrupt consumes the signal and cancels the wait.
\* guest_posix_deliver_signal takes its number and runs the handler inside c.
Interrupt(p, c) ==
  /\ phase' = [phase EXCEPT ![p] = "handler"]
  /\ call' = [call EXCEPT ![p] = c]
  /\ wait' = [wait EXCEPT ![p] = None]
  /\ sig' = [sig EXCEPT ![p] = FALSE]
  /\ delivered' = [delivered EXCEPT ![p] = FALSE]

\* EXEC_YIELD with wait record w.
Block(p, c, w) ==
  /\ phase' = [phase EXCEPT ![p] = "wait"]
  /\ call' = [call EXCEPT ![p] = c]
  /\ wait' = [wait EXCEPT ![p] = w]
  /\ UNCHANGED <<sig, delivered>>

-----------------------------------------------------------------------------
(* The imports.                                                            *)

\* The read end of a pipe.  kernel_wait_read keeps a record that is active.
Received_FromTail(k, n) == SubSeq(buffer[k], 1, Len(buffer[k]) - n)

Received(k, n) == SubSeq(buffer[k], n + 1, Len(buffer[k]))

Read(p, c) ==
  LET o == fds[p][c.fd]
      k == o[1]
  IN  IF o = None \/ o[2] = "w"                                    \* EBADF
      THEN ReturnOnly(p) /\ UNCHANGED pipeVars
      ELSE IF buffer[k] # <<>>
      THEN LET n == Min({c.count, Len(buffer[k])})
           IN  /\ buffer' = [buffer EXCEPT ![k] = Received(k, n)]
               /\ got' = [got EXCEPT ![k] = (@ + n) % Stamps]
               /\ Return(p)
               /\ UNCHANGED <<nonblock, sent>>
      ELSE /\ UNCHANGED pipeVars
           /\ IF tally[W(k)] = 0 THEN ReturnOnly(p)                \* end of file
              ELSE IF nonblock[o] THEN Return(p)                   \* EAGAIN
              ELSE IF sig[p] THEN Interrupt(p, c)                  \* EINTR
              ELSE Block(p, c, IF wait[p] # None THEN wait[p]
                               ELSE [read |-> {c.fd}, write |-> {}, except |-> {}, timed |-> FALSE])

\* The write end.  The wait is registered by posix_kernel_select, which
\* replaces the interests of an active record and keeps its deadline.  The
\* adapter returns EINTR without guest_posix_deliver_signal.
Sent(k, n) == [i \in 1 .. n |-> (sent[k] + i - 1) % Stamps]

MustWait(o, n) ==
  LET avail == Capacity - Len(buffer[o[1]])
  IN  avail = 0 \/ (nonblock[o] /\ n <= Capacity /\ n > avail)

\* A blocking write that does not fit is short.
Accepted(k, n) == Min({n, Capacity - Len(buffer[k])})

Write(p, c) ==
  LET o == fds[p][c.fd]
      k == o[1]
  IN  IF o = None \/ o[2] = "r" \/ tally[R(k)] = 0                 \* EBADF, EPIPE
      THEN ReturnOnly(p) /\ UNCHANGED pipeVars
      ELSE IF ~MustWait(o, c.count)
      THEN LET n == Accepted(k, c.count)
           IN  /\ buffer' = [buffer EXCEPT ![k] = @ \o Sent(k, n)]
               /\ sent' = [sent EXCEPT ![k] = (@ + n) % Stamps]
               /\ Return(p)
               /\ UNCHANGED <<nonblock, got>>
      ELSE /\ UNCHANGED pipeVars
           /\ IF nonblock[o] THEN Return(p)                        \* EAGAIN
              ELSE IF sig[p]                                       \* EINTR
              THEN /\ phase' = [phase EXCEPT ![p] = "run"]
                   /\ call' = [call EXCEPT ![p] = None]
                   /\ wait' = [wait EXCEPT ![p] = None]
                   /\ sig' = [sig EXCEPT ![p] = FALSE]
                   /\ delivered' = [delivered EXCEPT ![p] = TRUE]
              ELSE Block(p, c, [read |-> {}, write |-> {c.fd}, except |-> {c.fd},
                                timed |-> wait[p] # None /\ wait[p].timed])

\* kernel_select_core, on the first call and after a wake-up.
SelectReady(p, c) ==
  \/ \E d \in c.read : Readable(fds[p][d])
  \/ \E d \in c.write : Writable(fds[p][d])

Select(p, c) ==
  /\ UNCHANGED pipeVars
  /\ IF sig[p] THEN Interrupt(p, c)                                \* EINTR
     ELSE IF \/ \E d \in c.read \cup c.write : fds[p][d] = None    \* EBADF
             \/ SelectReady(p, c)
             \/ c.timeout = "zero"
     THEN Return(p)
     ELSE Block(p, c, [read |-> c.read, write |-> c.write, except |-> {},
                       timed |-> IF wait[p] # None THEN wait[p].timed
                                 ELSE c.timeout = "some"])

Import(p, c) ==
  CASE c.op = "read"   -> Read(p, c)
    [] c.op = "write"  -> Write(p, c)
    [] c.op = "select" -> Select(p, c)

\* The guest calls an import.
Enter(p, c) ==
  /\ Active(p)
  /\ phase[p] = "run"
  /\ Import(p, c)
  /\ UNCHANGED <<fds, tally>>

\* posix_kernel_wait_poll finds the record ready, a signal pending or the
\* deadline passed: the driver resumes p, and the saved call chain calls the
\* import again.  A select whose deadline passed returns zero.
WaitPoll_NoTimeout(p) == sig[p] \/ WaitSetsReady(p)

WaitPoll(p) == sig[p] \/ WaitSetsReady(p) \/ wait[p].timed

Resume(p) ==
  /\ phase[p] = "wait"
  /\ \A q \in Procs : phase[q] # "handler"
  /\ wait[p] # None
  /\ WaitPoll(p)
  /\ IF sig[p] \/ WaitSetsReady(p)
     THEN Import(p, call[p])
     ELSE Return(p) /\ UNCHANGED pipeVars
  /\ UNCHANGED <<fds, tally>>

\* The loop of guest_posix_deliver_signal runs the handler of a signal that
\* came while the last one ran.
HandlerAgain(p) ==
  /\ phase[p] = "handler"
  /\ sig[p]
  /\ sig' = [sig EXCEPT ![p] = FALSE]
  /\ UNCHANGED <<fds, tally, pipeVars, wait, call, phase, delivered>>

\* The handlers returned: EINTR, or on from the checkpoint.
HandlerReturns(p) ==
  /\ phase[p] = "handler"
  /\ ~sig[p]
  /\ ReturnOnly(p)
  /\ UNCHANGED <<fds, tally, pipeVars>>

\* All of them had SA_RESTART: read is repeated, select never is.
HandlerRestarts(p) ==
  /\ phase[p] = "handler"
  /\ ~sig[p]
  /\ call[p] # None /\ call[p].op = "read"
  /\ Read(p, call[p])
  /\ UNCHANGED <<fds, tally>>

\* guest_posix_poll_signal: a running process takes the signal at an opcode
\* checkpoint, unless a wait record is active.
Checkpoint(p) ==
  /\ Active(p)
  /\ phase[p] = "run"
  /\ wait[p] = None
  /\ sig[p]
  /\ Interrupt(p, None)
  /\ UNCHANGED <<fds, tally, pipeVars>>

\* A caught signal is raised for p: kill by a process, or the alarm of p.
Signal(p) ==
  /\ p \in Signalled
  /\ phase[p] # "dead"
  /\ ~sig[p]
  /\ sig' = [sig EXCEPT ![p] = TRUE]
  /\ UNCHANGED <<fds, tally, pipeVars, wait, call, phase, delivered>>

Next ==
  \E p \in Procs :
    \/ \E k \in Pipes : Pipe(p, k)
    \/ \E d \in Fds : Close(p, d)
    \/ \E d, e \in Fds : Dup2(p, d, e)
    \/ \E d, e \in Fds : Dup(p, d, e)
    \/ \E d \in Fds : SetNonblock(p, d)
    \/ \E D \in SUBSET Fds : Exec(p, D)
    \/ \E c \in Procs : Fork(p, c)
    \/ Exit(p)
    \/ \E c \in Requests : Enter(p, c)
    \/ Resume(p)
    \/ HandlerAgain(p)
    \/ HandlerReturns(p)
    \/ HandlerRestarts(p)
    \/ Checkpoint(p)
    \/ Signal(p)

Spec == Init /\ [][Next]_vars

\* process_schedule visits the slots round-robin whenever a process gives up
\* the engine, so a waiter that is ready again and again is resumed.  Handlers
\* are assumed to return, and their signals to stop.
Fairness ==
  \A p \in Procs : /\ SF_vars(Resume(p))
                   /\ WF_vars(HandlerAgain(p))
                   /\ SF_vars(HandlerReturns(p))

FairSpec == Spec /\ Fairness

-----------------------------------------------------------------------------
(* Properties.                                                             *)

\* The reader and writer tallies that decide end of file and EPIPE count the
\* descriptors of all processes, through every pipe, dup, dup2 onto the same
\* pipe, fork, close, exec and exit ("track open descriptors, not OFD
\* objects").  Every variable has its type; a buffer keeps to its capacity.
TallyExact ==
  /\ TypeOK
  /\ \A o \in Ofds :
       tally[o] = Cardinality({x \in Procs \X Fds : fds[x[1]][x[2]] = o})

\* The buffer holds exactly the bytes written and not yet read, in the order
\* they were written, whatever mix of short reads, short writes and sharing
\* processes moved them.
BytesInOrder ==
  \A k \in Pipes :
    buffer[k] = [i \in 1 .. (sent[k] - got[k]) % Stamps |-> (got[k] + i - 1) % Stamps]

\* What kernel.h says of posix_kernel_wait_read: a blocked read is registered
\* for the descriptor it reads.
ReadRegistered ==
  \A p \in Procs :
    phase[p] = "wait" /\ call[p].op = "read" => call[p].fd \in wait[p].read

\* A caught signal that a blocking call consumed runs its handler: the guest
\* never goes on with the number still in kernel->delivered_signal.
CaughtSignalRuns == \A p \in Procs : phase[p] = "run" => ~delivered[p]

\* The blocked call of p is registered for a descriptor that is ready now.
CallReady(p) ==
  /\ phase[p] = "wait"
  /\ CASE call[p].op = "read"   -> /\ call[p].fd \in wait[p].read
                                   /\ Readable(fds[p][call[p].fd])
       [] call[p].op = "write"  -> /\ call[p].fd \in wait[p].write
                                   /\ ~MustWait(fds[p][call[p].fd], call[p].count)
       [] call[p].op = "select" -> SelectReady(p, call[p])

\* No lost wake-up: a call that waits for a descriptor is resumed when the
\* descriptor becomes ready, unless another process takes the bytes or the
\* space first.
NoLostWakeup ==
  \A p \in Procs : CallReady(p) ~> (phase[p] # "wait" \/ ~CallReady(p))

\* A call that is registered and blocked on one end of a pipe is ready to be
\* resumed once the last descriptor of the other end is gone: no order of forks,
\* closes, execs and exits leaves it waiting for nobody.
HangupWakes ==
  \A p \in Procs, k \in Pipes :
    phase[p] = "wait" /\ call[p].op # "select" =>
      LET o == fds[p][call[p].fd]
          gone(end) == \A q \in Procs, d \in Fds : fds[q][d] # <<k, end>>
      IN  /\ o = R(k) /\ call[p].fd \in wait[p].read /\ gone("w") => WaitPoll(p)
          /\ o = W(k) /\ call[p].fd \in wait[p].write /\ gone("r") => WaitPoll(p)

\* A select with a deadline comes back, with descriptors, with a signal or with
\* zero, also when its descriptors never become ready.
TimedSelectReturns ==
  \A p \in Procs : (phase[p] = "wait" /\ wait[p].timed) ~> phase[p] # "wait"
=============================================================================
