----------------------------- MODULE Processes ------------------------------
(***************************************************************************)
(* The process table of engine/process.c and the driver of                 *)
(* engine/process_driver.c that runs one process at a time: fork, exit,    *)
(* exec, signals, waitpid, the slot-order scheduler and the return to the  *)
(* platform adapter when nothing can run.                                  *)
(*                                                                         *)
(* Guest code runs in the active process only, so its imports are atomic.  *)
(* A process is an application image or, after an exec of a WAST command,  *)
(* a handler run by the driver.  What a guest signal handler does is left  *)
(* out: it returns.  Reads stand for every wait on a descriptor: input     *)
(* comes from outside.                                                     *)
(***************************************************************************)
EXTENDS Integers, FiniteSets, FiniteSetsExt

CONSTANTS NumSlots,  \* NATIVE_PROCESS_MAX
          MaxPid,    \* bound on the process identifiers handed out
          Signals,   \* signal numbers in use
          Caught,    \* signals that guests change the action of
          Actions,   \* the actions they give them
          Masks,     \* signal masks that guests set
          Codes,     \* exit codes
          Targets,   \* the pid arguments of waitpid
          Commands,  \* what guests exec: {"image", "handler"}, or less
          Outside,   \* whether signals come from outside the sandbox
          None

Root == 1            \* driver->invocation_pid
SIGKILL == 9
SIGCHLD == 17
Quiet == {SIGCHLD}   \* ignored under the default action

ASSUME SlotAssumption == NumSlots \in Nat \ {0} /\ MaxPid \in Nat \ {0}
ASSUME SignalAssumption ==
  /\ Signals \subseteq 1 .. 64 /\ SIGCHLD \in Signals
  /\ Caught \subseteq Signals \ {SIGKILL}
  /\ Masks \subseteq SUBSET (Signals \ {SIGKILL})
ASSUME TargetAssumption == Targets \subseteq -1 .. MaxPid
ASSUME GuestAssumption ==
  Actions \subseteq {"default", "ignore", "catch", "restart"} /\ Codes \subseteq 0 .. 255
ASSUME SwitchAssumption == Commands \subseteq {"image", "handler"} /\ Outside \in BOOLEAN

Slots == 0 .. NumSlots - 1
Pids == 1 .. MaxPid

VARIABLES
  table,     \* store->processes: a process in every slot in use, else None
  active,    \* the slot of store->active_pid
  phase,     \* "check" at the head of the driver's loop, "run" in the process,
             \* "yield" back in the platform adapter, or how the invocation ended
  nextPid,   \* store->next_pid
  lastWait,  \* store->last_wait_pid and last_wait_status, None before any reap
  forks,     \* driver->forks
  exits,     \* driver->child_exits
  died,      \* history: every death, with the status at that moment
  told       \* history: every status waitpid has handed to a guest

vars == <<table, active, phase, nextPid, lastWait, forks, exits, died, told>>

Statuses == [how : {"exit"}, code : Codes] \cup [how : {"signal"}, code : Signals]
Dispositions == {"default", "ignore", "catch", "restart"}
Ends == {"exited", "signaled", "stall", "gone", "broken", "full"}

Process ==
  [pid : Pids, ppid : Pids \cup {0}, zombie : BOOLEAN, status : Statuses \cup {None},
   kind : {"app", "handler"}, pend : SUBSET Signals, mask : SUBSET Signals,
   disp : [Signals -> Dispositions],
   call : {"none", "fork", "waitpid", "read"},  \* the import to be retried
   target : -1 .. MaxPid,                       \* capsule->wait_pid
   wait : {"none", "waitpid", "read"},          \* capsule->wait_reason
   input : BOOLEAN]                             \* what it waits for is readable

ASSUME NoneAssumption == None \notin Process

TypeOK ==
  /\ table \in [Slots -> Process \cup {None}]
  /\ active \in Slots /\ table[active] # None
  /\ phase \in {"check", "run", "yield"} \cup Ends
  /\ nextPid \in 2 .. MaxPid + 1
  /\ lastWait \in [pid : Pids, status : Statuses] \cup {None}
  /\ forks \in 0 .. MaxPid /\ exits \in 0 .. forks
  /\ died \subseteq [pid : Pids, to : Pids \cup {0}, status : Statuses]
  /\ told \subseteq [pid : Pids, to : Pids, status : Statuses]

(* A process with nothing set. *)
Fresh(pid, ppid) ==
  [pid |-> pid, ppid |-> ppid, zombie |-> FALSE, status |-> None, kind |-> "app",
   pend |-> {}, mask |-> {}, disp |-> [s \in Signals |-> "default"], call |-> "none",
   target |-> -1, wait |-> "none", input |-> FALSE]

(* The store after native_process_driver_start: one application, pid 1. *)
Init ==
  /\ table = [i \in Slots |-> IF i = 0 THEN Fresh(Root, 0) ELSE None]
  /\ active = 0 /\ phase = "check" /\ nextPid = 2
  /\ lastWait = None /\ forks = 0 /\ exits = 0
  /\ died = {} /\ told = {}

-----------------------------------------------------------------------------
(* Signals of one process. *)

Unmasked(p) == p.pend \ p.mask
Fatal(p) == {s \in Unmasked(p) : p.disp[s] = "default" /\ s \notin Quiet}

(* posix_kernel_signal_raise. *)
Raised(p, s) ==
  IF p.disp[s] = "ignore" \/ (p.disp[s] = "default" /\ s \in Quiet)
    THEN p ELSE [p EXCEPT !.pend = @ \cup {s}]

(* The signals one delivery takes: guest_posix_deliver_signal drains an
   application, and hands anything else a single notification. *)
Taken(p) ==
  IF p.kind = "app" \/ Unmasked(p) = {} THEN Unmasked(p) ELSE {Min(Unmasked(p))}

Delivered(p) == [p EXCEPT !.pend = @ \ Taken(p)]
Restarts(p) == \A s \in Taken(p) : p.disp[s] = "restart"

-----------------------------------------------------------------------------
(* The table. *)

Used(t) == {i \in Slots : t[i] # None}
Live(t) == {i \in Used(t) : ~t[i].zombie}
Children(t, p, target) ==
  {i \in Used(t) : t[i].ppid = p.pid /\ (target > 0 => t[i].pid = target)}
Zombies(t, p, target) == {i \in Children(t, p, target) : t[i].zombie}

(* native_process_notify_exit. *)
Notified(t, ppid) ==
  [i \in Slots |-> IF i \in Live(t) /\ t[i].pid = ppid THEN Raised(t[i], SIGCHLD) ELSE t[i]]

(* What the table keeps of a process that ended.  Of its kernel only the paths
   are still read, so its signals are forgotten. *)
Corpse(p, status) ==
  [Fresh(p.pid, p.ppid) EXCEPT !.zombie = TRUE, !.status = status, !.kind = p.kind]

(* The end of a process: exit_process, terminate_process, signal_process. *)
Dead(t, i, status) == Notified([t EXCEPT ![i] = Corpse(@, status)], t[i].ppid)

Exited(code) == [how |-> "exit", code |-> code]
Killed(s) == [how |-> "signal", code |-> s]

(* Any default signal terminates at once, also the process being run. *)
Felled_EvenSelected(t, i, s) ==
  LET q == Raised(t[i], s) IN s \in Fatal(q) /\ s = Min(Fatal(q))

(* The signal ends the live process i: an application that is selected keeps
   it pending for its own checkpoint. *)
Felled(t, i, s) ==
  LET q == Raised(t[i], s)
  IN  s \in Fatal(q) /\ s = Min(Fatal(q)) /\ ~(i = active /\ q.kind = "app")

(* native_store_signal_process on a live process. *)
SignalProcess(t, i, s) ==
  LET u == [t EXCEPT ![i] = Raised(@, s)]
  IN  IF Felled(t, i, s) THEN Dead(u, i, Killed(s)) ELSE u

(* Only the child that was being run is counted. *)
CountExits_SelectedOnly(t) == exits + Cardinality({i \in {active} : t[i].zombie /\ t[i].pid # Root})

(* process_driver_count_exits. *)
CountExits(t) ==
  LET live == Cardinality({i \in Live(t) : t[i].pid # Root})
  IN  IF forks >= live THEN forks - live ELSE 0

-----------------------------------------------------------------------------
(* The scheduler. *)

(* A waiting parent looks at signals only. *)
WaitReady_SignalsOnly(t, i) ==
  \/ t[i].wait = "none"
  \/ Unmasked(t[i]) # {}
  \/ t[i].wait = "read" /\ t[i].input

(* Children are looked at, pending signals are not. *)
WaitReady_ChildrenOnly(t, i) ==
  \/ t[i].wait = "none"
  \/ t[i].wait = "waitpid" /\ (Zombies(t, t[i], t[i].target) # {} \/ Children(t, t[i], t[i].target) = {})
  \/ t[i].wait = "read" /\ t[i].input

(* process_wait_ready. *)
WaitReady(t, i) ==
  \/ t[i].wait = "none"
  \/ Unmasked(t[i]) # {}
  \/ t[i].wait = "waitpid" /\ (Zombies(t, t[i], t[i].target) # {} \/ Children(t, t[i], t[i].target) = {})
  \/ t[i].wait = "read" /\ t[i].input

Ready(t) == {i \in Live(t) : WaitReady(t, i)}
Blocked(t) == {i \in Live(t) : t[i].wait = "read"}

(* The first ready slot from `first' on, in slot order, wrapping around. *)
Pick(t, first) ==
  CHOOSE i \in Ready(t) : \A j \in Ready(t) : (i - first) % NumSlots <= (j - first) % NumSlots

(* process_schedule: run what is ready, else publish a wait that something
   outside ends (which one depends on descriptors and deadlines). *)
Schedule(t, first) ==
  \/ /\ Ready(t) # {}
     /\ table' = [t EXCEPT ![Pick(t, first)].wait = "none"]
     /\ active' = Pick(t, first) /\ phase' = "check"
  \/ /\ Ready(t) = {}
     /\ active' \in Blocked(t)
     /\ table' = t /\ phase' = "yield"
  \/ /\ Ready(t) = {} /\ Blocked(t) = {}
     /\ table' = t /\ phase' = "stall" /\ UNCHANGED active

(* The driver after the active process ended, its end recorded in t: the
   invocation returns with the root, any other end schedules. *)
Leave(t, end) ==
  /\ exits' = CountExits(t)
  /\ \/ t[active].pid = Root /\ table' = t /\ phase' = end /\ UNCHANGED active
     \/ t[active].pid # Root /\ Schedule(t, active + 1)

(* The driver after the active process yielded for a wait. *)
Block(t, wait, target) ==
  LET u == [t EXCEPT ![active] = [@ EXCEPT !.call = wait, !.wait = wait, !.target = target]]
  IN  exits' = CountExits(u) /\ Schedule(u, active + 1)

(* Back to guest code of the active process. *)
Continue(t) ==
  /\ table' = [t EXCEPT ![active].call = "none", ![active].target = -1]
  /\ UNCHANGED <<active, phase, exits>>

(* native_store_terminate_process, for a default action. *)
Terminate(t) == Leave(Dead(t, active, Killed(Min(Fatal(t[active])))), "signaled")

-----------------------------------------------------------------------------
(* The head of the driver's loop and the checkpoints of the evaluator. *)

P == table[active]
pidVars == <<nextPid, forks>>
waitVars == <<lastWait, told>>

(* exec_execution_check at the head of native_process_driver_invoke's loop. *)
Check ==
  /\ phase = "check"
  /\ \/ /\ P.kind = "app" /\ Fatal(P) # {}
        /\ Terminate(table)
     \/ /\ P.kind = "handler" \/ Fatal(P) = {}
        /\ phase' = "run" /\ UNCHANGED <<table, active, exits>>
  /\ UNCHANGED <<pidVars, waitVars>>

Runs == phase = "run" /\ ~P.zombie
Computes == Runs /\ P.call = "none"

(* Every 4096 opcodes of an application: a fatal signal ends it, and what is
   deliverable is delivered unless a suspended call is being re-entered. *)
Checkpoint ==
  /\ Runs /\ P.kind = "app" /\ Unmasked(P) # {}
  /\ \/ Fatal(P) # {} /\ Terminate(table)
     \/ Fatal(P) = {} /\ P.call = "none" /\ Continue([table EXCEPT ![active] = Delivered(@)])
  /\ UNCHANGED <<pidVars, waitVars>>

(* The quantum ends, at a checkpoint that has nothing left to deliver: select
   the next process, but let the adapter drain its events before it runs. *)
Pump ==
  /\ Computes /\ (P.kind = "app" => Unmasked(P) = {})
  /\ exits' = CountExits(table)
  /\ active' = Pick(table, active + 1)
  /\ table' = [table EXCEPT ![Pick(table, active + 1)].wait = "none"]
  /\ phase' = "yield"
  /\ UNCHANGED <<pidVars, waitVars>>

-----------------------------------------------------------------------------
(* Process calls of the active process. *)

(* guest_posix_fork and the end of native_process_driver_invoke: the child
   takes the lowest free slot and runs first; a full table ends the invocation. *)
Fork ==
  /\ Computes /\ P.kind = "app" /\ nextPid <= MaxPid
  /\ exits' = CountExits(table)
  /\ \/ /\ Used(table) # Slots
        /\ LET free == Min(Slots \ Used(table))
           IN  /\ table' = [table EXCEPT
                     ![active].call = "fork",
                     ![free] = [P EXCEPT !.pid = nextPid, !.ppid = P.pid, !.pend = {},
                                         !.call = "fork", !.input = FALSE]]
               /\ active' = free
        /\ phase' = "check" /\ nextPid' = nextPid + 1 /\ forks' = forks + 1
     \/ /\ Used(table) = Slots
        /\ phase' = "full" /\ UNCHANGED <<table, active, pidVars>>
  /\ UNCHANGED waitVars

(* The call of fork entered again, with its result pending. *)
ForkReturns ==
  /\ Runs /\ P.call = "fork"
  /\ Continue(table)
  /\ UNCHANGED <<pidVars, waitVars>>

(* A report of a child's status to the active process. *)
Report(pid, status) ==
  /\ lastWait' = [pid |-> pid, status |-> status]
  /\ told' = told \cup {[pid |-> pid, to |-> P.pid, status |-> status]}

(* guest_posix_waitpid_common with native_store_wait_process. *)
WaitOn(target, nohang) ==
  LET z == Zombies(table, P, target)
      pending == Unmasked(P) # {} /\ ~nohang
      u == IF pending THEN [table EXCEPT ![active] = Delivered(@)] ELSE table
  IN  \/ /\ z # {}
         /\ Report(table[Min(z)].pid, table[Min(z)].status)
         /\ Continue([table EXCEPT ![Min(z)] = None])
      \/ /\ Children(table, P, target) = {}
         /\ IF target = 0 /\ lastWait # None
              THEN Report(lastWait.pid, lastWait.status) ELSE UNCHANGED waitVars
         /\ Continue(table)
      \/ /\ z = {} /\ Children(table, P, target) # {}
         /\ \/ nohang /\ Continue(table)
            \/ pending /\ Fatal(P) # {} /\ Terminate(table)
            \/ pending /\ Fatal(P) = {} /\ ~Restarts(P) /\ Continue(u)
            \/ ~nohang /\ (pending => Fatal(P) = {} /\ Restarts(P)) /\ Block(u, "waitpid", target)
         /\ UNCHANGED waitVars

WaitPid ==
  /\ Computes /\ P.kind = "app"
  /\ \E target \in Targets, nohang \in BOOLEAN : WaitOn(target, nohang)
  /\ UNCHANGED pidVars

WaitRetry_Stale ==
  /\ Runs /\ P.call = "waitpid"
  /\ Block(table, "waitpid", P.target)
  /\ UNCHANGED <<pidVars, waitVars>>

WaitRetry ==
  /\ Runs /\ P.call = "waitpid"
  /\ WaitOn(P.target, FALSE)
  /\ UNCHANGED pidVars

(* guest_posix_read on a descriptor that is not readable now. *)
Read ==
  /\ Runs /\ P.call \in {"none", "read"}
  /\ LET u == [table EXCEPT ![active] = Delivered(@)]
     IN  \/ P.input /\ Continue([table EXCEPT ![active].input = FALSE])
         \/ P.kind = "app" /\ Fatal(P) # {} /\ Terminate(table)
         \/ /\ Unmasked(P) # {} /\ (P.kind = "app" => Fatal(P) = {})
            /\ table' = [u EXCEPT ![active].call = IF Restarts(P) THEN "read" ELSE "none"]
            /\ UNCHANGED <<active, phase, exits>>
         \/ Unmasked(P) = {} /\ ~P.input /\ Block(table, "read", P.target)
  /\ UNCHANGED <<pidVars, waitVars>>

(* guest_posix_exit, or the return of an application's entry point. *)
Exit ==
  /\ Computes /\ P.kind = "app"
  /\ \E code \in Codes :
       Leave(IF P.pid = Root THEN table ELSE Dead(table, active, Exited(code)), "exited")
  /\ UNCHANGED <<pidVars, waitVars>>

-----------------------------------------------------------------------------
(* Signal and exec calls of the active process. *)

(* guest_posix_self_signal: an application takes its unblocked signals before
   the call returns. *)
SelfSignal(t) ==
  \/ t[active].kind = "app" /\ Fatal(t[active]) # {} /\ Terminate(t)
  \/ t[active].kind = "app" /\ Fatal(t[active]) = {} /\ Continue([t EXCEPT ![active] = Delivered(@)])
  \/ t[active].kind = "handler" /\ Continue(t)

(* native_store_signal_process_group: every live process (all are in one group
   until setpgid moves them).  The order of the slots makes no difference: the
   SIGCHLD that the end of one raises in another is fatal to none, and is
   forgotten where that one ends too. *)
SignalGroup(t, s) ==
  LET dead == {i \in Live(t) : Felled(t, i, s)}
      bereft == {t[i].ppid : i \in dead}
  IN  [i \in Slots |->
         IF i \notin Live(t) THEN t[i]
         ELSE IF i \in dead THEN Corpse(t[i], Killed(s))
         ELSE IF t[i].pid \in bereft THEN Raised(Raised(t[i], s), SIGCHLD)
         ELSE Raised(t[i], s)]

(* A signal reaches processes that are already dead. *)
Signalled_Dead(s) == {SignalProcess(table, i, s) : i \in Used(table)} \cup {SignalGroup(table, s)}

(* What a signal to one live process, or to the group, can make of the table. *)
Signalled(s) == {SignalProcess(table, i, s) : i \in Live(table)} \cup {SignalGroup(table, s)}

(* guest_posix_kill, to a process or to the group. *)
Kill ==
  /\ Computes
  /\ \E s \in Signals : \E t \in Signalled(s) : SelfSignal(t)
  /\ UNCHANGED <<pidVars, waitVars>>

(* guest_posix_sigprocmask with a new mask. *)
SetMask ==
  /\ Computes
  /\ \E m \in Masks : SelfSignal([table EXCEPT ![active].mask = m])
  /\ UNCHANGED <<pidVars, waitVars>>

(* guest_posix_sigaction: ignoring a signal drops it where it is pending. *)
Sigaction ==
  /\ Computes
  /\ \E s \in Caught, d \in Actions :
       Continue([table EXCEPT ![active].disp[s] = d,
                              ![active].pend = IF d = "ignore" THEN @ \ {s} ELSE @])
  /\ UNCHANGED <<pidVars, waitVars>>

(* posix_kernel_signal_exec. *)
SignalExec(p) ==
  LET caught == {s \in Signals : p.disp[s] \in {"catch", "restart"}}
  IN  [p EXCEPT !.disp = [s \in Signals |-> IF s \in caught THEN "default" ELSE @[s]],
                !.pend = @ \ (caught \cap Quiet)]

(* execve of an image: native_store_commit_process_image. *)
ExecImage ==
  /\ "image" \in Commands /\ Computes /\ P.kind = "app"
  /\ table' = [table EXCEPT ![active] = SignalExec(@)]
  /\ phase' = "check"
  /\ UNCHANGED <<active, exits, pidVars, waitVars>>

(* execve of a WAST command: native_store_commit_process_handler_with_context. *)
ExecHandler ==
  /\ "handler" \in Commands /\ Computes /\ P.kind = "app"
  /\ table' = [table EXCEPT ![active].kind = "handler"]
  /\ phase' = "check"
  /\ UNCHANGED <<active, exits, pidVars, waitVars>>

(* The handler's script is done, or it waits again: a child that a signal has
   killed meanwhile can neither complete nor be suspended, which ends the
   invocation. *)
HandlerDone ==
  /\ phase = "run" /\ P.kind = "handler" /\ P.call = "none"
  /\ \E code \in Codes :
       \/ P.pid = Root /\ Leave(table, "exited")
       \/ /\ P.pid # Root /\ ~P.zombie
          /\ Leave(Dead(table, active, Exited(code)), "exited")
       \/ /\ P.pid # Root /\ P.zombie
          /\ phase' = "broken" /\ UNCHANGED <<table, active, exits>>
  /\ UNCHANGED <<pidVars, waitVars>>

-----------------------------------------------------------------------------
(* The platform adapter and what is outside. *)

(* session_invoke, waste_wast_resume: go on with the process selected. *)
Resume ==
  /\ phase = "yield"
  /\ \/ P.zombie /\ phase' = "gone" /\ UNCHANGED <<table, active>>
     \/ ~P.zombie /\ P.wait # "none" /\ Schedule(table, active)
     \/ ~P.zombie /\ P.wait = "none" /\ phase' = "check" /\ UNCHANGED <<table, active>>
  /\ UNCHANGED <<exits, pidVars, waitVars>>

(* Input for a waiting process: from the terminal, or from another process. *)
InputArrives ==
  /\ phase \in {"run", "yield"}
  /\ \E i \in Blocked(table) : table' = [table EXCEPT ![i].input = TRUE]
  /\ UNCHANGED <<active, phase, exits, pidVars, waitVars>>

(* A signal from outside: to the foreground group when the evaluator polls its
   control, to a process or the group while the adapter waits. *)
ExternalSignal ==
  /\ Outside
  /\ \E s \in Signals :
       \/ phase = "run" /\ table' = SignalGroup(table, s)
       \/ phase = "yield" /\ table' \in Signalled(s)
  /\ UNCHANGED <<active, phase, exits, pidVars, waitVars>>

(* A control record without a process: the kernel of the selected process. *)
ExternalRaise ==
  /\ Outside /\ phase = "yield"
  /\ \E s \in Signals : table' = [table EXCEPT ![active] = Raised(@, s)]
  /\ UNCHANGED <<active, phase, exits, pidVars, waitVars>>

(* History: who died in this step, and how. *)
Recorded ==
  died' = died \cup
    {[pid |-> table'[i].pid, to |-> table'[i].ppid, status |-> table'[i].status] :
       i \in {j \in Used(table') : table'[j].zombie /\ j \in Live(table)}}

Step ==
  \/ Check \/ Checkpoint \/ Pump
  \/ Fork \/ ForkReturns \/ WaitPid \/ WaitRetry \/ Read \/ Exit
  \/ Kill \/ SetMask \/ Sigaction \/ ExecImage \/ ExecHandler \/ HandlerDone
  \/ Resume \/ InputArrives \/ ExternalSignal \/ ExternalRaise

Next == Step /\ Recorded

Spec == Init /\ [][Next]_vars

(* The driver's loop and the adapter go on, and signals from outside come to
   an end.  The countdown to a checkpoint belongs to the store and outlives an
   exec, so the quantum of a computing process ends: strong fairness. *)
FairSpec ==
  /\ Spec
  /\ WF_vars(Check /\ Recorded) /\ WF_vars(Resume /\ Recorded) /\ SF_vars(Pump /\ Recorded)
  /\ WF_vars(ForkReturns /\ Recorded) /\ WF_vars(WaitRetry /\ Recorded)
  /\ WF_vars(P.call = "read" /\ Read /\ Recorded)
  /\ WF_vars(Checkpoint /\ Recorded) /\ WF_vars(HandlerDone /\ Recorded)
  /\ <>[][~ExternalSignal /\ ~ExternalRaise]_vars

-----------------------------------------------------------------------------
(* Properties. *)

(* What waitpid tells a guest is the way the child really ended the first
   time it died, and it is told to the parent alone. *)
StatusTrue == told \subseteq died

(* The scheduler runs out of processes only when the root is dead: as long as
   it lives, somebody is ready or waits for something outside. *)
StallOnlyRootless ==
  phase = "stall" => \A i \in Used(table) : table[i].pid = Root => table[i].zombie

(* When the invocation ends, the driver has counted every child that died,
   reaped or not, selected or not. *)
ExitsCounted ==
  phase \in {"exited", "signaled"} => exits = Cardinality({d \in died : d.pid # Root})

(* While the invocation goes on, the process selected is alive, unless it is
   run by a handler: the evaluator never runs guest code of a dead image.
   Every variable has its type. *)
SelectedAppAlive ==
  /\ TypeOK
  /\ phase \in {"check", "run", "yield"} /\ P.zombie => P.kind = "handler"

(* A parent in waitpid whose child is dead, or whose children are gone, does
   not stay there. *)
WaiterReturns ==
  \A i \in Slots :
    i \in Live(table) /\ table[i].call = "waitpid"
        /\ Zombies(table, table[i], table[i].target) # {}
      ~> (phase \in Ends \/ i \notin Live(table) \/ table[i].call # "waitpid")

(* A signal an application does not block is taken, or the application ends. *)
SignalTaken ==
  \A i \in Slots, s \in Signals :
    i \in Live(table) /\ table[i].kind = "app" /\ s \in Unmasked(table[i])
      ~> (phase \in Ends \/ i \notin Live(table) \/ s \notin Unmasked(table[i])
            \/ table[i].kind = "handler")

(* A handler that a signal kills takes the normal exit path: its death does
   not end the whole invocation. *)
HandlerDeathContained == phase \notin {"gone", "broken"}

(* No image or handler starts with an action that its predecessor caught. *)
ExecResetsCaught ==
  [][\A i \in Live(table) : i \in Live(table') /\ table'[i].kind = "handler"
        /\ table[i].kind = "app"
        => \A s \in Signals : table'[i].disp[s] \in {"default", "ignore"}]_vars
=============================================================================
