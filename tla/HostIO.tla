------------------------------- MODULE HostIO --------------------------------
(***************************************************************************)
(* The interactive shell of html-rt: the page (app.js), the shell's worker *)
(* (the loop of run() and onmessage in worker.js) and the one host-I/O     *)
(* slot of the engine (guest_posix.c, browser_api.c), with the message     *)
(* queues between page and worker.                                         *)
(*                                                                         *)
(* An action is one task of a thread: a message, a timer or an event, with *)
(* the promise continuations that it settles.  A worker with work left in  *)
(* its task ("engine", "go") takes no message.  The guest is a shell that  *)
(* reads the terminal and the programs it runs, which make host calls.     *)
(*                                                                         *)
(* stop is not a message here: the page posts it and terminates the worker *)
(* in one task, which discards the worker and both of its queues.          *)
(***************************************************************************)
EXTENDS Integers, Sequences, FiniteSets

CONSTANTS MaxShells,    \* how many workers the page creates
          MaxStarting,  \* how many startShell calls await at a time
          MaxCalls,     \* host calls of the programs of a shell
          MaxEvents,    \* events that the page forwards to a shell
          Kinds         \* the host calls that programs make

Shells == 1 .. MaxShells
Tagged == {"suite", "render", "clipboard"}  \* the kinds whose requests carry an id
Events == {"key", "intr", "resize", "signal"}

ASSUME HostAssumption ==
  /\ MaxShells \in Nat \ {0} /\ MaxStarting \in Nat \ {0}
  /\ MaxCalls \in Nat /\ MaxEvents \in Nat
  /\ Kinds \subseteq Tagged \cup {"upload", "download"}

VARIABLES
  current,    \* worker of app.js: a shell, 0 for null
  starting,   \* the startShell calls that await
  made,       \* the workers created so far
  live,       \* live[w]: w exists and has not been terminated
  sent,       \* sent[w]: the events forwarded to w
  services,   \* what the page is doing for a worker: pickers, copies, batches
  toWorker, toPage,
  at,         \* at[w]: "boot", "engine", "go", "wait", "pump" or "over"
  js,         \* js[w]: the variables of worker.js
  guest,      \* guest[w]: the engine, its slot and its guest
  answer,     \* answer[w]: what a host call returned last, and whose reply it was
  killed      \* killed[w]: a signal has killed a program in a host call

page == <<current, starting, made, live, sent, services>>
vars == <<page, toWorker, toPage, at, js, guest, answer, killed>>

\* source is the request that the reply answers: its worker and its call.
Nobody == <<0, 0>>
NoSlot == [kind |-> "none", result |-> 0, source |-> Nobody]

\* The ids of the tagged requests are suite, render and clipboard; early holds
\* pendingResize, pendingInput and pendingSignals.
NewJs == [ready |-> FALSE, ioPending |-> FALSE, early |-> {}, sequence |-> 0,
          suite |-> 0, render |-> 0, clipboard |-> 0]

\* doing: a host call, "read" or "none"; number: the host calls so far.
NewGuest == [slot |-> NoSlot, doing |-> "none", number |-> 0, typed |-> FALSE, fatal |-> FALSE]

NoAnswer == [kind |-> "none", call |-> 0, ok |-> FALSE, source |-> Nobody]

Init ==
  /\ current = 0 /\ made = 0 /\ starting = 0
  /\ live = [w \in Shells |-> FALSE]
  /\ sent = [w \in Shells |-> 0]
  /\ services = {}
  /\ toWorker = [w \in Shells |-> <<>>] /\ toPage = [w \in Shells |-> <<>>]
  /\ at = [w \in Shells |-> "boot"]
  /\ js = [w \in Shells |-> NewJs]
  /\ guest = [w \in Shells |-> NewGuest]
  /\ answer = [w \in Shells |-> NoAnswer]
  /\ killed = [w \in Shells |-> FALSE]

-----------------------------------------------------------------------------
(* The worker: waitForIO, wakeIO and the loop of run().                    *)

Pending(j) == j.suite # 0 \/ j.render # 0 \/ j.clipboard # 0

Woken_Once(j) == "go"

\* The wait has been resolved: it is repeated while a tagged request is pending.
Woken(j) == IF Pending(j) THEN "wait" ELSE "go"

\* The loop reaches waitForIO; a wakeup that came earlier ends the wait.
AwaitIO(w, j) ==
  /\ js' = [js EXCEPT ![w] = [j EXCEPT !.ioPending = FALSE]]
  /\ at' = [at EXCEPT ![w] = IF j.ioPending THEN Woken(j) ELSE "wait"]

\* wakeIO, after the handler has set j.
WakeIO(w, j) ==
  /\ js' = [js EXCEPT ![w] = [j EXCEPT !.ioPending = @ \/ at[w] # "wait"]]
  /\ at' = [at EXCEPT ![w] = IF @ = "wait" THEN Woken(j) ELSE @]

Post(w, messages) == toPage' = [toPage EXCEPT ![w] = @ \o messages]

Ready_NoWake(j) ==
  [j EXCEPT !.ready = TRUE, !.early = {}]

\* The first yield: engineReady, flushPendingEvents and the message started.
Ready(j) ==
  [j EXCEPT !.ready = TRUE, !.early = {}, !.ioPending = @ \/ j.early # {}]

Started(w) == IF js[w].ready THEN <<>> ELSE << [type |-> "started"] >>

\* The engine takes events: a byte to read, or a signal whose default action
\* ends a program.
Take(g, events) ==
  [g EXCEPT !.typed = @ \/ "key" \in events,
            !.fatal = @ \/ events \cap {"intr", "signal"} # {}]

\* The engine yields for the terminal.
YieldRead(w) ==
  /\ guest' = [guest EXCEPT ![w] = [Take(@, js[w].early) EXCEPT !.doing = "read"]]
  /\ AwaitIO(w, Ready(js[w]))
  /\ Post(w, Started(w))
  /\ UNCHANGED <<answer, killed>>

\* The engine yields for an import that has put its request in the slot.  The
\* worker posts it; a download is complete once it is posted.
YieldHost(w, kind, number) ==
  LET j == Ready(js[w])
      id == IF kind \in Tagged THEN j.sequence + 1 ELSE 0
      slot == IF kind = "download" THEN [kind |-> kind, result |-> 1, source |-> <<w, number>>]
              ELSE [NoSlot EXCEPT !.kind = kind]
  IN /\ guest' = [guest EXCEPT ![w] =
           [Take(@, js[w].early) EXCEPT !.doing = kind, !.number = number, !.slot = slot]]
     /\ AwaitIO(w, IF kind \in Tagged THEN [j EXCEPT !.sequence = id, ![kind] = id]
                   ELSE [j EXCEPT !.ioPending = @ \/ kind = "download"])
     /\ Post(w, Append(Started(w), [type |-> kind, id |-> id, call |-> number]))
     /\ UNCHANGED <<answer, killed>>

\* The imports of the host calls, on the first call and whenever the engine
\* comes back to them: a reply in the slot is consumed, and a tagged call is
\* refused a slot in use, where a transfer takes it over.
Return(w, kind, number, slot, ok, source) ==
  /\ guest' = [guest EXCEPT ![w].slot = slot, ![w].doing = "none", ![w].number = number,
                            ![w].fatal = FALSE]
  /\ answer' = [answer EXCEPT ![w] = [kind |-> kind, call |-> number, ok |-> ok, source |-> source]]
  /\ at' = [at EXCEPT ![w] = "engine"]
  /\ UNCHANGED <<js, toPage, killed>>

Import(w, kind, number) ==
  LET slot == guest[w].slot
  IN IF slot.kind = kind /\ slot.result # 0
     THEN Return(w, kind, number, NoSlot, slot.result = 1, slot.source)
     ELSE IF kind \in Tagged /\ slot.kind # "none"
     THEN Return(w, kind, number, slot, FALSE, Nobody)
     ELSE YieldHost(w, kind, number)

\* start_shell: the guest runs before the worker takes another message.
Boot(w) ==
  /\ live[w] /\ at[w] = "boot"
  /\ at' = [at EXCEPT ![w] = "engine"]
  /\ UNCHANGED <<page, toWorker, toPage, js, guest, answer, killed>>

\* The guest runs until it yields or ends.
GuestReads(w) ==
  \/ ~guest[w].typed /\ YieldRead(w)
  \/ /\ guest[w].typed
     /\ guest' = [guest EXCEPT ![w].typed = FALSE]
     /\ UNCHANGED <<at, js, toPage, answer, killed>>

GuestPumps(w) ==
  /\ guest' = [guest EXCEPT ![w] = Take(@, js[w].early)]
  /\ js' = [js EXCEPT ![w] = Ready(@)]
  /\ Post(w, Started(w))
  /\ at' = [at EXCEPT ![w] = "pump"]
  /\ UNCHANGED <<answer, killed>>

GuestEnds(w) ==
  /\ js' = [js EXCEPT ![w] = Ready(@)]
  /\ Post(w, Append(Started(w), [type |-> "done"]))
  /\ at' = [at EXCEPT ![w] = "over"]
  /\ UNCHANGED <<guest, answer, killed>>

Engine(w) ==
  /\ live[w] /\ at[w] = "engine"
  /\ \/ GuestReads(w)
     \/ \E kind \in Kinds : guest[w].number < MaxCalls /\ Import(w, kind, guest[w].number + 1)
     \/ GuestPumps(w)
     \/ GuestEnds(w)
  /\ UNCHANGED <<page, toWorker>>

\* resume: the execution check ends a program that a signal kills before its
\* import runs again, and leaves the slot alone.
Killed(w) ==
  /\ guest[w].fatal /\ guest[w].doing \in Kinds
  /\ guest' = [guest EXCEPT ![w].doing = "none", ![w].fatal = FALSE]
  /\ killed' = [killed EXCEPT ![w] = TRUE]
  /\ at' = [at EXCEPT ![w] = "engine"]
  /\ UNCHANGED <<js, toPage, answer>>

\* The read goes on with what was typed or is interrupted by a signal.
ReadOn(w) ==
  /\ guest' = [guest EXCEPT ![w].doing = "none", ![w].typed = FALSE, ![w].fatal = FALSE]
  /\ at' = [at EXCEPT ![w] = "engine"]
  /\ UNCHANGED <<js, toPage, answer, killed>>

Resume(w) ==
  /\ live[w] /\ at[w] = "go"
  /\ LET g == guest[w]
     IN \/ Killed(w)
        \/ g.doing \in Kinds /\ Import(w, g.doing, g.number)
        \/ g.doing = "read" /\ ~g.typed /\ ~g.fatal /\ YieldRead(w)
        \/ g.doing = "read" /\ (g.typed \/ g.fatal) /\ ReadOn(w)
  /\ UNCHANGED <<page, toWorker>>

\* The timer of a pump, after which the guest goes on.
PumpTimer(w) ==
  /\ live[w] /\ at[w] = "pump"
  /\ at' = [at EXCEPT ![w] = "engine"]
  /\ guest' = [guest EXCEPT ![w].fatal = FALSE]
  /\ UNCHANGED <<page, toWorker, toPage, js, answer, killed>>

\* The deadline of a process while the shell reads.
WaitTimer(w) ==
  /\ live[w] /\ at[w] = "wait" /\ guest[w].doing = "read"
  /\ at' = [at EXCEPT ![w] = "go"]
  /\ UNCHANGED <<page, toWorker, toPage, js, guest, answer, killed>>

-----------------------------------------------------------------------------
(* onmessage of the worker.                                                *)

\* A reply fills the slot; bytes for which there is no room, or for a slot
\* that has a reply already, make it a refusal.
Fill(w, message) ==
  \E room \in BOOLEAN :
    LET taken == message.ok /\ (message.type # "clipboard" => room /\ guest[w].slot.result = 0)
    IN guest' = [guest EXCEPT ![w].slot.result = IF taken THEN 1 ELSE -1,
                              ![w].slot.source = message.source]

OnReply_NoRoomNoWake(w, message) ==
  LET kind == message.type
  IN IF \/ ~js[w].ready \/ guest[w].slot.kind # kind
        \/ kind \in Tagged /\ message.id # js[w][kind]
     THEN UNCHANGED <<at, js, guest>>
     ELSE /\ Fill(w, message)
          /\ IF guest'[w].slot.result = -1
             THEN js' = [js EXCEPT ![w] = IF kind \in Tagged THEN [@ EXCEPT ![kind] = 0] ELSE @] /\ UNCHANGED at
             ELSE WakeIO(w, IF kind \in Tagged THEN [js[w] EXCEPT ![kind] = 0] ELSE js[w])

\* The handlers of the four responses: a tagged one must have the pending id.
OnReply(w, message) ==
  LET kind == message.type
  IN IF \/ ~js[w].ready \/ guest[w].slot.kind # kind
        \/ kind \in Tagged /\ message.id # js[w][kind]
     THEN UNCHANGED <<at, js, guest>>
     ELSE /\ Fill(w, message)
          /\ WakeIO(w, IF kind \in Tagged THEN [js[w] EXCEPT ![kind] = 0] ELSE js[w])

\* Input, resize and signal.  Ctrl-C is taken out of the input of a shell that
\* waits for a batch, and cancels the batch.
OnEvent(w, type) ==
  \/ /\ ~js[w].ready
     /\ js' = [js EXCEPT ![w].early = @ \cup {type}]
     /\ UNCHANGED <<at, guest, toPage>>
  \/ /\ js[w].ready /\ type = "intr" /\ js[w].suite # 0
     /\ Post(w, << [type |-> "suiteCancel", id |-> js[w].suite] >>)
     /\ UNCHANGED <<at, js, guest>>
  \/ /\ js[w].ready /\ ~(type = "intr" /\ js[w].suite # 0)
     /\ guest' = [guest EXCEPT ![w] = Take(@, {type})]
     /\ WakeIO(w, js[w])
     /\ UNCHANGED toPage

OnMessage(w) ==
  /\ live[w] /\ toWorker[w] # <<>>
  /\ at[w] \in {"boot", "wait", "pump", "over"}
  /\ toWorker' = [toWorker EXCEPT ![w] = Tail(@)]
  /\ LET message == Head(toWorker[w])
     IN \/ message.type \in Events /\ OnEvent(w, message.type)
        \/ message.type \notin Events /\ OnReply(w, message) /\ UNCHANGED toPage
  /\ UNCHANGED <<page, answer, killed>>

-----------------------------------------------------------------------------
(* The page.                                                               *)

Deliver_AnyShell(s, ok) ==
  toWorker' = [w \in Shells |->
     IF w = current /\ live[w]
     THEN Append(toWorker[w], [type |-> s.type, id |-> s.id, ok |-> ok, source |-> <<s.from, s.call>>])
     ELSE toWorker[w]]

\* reply() of a request: posted if the requester is still the shell.
Deliver(s, ok) ==
  toWorker' = [w \in Shells |->
     IF w = s.to /\ w = current /\ live[w]
     THEN Append(toWorker[w], [type |-> s.type, id |-> s.id, ok |-> ok, source |-> <<s.from, s.call>>])
     ELSE toWorker[w]]

Copies == {s \in services : s.type = "clipboard"}

\* A worker that is terminated goes with its state and its queues.  The copy in
\* progress is forgotten; a picker or a batch stays, and the model forgets
\* which call of the worker it was for.
Terminate(w) ==
  LET without(f, x) == [v \in Shells |-> IF v = w THEN x ELSE f[v]]
  IN /\ live' = without(live, FALSE) /\ at' = without(at, "boot")
     /\ js' = without(js, NewJs) /\ guest' = without(guest, NewGuest)
     /\ answer' = without(answer, NoAnswer) /\ killed' = without(killed, FALSE)
     /\ toWorker' = without(toWorker, <<>>) /\ toPage' = without(toPage, <<>>)
     /\ sent' = without(sent, 0)
     /\ services' = {[s EXCEPT !.call = IF s.to = w THEN 0 ELSE @, !.nth = IF s.to = w THEN 0 ELSE @] :
                      s \in services \ Copies}

\* finish: done, an error of the worker, or the stop button.
Finish ==
  /\ Terminate(current)
  /\ current' = 0
  /\ UNCHANGED <<starting, made>>

\* A request.  The handlers name the requester by the variable worker.
OnRequest(w, m) ==
  LET s == [type |-> m.type, id |-> m.id, call |-> m.call, from |-> w, to |-> current,
            nth |-> CHOOSE n \in 0 .. Cardinality(services) : \A p \in services : p.nth # n]
  IN CASE m.type = "clipboard" -> services' = (services \ Copies) \cup {s} /\ UNCHANGED toWorker
       [] m.type \in {"upload", "suite"} -> services' = services \cup {s} /\ UNCHANGED toWorker
       [] m.type = "render" -> Deliver(s, TRUE) /\ UNCHANGED services
       [] m.type = "download" -> UNCHANGED <<services, toWorker>>

\* A message of a worker.  started is answered with the size of the terminal;
\* what suiteCancel does to the batch is TestSuite's Cancel.
OnShell(w) ==
  /\ live[w] /\ toPage[w] # <<>>
  /\ LET m == Head(toPage[w])
     IN \/ m.type = "done" /\ Finish
        \/ /\ m.type # "done"
           /\ toPage' = [toPage EXCEPT ![w] = Tail(@)]
           /\ CASE m.type = "started" ->
                     /\ toWorker' = [toWorker EXCEPT ![current] = Append(@, [type |-> "resize"])]
                     /\ UNCHANGED services
                [] m.type = "suiteCancel" -> UNCHANGED <<services, toWorker>>
                [] OTHER -> OnRequest(w, m)
           /\ UNCHANGED <<current, starting, made, live, sent, at, js, guest, answer, killed>>

\* A file is chosen or the picker dismissed; a copy is made or denied; a batch
\* is over.
Serve(s, ok) ==
  /\ s \in services
  /\ s.type = "suite" => ok
  /\ services' = services \ {s}
  /\ Deliver(s, ok)
  /\ UNCHANGED <<current, starting, made, live, sent, toPage, at, js, guest, answer, killed>>

\* startShell up to its first await: the shell of before is terminated, and
\* stays the value of worker.
StartShell ==
  /\ made + starting < MaxShells /\ starting < MaxStarting
  /\ starting' = starting + 1
  /\ Terminate(current)
  /\ UNCHANGED <<current, made>>

\* Everything is loaded and createWorker returns: the new worker is the shell.
ShellCreated ==
  /\ starting > 0
  /\ starting' = starting - 1
  /\ made' = made + 1 /\ current' = made + 1
  /\ live' = [live EXCEPT ![made + 1] = TRUE]
  /\ UNCHANGED <<sent, services, toWorker, toPage, at, js, guest, answer, killed>>

StopButton ==
  /\ current # 0
  /\ Finish

\* A key, a resize of the window, or the signal menu.
Forward(type) ==
  /\ current # 0 /\ live[current] /\ sent[current] < MaxEvents
  /\ sent' = [sent EXCEPT ![current] = @ + 1]
  /\ toWorker' = [toWorker EXCEPT ![current] = Append(@, [type |-> type])]
  /\ UNCHANGED <<current, starting, made, live, services, toPage, at, js, guest, answer, killed>>

Worker(w) == Boot(w) \/ Engine(w) \/ Resume(w) \/ PumpTimer(w) \/ OnMessage(w)

Next ==
  \/ \E w \in Shells : Worker(w) \/ WaitTimer(w) \/ OnShell(w)
  \/ \E s \in services, ok \in BOOLEAN : Serve(s, ok)
  \/ StartShell \/ ShellCreated \/ StopButton
  \/ \E type \in Events : Forward(type)

\* A worker's event loop runs, the page takes its messages, a batch ends
\* (TestSuite's CallsSettle) and the browser settles a copy.
ServePending(w) ==
  \E s \in services, ok \in BOOLEAN : s.type \in Tagged /\ s.to = w /\ Serve(s, ok)

Fairness ==
  \A w \in Shells : WF_vars(Worker(w)) /\ WF_vars(OnShell(w)) /\ WF_vars(ServePending(w))

Spec == Init /\ [][Next]_vars /\ Fairness

-----------------------------------------------------------------------------
(* Properties.                                                             *)

Sources == {Nobody} \cup (Shells \X (0 .. MaxCalls))

\* The ids and the slot keep their shapes; a tagged request is pending only
\* while the guest waits for it with its slot taken and unanswered.
TypeOK ==
  /\ current \in 0 .. MaxShells /\ made \in 0 .. MaxShells /\ starting \in 0 .. MaxStarting
  /\ \A w \in Shells :
       /\ at[w] \in {"boot", "engine", "go", "wait", "pump", "over"}
       /\ guest[w].doing \in Kinds \cup {"read", "none"}
       /\ guest[w].slot.source \in Sources /\ guest[w].slot.result \in -1 .. 1
       /\ at[w] \in {"go", "wait"} <=> guest[w].doing # "none"
       /\ \A kind \in Tagged :
            js[w][kind] # 0 => guest[w].doing = kind /\ guest[w].slot = [NoSlot EXCEPT !.kind = kind]

\* A worker never sleeps on a read of the terminal with input or a signal that
\* it has been given, the events queued before the engine was ready included.
NoLostWake ==
  \A w \in Shells :
    at[w] = "wait" /\ guest[w].doing = "read" => ~guest[w].typed /\ ~guest[w].fatal

\* A tagged call or a download returns what the page did for that very call,
\* as long as no program of the shell was killed in a host call.
OwnReply ==
  \A w \in Shells :
    answer[w].kind \in Tagged \cup {"download"} /\ ~killed[w] => answer[w].source = <<w, answer[w].call>>

\* No reply to a terminated shell reaches the shell that replaced it: a file
\* picked for the old one is never uploaded into the new one.  One startShell
\* at a time leaves one live worker.
OwnShell ==
  /\ \A w \in Shells : guest[w].slot.source[1] \in {0, w} /\ answer[w].source[1] \in {0, w}
  /\ Cardinality({w \in Shells : live[w]}) <= 1

\* At the prompt no host call holds the slot, so that the next one is not
\* refused, as long as no program was killed in a host call.
SlotFree ==
  \A w \in Shells : guest[w].doing = "read" /\ ~killed[w] => guest[w].slot = NoSlot

\* The one slot of a shell belongs to the call that took it.
SlotOwned == TypeOK /\ SlotFree /\ OwnReply

\* Every tagged call returns, or its shell goes.
CallReturns ==
  \A w \in Shells : guest[w].doing \in Tagged ~> guest[w].doing \notin Tagged

\* A copy is reported done only when the page has made that copy.
CopyAcknowledged ==
  \A w \in Shells :
    answer[w].kind = "clipboard" /\ answer[w].ok => answer[w].source = <<w, answer[w].call>>
=============================================================================
