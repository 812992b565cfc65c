---------------------------- MODULE HostIOProofs ----------------------------
(***************************************************************************)
(* What HostIO promises as long as one startShell runs at a time, for      *)
(* every number of shells, host calls and events and every set of host     *)
(* calls: the one slot of the engine belongs to the call that took it, a   *)
(* reply reaches only the call and the shell that it answers, and a worker *)
(* never sleeps on what it was given.                                      *)
(***************************************************************************)
EXTENDS HostIO, FiniteSetTheorems, SequenceTheorems, TLAPS

-----------------------------------------------------------------------------
(* Shapes.                                                                 *)

Places == {"boot", "engine", "go", "wait", "pump", "over"}

JsType ==
  [ready : BOOLEAN, ioPending : BOOLEAN, early : SUBSET Events, sequence : Nat,
   suite : Nat, render : Nat, clipboard : Nat]

SlotType == [kind : Kinds \cup {"none"}, result : -1 .. 1, source : Sources]

GuestType ==
  [slot : SlotType, doing : Kinds \cup {"read", "none"}, number : 0 .. MaxCalls,
   typed : BOOLEAN, fatal : BOOLEAN]

AnswerType == [kind : Kinds \cup {"none"}, call : 0 .. MaxCalls, ok : BOOLEAN, source : Sources]

\* What the page posts to a worker, and a worker to the page.
Replies ==
  [type : Events]
    \cup [type : Tagged \cup {"upload"}, id : Nat, ok : BOOLEAN, source : Sources]

Asks ==
  [type : {"started", "done"}] \cup [type : {"suiteCancel"}, id : Nat]
    \cup [type : Kinds, id : Nat, call : 0 .. MaxCalls]

IsService(s) ==
  /\ s = [type |-> s.type, id |-> s.id, call |-> s.call, from |-> s.from, to |-> s.to, nth |-> s.nth]
  /\ s.type \in {"clipboard", "upload", "suite"}
  /\ s.id \in Nat /\ s.call \in 0 .. MaxCalls
  /\ s.from \in Shells /\ s.to \in 0 .. made

-----------------------------------------------------------------------------
(* The invariant of every instance: workers one by one.                    *)

\* A pending id is that of the call in progress, which waits with its slot
\* taken and unanswered.
PendingWaits(a, j, g) ==
  \A kind \in Tagged :
    j[kind] # 0 => /\ g.doing = kind /\ a = "wait"
                   /\ g.slot = [NoSlot EXCEPT !.kind = kind]
                   /\ j[kind] <= j.sequence

\* No signal is left over where the guest goes on, and none, nor a key, where
\* it sleeps on the terminal.
Awake(a, j, g) ==
  /\ a \in {"go", "wait"} <=> g.doing # "none"
  /\ a = "boot" => ~j.ready
  /\ a \in {"boot", "engine"} => ~g.fatal
  /\ a = "wait" /\ g.doing = "read" => ~g.typed /\ ~g.fatal

\* The slot of a shell none of whose programs was killed in a host call: free
\* unless a call is in progress, then that call's, and answered unless the
\* reply is still to come.
Orderly(j, g) ==
  /\ g.doing \in {"none", "read"} => g.slot = NoSlot
  /\ g.doing \in Kinds => g.slot.kind = g.doing
  /\ g.doing = "download" => g.slot.result = 1
  /\ g.doing \in Tagged => j[g.doing] # 0 \/ g.slot.result # 0

\* A worker by the values of its variables.
Local(a, j, g, x, k) ==
  /\ a \in Places /\ j \in JsType /\ g \in GuestType /\ x \in AnswerType /\ k \in BOOLEAN
  /\ PendingWaits(a, j, g)
  /\ Awake(a, j, g)
  /\ k \/ Orderly(j, g)

Page ==
  /\ made \in 0 .. MaxShells /\ starting \in 0 .. MaxStarting /\ made + starting <= MaxShells
  /\ current \in 0 .. made
  /\ live \in [Shells -> BOOLEAN] /\ sent \in [Shells -> Nat]
  /\ \A w \in Shells : w > made => ~live[w] /\ toWorker[w] = <<>> /\ toPage[w] = <<>>
  /\ \A s \in services : IsService(s)

Shapes ==
  /\ toWorker \in [Shells -> Seq(Replies)] /\ toPage \in [Shells -> Seq(Asks)]
  /\ at \in [Shells -> Places] /\ js \in [Shells -> JsType]
  /\ guest \in [Shells -> GuestType] /\ answer \in [Shells -> AnswerType]
  /\ killed \in [Shells -> BOOLEAN]

IInv ==
  /\ Page /\ Shapes
  /\ \A w \in Shells : Local(at[w], js[w], guest[w], answer[w], killed[w])

-----------------------------------------------------------------------------
(* The invariant of one startShell at a time: whose a reply is.            *)

\* What is in the slot, and what was returned last, answers a request of the
\* worker w; it answers the very call, if no program was killed in one.
Sourced(w, j, g, x, k) ==
  /\ g.slot.source[1] \in {0, w} /\ x.source[1] \in {0, w}
  /\ ~k =>
       /\ g.doing = "download" => g.slot.source = <<w, g.number>>
       /\ g.doing \in Tagged => j[g.doing] # 0 \/ g.slot.source = <<w, g.number>>
       /\ x.kind \in Tagged \cup {"download"} => x.source = <<w, x.call>>

\* A tagged request under way, m, for call number c: its id has been given out,
\* and it is the pending one only if its call is the one in progress.
Known(j, g, m, c) ==
  m.id \in 1 .. j.sequence /\ (m.id = j[m.type] => c = g.number)

Asking(j, g, q) ==
  \A n \in 1 .. Len(q) : q[n].type \in Tagged => Known(j, g, q[n], q[n].call)

Answering(w, j, g, q) ==
  \A n \in 1 .. Len(q) :
    q[n].type \in Tagged \cup {"upload"} =>
      /\ q[n].source[1] = w
      /\ q[n].type \in Tagged => Known(j, g, q[n], q[n].source[2])

Serving(w, j, g, S) ==
  \A s \in S : s.to = w /\ s.type \in Tagged => Known(j, g, s, s.call)

\* The shell is the only worker that lives, none does while a startShell
\* awaits, and a service is for the worker that asked for it.
Alone ==
  /\ \A w \in Shells : live[w] => w = current /\ starting = 0
  /\ \A s \in services : s.from = s.to

Traffic(w) ==
  /\ Asking(js[w], guest[w], toPage[w])
  /\ Answering(w, js[w], guest[w], toWorker[w])
  /\ Serving(w, js[w], guest[w], services)

SInv ==
  /\ Alone
  /\ \A w \in Shells : /\ Sourced(w, js[w], guest[w], answer[w], killed[w])
                       /\ live[w] => Traffic(w)

-----------------------------------------------------------------------------
(* Requests and replies under way.                                         *)

\* The values after a step: no id is taken back, and a pending id that had been
\* given out before the step is still pending for the same call.
Later(j, g, j2, g2) ==
  /\ j2.sequence >= j.sequence
  /\ \A kind \in Tagged :
       j2[kind] \in 1 .. j.sequence => j2[kind] = j[kind] /\ g2.number = g.number

\* What was known of a request stays known.
LEMMA LaterKnown ==
  ASSUME NEW j \in JsType, NEW g, NEW j2 \in JsType, NEW g2, Later(j, g, j2, g2),
         NEW m, NEW c, m.type \in Tagged, Known(j, g, m, c)
  PROVE  Known(j2, g2, m, c)
<1>1. j.sequence \in Nat /\ j2.sequence \in Nat
  BY DEF JsType
<1>2. m.id \in 1 .. j.sequence /\ m.id \in 1 .. j2.sequence
  BY <1>1 DEF Known, Later
<1>3. ASSUME m.id = j2[m.type] PROVE c = g2.number
  BY <1>2, <1>3 DEF Known, Later
<1> QED
  BY <1>2, <1>3 DEF Known

\* What is under way stays right while the worker's ids only grow.
LEMMA LaterTraffic ==
  ASSUME NEW j \in JsType, NEW g, NEW j2 \in JsType, NEW g2, Later(j, g, j2, g2)
  PROVE  /\ \A q : Asking(j, g, q) => Asking(j2, g2, q)
         /\ \A w, q : Answering(w, j, g, q) => Answering(w, j2, g2, q)
         /\ \A w, S : Serving(w, j, g, S) => Serving(w, j2, g2, S)
<1>1. \A m, c : m.type \in Tagged /\ Known(j, g, m, c) => Known(j2, g2, m, c)
  BY LaterKnown
<1>2. \A q : Asking(j, g, q) => Asking(j2, g2, q)
  BY <1>1 DEF Asking
<1>3. \A w, q : Answering(w, j, g, q) => Answering(w, j2, g2, q)
  BY <1>1 DEF Answering
<1>4. \A w, S : Serving(w, j, g, S) => Serving(w, j2, g2, S)
  BY <1>1 DEF Serving
<1> QED
  BY <1>2, <1>3, <1>4

\* Queues that grow at the end and shrink at the front.
LEMMA AskingJoined ==
  ASSUME NEW j, NEW g, NEW q \in Seq(Asks), NEW r \in Seq(Asks),
         Asking(j, g, q), Asking(j, g, r)
  PROVE  q \o r \in Seq(Asks) /\ Asking(j, g, q \o r)
<1>1. q \o r \in Seq(Asks) /\ Len(q \o r) = Len(q) + Len(r)
  BY ConcatProperties
<1>2. ASSUME NEW n \in 1 .. Len(q \o r), (q \o r)[n].type \in Tagged
      PROVE  Known(j, g, (q \o r)[n], (q \o r)[n].call)
  <2>1. CASE n <= Len(q)
    <3>1. n \in 1 .. Len(q) /\ (q \o r)[n] = q[n]
      BY <2>1, <1>1, ConcatProperties
    <3> QED
      BY <3>1, <1>2 DEF Asking
  <2>2. CASE ~(n <= Len(q))
    <3>1. n - Len(q) \in 1 .. Len(r) /\ (q \o r)[n] = r[n - Len(q)]
      BY <2>2, <1>1, ConcatProperties
    <3> QED
      BY <3>1, <1>2 DEF Asking
  <2> QED
    BY <2>1, <2>2
<1> QED
  BY <1>1, <1>2 DEF Asking

\* A single request that is posted.
LEMMA AskingOne ==
  ASSUME NEW j, NEW g, NEW m \in Asks, m.type \in Tagged => Known(j, g, m, m.call)
  PROVE  <<m>> \in Seq(Asks) /\ Asking(j, g, <<m>>)
<1>1. <<m>> \in Seq(Asks) /\ Len(<<m>>) = 1 /\ <<m>>[1] = m
  OBVIOUS
<1>2. \A n \in 1 .. Len(<<m>>) : n = 1
  BY <1>1
<1> QED
  BY <1>1, <1>2 DEF Asking

\* The page takes the first request of a queue.
LEMMA AskingTail ==
  ASSUME NEW j, NEW g, NEW q \in Seq(Asks), q # <<>>, Asking(j, g, q)
  PROVE  Tail(q) \in Seq(Asks) /\ Asking(j, g, Tail(q))
<1>1. /\ Tail(q) \in Seq(Asks) /\ Len(Tail(q)) = Len(q) - 1
      /\ \A n \in 1 .. Len(Tail(q)) : Tail(q)[n] = q[n + 1]
  BY HeadTailProperties
<1>2. \A n \in 1 .. Len(Tail(q)) : n + 1 \in 1 .. Len(q)
  BY <1>1, LenProperties
<1> QED
  BY <1>1, <1>2 DEF Asking

\* The worker takes the first reply of a queue.
LEMMA AnsweringTail ==
  ASSUME NEW w, NEW j, NEW g, NEW q \in Seq(Replies), q # <<>>, Answering(w, j, g, q)
  PROVE  Tail(q) \in Seq(Replies) /\ Answering(w, j, g, Tail(q))
<1>1. /\ Tail(q) \in Seq(Replies) /\ Len(Tail(q)) = Len(q) - 1
      /\ \A n \in 1 .. Len(Tail(q)) : Tail(q)[n] = q[n + 1]
  BY HeadTailProperties
<1>2. \A n \in 1 .. Len(Tail(q)) : n + 1 \in 1 .. Len(q)
  BY <1>1, LenProperties
<1> QED
  BY <1>1, <1>2 DEF Answering

\* A reply joins the queue.
LEMMA AnsweringMore ==
  ASSUME NEW w, NEW j, NEW g, NEW q \in Seq(Replies), NEW m \in Replies, Answering(w, j, g, q),
         m.type \in Tagged \cup {"upload"} =>
           m.source[1] = w /\ (m.type \in Tagged => Known(j, g, m, m.source[2]))
  PROVE  Answering(w, j, g, Append(q, m))
<1>1. /\ Append(q, m) \in Seq(Replies) /\ Len(Append(q, m)) = Len(q) + 1
      /\ Append(q, m)[Len(q) + 1] = m
      /\ \A n \in 1 .. Len(q) : Append(q, m)[n] = q[n]
  BY AppendProperties
<1>2. \A n \in 1 .. Len(Append(q, m)) : n \in 1 .. Len(q) \/ n = Len(q) + 1
  BY <1>1, LenProperties
<1> QED
  BY <1>1, <1>2 DEF Answering

-----------------------------------------------------------------------------
(* A task of a worker changes the variables of that worker only.           *)

Becomes(w, a, j, g, x, k) ==
  /\ at' = [at EXCEPT ![w] = a] /\ js' = [js EXCEPT ![w] = j]
  /\ guest' = [guest EXCEPT ![w] = g] /\ answer' = [answer EXCEPT ![w] = x]
  /\ killed' = [killed EXCEPT ![w] = k]

Queued(w, p, t) ==
  toPage' = [toPage EXCEPT ![w] = p] /\ toWorker' = [toWorker EXCEPT ![w] = t]

\* The sources are kept by a step to j, g, x and k with queues p and t.
Keeps(w, j, g, x, k, p, t) ==
  /\ Later(js[w], guest[w], j, g)
  /\ Sourced(w, j, g, x, k)
  /\ Asking(j, g, p)
  /\ Answering(w, j, g, t)

\* A step of one worker keeps the invariants if its own values do.
LEMMA WorkerMoves ==
  ASSUME IInv, NEW w \in Shells, live[w], UNCHANGED page,
         NEW a, NEW j, NEW g, NEW x, NEW k, Local(a, j, g, x, k), Becomes(w, a, j, g, x, k),
         NEW p \in Seq(Asks), NEW t \in Seq(Replies), Queued(w, p, t)
  PROVE  IInv' /\ (SInv /\ Keeps(w, j, g, x, k, p, t) => SInv')
<1>1. /\ made' = made /\ starting' = starting /\ current' = current /\ live' = live
      /\ sent' = sent /\ services' = services
  BY DEF page
<1>2. a \in Places /\ j \in JsType /\ g \in GuestType /\ x \in AnswerType /\ k \in BOOLEAN
  BY DEF Local
<1>3. Shapes'
  BY <1>2 DEF IInv, Shapes, Becomes, Queued
<1>4. \A v \in Shells \ {w} :
        /\ at'[v] = at[v] /\ js'[v] = js[v] /\ guest'[v] = guest[v] /\ answer'[v] = answer[v]
        /\ killed'[v] = killed[v] /\ toPage'[v] = toPage[v] /\ toWorker'[v] = toWorker[v]
  BY DEF IInv, Shapes, Becomes, Queued
<1>5. /\ at'[w] = a /\ js'[w] = j /\ guest'[w] = g /\ answer'[w] = x /\ killed'[w] = k
      /\ toPage'[w] = p /\ toWorker'[w] = t
  BY DEF IInv, Shapes, Becomes, Queued
<1>6. Page'
  <2>1. ~(w > made)
    BY DEF IInv, Page
  <2>2. \A v \in Shells : v > made => ~live[v] /\ toWorker'[v] = <<>> /\ toPage'[v] = <<>>
    BY <2>1, <1>4 DEF IInv, Page
  <2> QED
    BY <2>2, <1>1 DEF IInv, Page, IsService
<1>7. \A v \in Shells : Local(at[v], js[v], guest[v], answer[v], killed[v])'
  <2>1. \A v \in Shells : Local(at'[v], js'[v], guest'[v], answer'[v], killed'[v])
    BY <1>4, <1>5 DEF IInv
  <2> QED
    BY <2>1 DEF Local, PendingWaits, Awake, Orderly
<1>8. ASSUME SInv, Keeps(w, j, g, x, k, p, t) PROVE SInv'
  <2>1. Alone'
    BY <1>1, <1>8 DEF SInv, Alone
  <2>2. \A v \in Shells : Sourced(v, js'[v], guest'[v], answer'[v], killed'[v])
    BY <1>4, <1>5, <1>8 DEF SInv, Keeps
  <2>3. js[w] \in JsType
    BY DEF IInv, Shapes
  <2>4. Serving(w, j, g, services)
    BY <1>2, <1>8, <2>3, LaterTraffic, Zenon DEF SInv, Traffic, Keeps
  <2>5. \A v \in Shells : live[v] =>
          /\ Asking(js'[v], guest'[v], toPage'[v])
          /\ Answering(v, js'[v], guest'[v], toWorker'[v])
          /\ Serving(v, js'[v], guest'[v], services)
    BY <1>4, <1>5, <1>8, <2>4, Zenon DEF SInv, Keeps, Traffic
  <2>6. \A v \in Shells : live'[v] => Traffic(v)'
    BY <2>5, <1>1, SMT, Z3 DEF Traffic, Asking, Answering, Serving, Known
  <2> QED
    BY <2>1, <2>2, <2>6 DEF SInv, Sourced
<1> QED
  BY <1>3, <1>6, <1>7, <1>8 DEF IInv

-----------------------------------------------------------------------------
(* What the tasks of a worker compute.                                     *)

\* The worker's record when the engine is ready.
LEMMA ReadyFields ==
  ASSUME NEW j \in JsType
  PROVE  /\ Ready(j) \in JsType /\ Ready(j).ready = TRUE
         /\ Ready(j).ioPending = (j.ioPending \/ j.early # {})
         /\ Ready(j).sequence = j.sequence
         /\ \A kind \in Tagged : Ready(j)[kind] = j[kind]
  BY Zenon DEF Ready, JsType, Tagged

\* The guest's record when it is given events.
LEMMA TakeFields ==
  ASSUME NEW g \in GuestType, NEW events
  PROVE  /\ Take(g, events) \in GuestType
         /\ Take(g, events).slot = g.slot /\ Take(g, events).doing = g.doing
         /\ Take(g, events).number = g.number
         /\ events = {} => Take(g, events).typed = g.typed /\ Take(g, events).fatal = g.fatal
  BY Zenon DEF Take, GuestType

\* The state of a worker, with types.
LEMMA OfWorker ==
  ASSUME IInv, NEW w \in Shells
  PROVE  /\ at[w] \in Places /\ js[w] \in JsType /\ guest[w] \in GuestType
         /\ answer[w] \in AnswerType /\ killed[w] \in BOOLEAN
         /\ toPage[w] \in Seq(Asks) /\ toWorker[w] \in Seq(Replies)
         /\ Local(at[w], js[w], guest[w], answer[w], killed[w])
         /\ at[w] # "wait" => \A kind \in Tagged : js[w][kind] = 0
<1>1. Local(at[w], js[w], guest[w], answer[w], killed[w])
  BY DEF IInv
<1> QED
  BY <1>1, Zenon DEF IInv, Shapes, Local, PendingWaits

\* What the second invariant says of one live worker.
LEMMA OfSources ==
  ASSUME SInv, NEW w \in Shells, live[w]
  PROVE  /\ Sourced(w, js[w], guest[w], answer[w], killed[w])
         /\ Asking(js[w], guest[w], toPage[w])
         /\ Answering(w, js[w], guest[w], toWorker[w])
  BY DEF SInv, Traffic

\* With no pending id left, or the same ids for the same call, what is under
\* way stays known.
LEMMA LaterQuiet ==
  ASSUME NEW j \in JsType, NEW g, NEW j2 \in JsType, NEW g2, j2.sequence = j.sequence,
         \A kind \in Tagged : j2[kind] = 0 \/ (j2[kind] = j[kind] /\ g2.number = g.number)
  PROVE  Later(j, g, j2, g2)
<1>1. j.sequence \in Nat
  BY DEF JsType
<1> QED
  BY <1>1 DEF Later

\* The started message asks for nothing.
LEMMA StartedAsks ==
  ASSUME NEW w, NEW j, NEW g
  PROVE  Started(w) \in Seq(Asks) /\ Asking(j, g, Started(w))
<1>1. [type |-> "started"] \in Asks /\ [type |-> "started"].type \notin Tagged
  BY DEF Asks, Tagged
<1>2. << [type |-> "started"] >> \in Seq(Asks) /\ Asking(j, g, << [type |-> "started"] >>)
  BY <1>1, AskingOne
<1>3. <<>> \in Seq(Asks) /\ Asking(j, g, <<>>)
  BY DEF Asking
<1> QED
  BY <1>2, <1>3 DEF Started

\* The queue after a Post of what began with Started.
LEMMA Posted ==
  ASSUME IInv, NEW w \in Shells, NEW r \in Seq(Asks), Post(w, r), UNCHANGED toWorker
  PROVE  /\ Queued(w, toPage[w] \o r, toWorker[w])
         /\ toPage[w] \o r \in Seq(Asks)
<1>1. toPage[w] \in Seq(Asks)
  BY OfWorker
<1> QED
  BY <1>1, ConcatProperties DEF IInv, Shapes, Post, Queued

\* A step that posts nothing leaves the queues.
LEMMA Unposted ==
  ASSUME IInv, NEW w \in Shells, UNCHANGED <<toPage, toWorker>>
  PROVE  Queued(w, toPage[w], toWorker[w])
  BY DEF IInv, Shapes, Queued

\* The engine yields for the terminal.
LEMMA YieldReadStep ==
  ASSUME IInv, NEW w \in Shells, live[w], at[w] \in {"engine", "go"},
         guest[w].doing \in {"none", "read"}, ~guest[w].typed, ~guest[w].fatal,
         YieldRead(w), UNCHANGED <<page, toWorker>>
  PROVE  IInv' /\ (SInv => SInv')
<1> DEFINE j == [Ready(js[w]) EXCEPT !.ioPending = FALSE]
           g == [Take(guest[w], js[w].early) EXCEPT !.doing = "read"]
           a == IF Ready(js[w]).ioPending THEN Woken(Ready(js[w])) ELSE "wait"
           p == toPage[w] \o Started(w)
<1>1. /\ js[w] \in JsType /\ guest[w] \in GuestType /\ answer[w] \in AnswerType
      /\ killed[w] \in BOOLEAN /\ toWorker[w] \in Seq(Replies) /\ toPage[w] \in Seq(Asks)
      /\ Local(at[w], js[w], guest[w], answer[w], killed[w])
      /\ \A kind \in Tagged : js[w][kind] = 0
  BY OfWorker
<1>2. /\ j \in JsType /\ j.ready = TRUE /\ j.sequence = js[w].sequence
      /\ \A kind \in Tagged : j[kind] = 0
  BY <1>1, ReadyFields, Zenon DEF JsType, Tagged
<1>3. /\ g \in GuestType /\ g.slot = guest[w].slot /\ g.doing = "read"
      /\ g.number = guest[w].number
      /\ js[w].early = {} => ~g.typed /\ ~g.fatal
  BY <1>1, TakeFields DEF GuestType
<1>4. a \in {"go", "wait"} /\ (a = "wait" => js[w].early = {})
  <2>1. ~Pending(Ready(js[w]))
    BY <1>1, ReadyFields, Zenon DEF Pending, Tagged
  <2> QED
    BY <2>1, <1>1, ReadyFields, Zenon DEF Woken
<1>5. Becomes(w, a, j, g, answer[w], killed[w])
  BY DEF YieldRead, AwaitIO, Becomes, IInv, Shapes
<1>6. Queued(w, p, toWorker[w]) /\ p \in Seq(Asks)
  BY StartedAsks, Posted DEF YieldRead
<1> HIDE DEF j, g, a, p
<1>7. Local(a, j, g, answer[w], killed[w])
  <2>1. PendingWaits(a, j, g)
    BY <1>2 DEF PendingWaits
  <2>2. Awake(a, j, g)
    BY <1>3, <1>4 DEF Awake
  <2>3. killed[w] \/ Orderly(j, g)
    <3>1. "read" \notin Kinds \cup Tagged
      BY HostAssumption DEF Tagged
    <3> QED
      BY <1>1, <1>3, <3>1 DEF Local, Orderly, Tagged
  <2> QED
    BY <1>1, <1>2, <1>3, <1>4, <2>1, <2>2, <2>3 DEF Local, Places
<1>8. ASSUME SInv PROVE Keeps(w, j, g, answer[w], killed[w], p, toWorker[w])
  <2>1. Later(js[w], guest[w], j, g)
    BY <1>1, <1>2, LaterQuiet, Zenon
  <2>2. Sourced(w, j, g, answer[w], killed[w])
    BY <1>3, <1>8, OfSources DEF Sourced, Tagged
  <2>3. Asking(j, g, toPage[w]) /\ Answering(w, j, g, toWorker[w])
    BY <1>1, <1>2, <1>8, <2>1, OfSources, LaterTraffic, Zenon
  <2>4. Asking(j, g, p)
    BY <1>1, <2>3, StartedAsks, AskingJoined DEF p
  <2> QED
    BY <2>1, <2>2, <2>3, <2>4, Zenon DEF Keeps
<1> QED
  BY <1>1, <1>5, <1>6, <1>7, <1>8, WorkerMoves, Zenon

\* The engine yields for a host call, whose request is posted.
LEMMA YieldHostStep ==
  ASSUME IInv, NEW w \in Shells, live[w], at[w] \in {"engine", "go"},
         NEW kind \in Kinds, NEW number \in 0 .. MaxCalls,
         YieldHost(w, kind, number), UNCHANGED <<page, toWorker>>
  PROVE  IInv' /\ (SInv => SInv')
<1> DEFINE r == Ready(js[w])
           id == IF kind \in Tagged THEN r.sequence + 1 ELSE 0
           slot == IF kind = "download" THEN [kind |-> kind, result |-> 1, source |-> <<w, number>>]
                   ELSE [NoSlot EXCEPT !.kind = kind]
           i == IF kind \in Tagged THEN [r EXCEPT !.sequence = id, ![kind] = id]
                ELSE [r EXCEPT !.ioPending = @ \/ kind = "download"]
           j == [i EXCEPT !.ioPending = FALSE]
           g == [Take(guest[w], js[w].early) EXCEPT !.doing = kind, !.number = number, !.slot = slot]
           a == IF i.ioPending THEN Woken(i) ELSE "wait"
           m == [type |-> kind, id |-> id, call |-> number]
           p == toPage[w] \o Append(Started(w), m)
<1>1. /\ js[w] \in JsType /\ guest[w] \in GuestType /\ answer[w] \in AnswerType
      /\ killed[w] \in BOOLEAN /\ toWorker[w] \in Seq(Replies) /\ toPage[w] \in Seq(Asks)
      /\ Local(at[w], js[w], guest[w], answer[w], killed[w])
      /\ \A q \in Tagged : js[w][q] = 0
  BY OfWorker
<1>2. /\ r \in JsType /\ r.sequence = js[w].sequence /\ r.sequence \in Nat
      /\ \A q \in Tagged : r[q] = 0
  BY <1>1, ReadyFields, Zenon DEF JsType
<1>3. Becomes(w, a, j, g, answer[w], killed[w])
  BY DEF YieldHost, AwaitIO, Becomes, IInv, Shapes
<1>4. Post(w, Append(Started(w), m))
  BY DEF YieldHost
<1>5. kind \notin {"none", "read"} /\ "none" \notin Tagged /\ "download" \notin Tagged
  BY HostAssumption DEF Tagged
<1>6. id \in Nat
  BY <1>2
<1>7. slot \in SlotType /\ slot.kind = kind /\ slot.source[1] \in {0, w}
      /\ (kind = "download" => slot.result = 1 /\ slot.source = <<w, number>>)
      /\ (kind # "download" => slot = [NoSlot EXCEPT !.kind = kind])
  BY DEF SlotType, NoSlot, Nobody, Sources
<1>8. /\ g \in GuestType /\ g.slot = slot /\ g.doing = kind /\ g.number = number
  <2> HIDE DEF slot
  <2> QED
    BY <1>1, <1>7, TakeFields, ZenonT(60) DEF GuestType
<1>9. m \in Asks /\ m.type = kind /\ m.id = id /\ m.call = number
  <2> HIDE DEF id
  <2> QED
    BY <1>6 DEF Asks
<1> HIDE DEF r, g, slot
<1>10. CASE kind \in Tagged
  <2>1. id = r.sequence + 1
    BY <1>10
  <2>2. i = [r EXCEPT !.sequence = id, ![kind] = id]
    BY <1>10
  <2> HIDE DEF id, i
  <2>3. /\ i \in JsType /\ i.sequence = id /\ i[kind] = id /\ i.ready = r.ready
        /\ \A q \in Tagged \ {kind} : i[q] = 0
    BY <1>2, <1>6, <1>10, <2>2, Zenon DEF JsType, Tagged
  <2>4. Pending(i)
    BY <1>2, <1>10, <2>1, <2>3 DEF Pending, Tagged
  <2>5. a = "wait"
    BY <2>4 DEF Woken
  <2>6. /\ j \in JsType /\ j.sequence = id /\ j[kind] = id
        /\ \A q \in Tagged \ {kind} : j[q] = 0
    BY <2>3, <1>10, Zenon DEF JsType, Tagged
  <2> HIDE DEF j, a, m
  <2>7. Local(a, j, g, answer[w], killed[w])
    <3>1. PendingWaits(a, j, g)
      BY <1>5, <1>7, <1>8, <1>10, <2>1, <2>5, <2>6, <1>2 DEF PendingWaits
    <3>2. Awake(a, j, g)
      BY <1>5, <1>8, <2>5 DEF Awake
    <3>3. Orderly(j, g)
      BY <1>2, <1>5, <1>7, <1>8, <1>10, <2>1, <2>6 DEF Orderly
    <3> QED
      BY <1>1, <1>8, <2>5, <2>6, <3>1, <3>2, <3>3, Zenon DEF Local, Places
  <2>8. Known(j, g, m, m.call)
    BY <1>2, <1>8, <1>9, <2>1, <2>6 DEF Known
  <2>9. Later(js[w], guest[w], j, g)
    BY <1>2, <2>1, <2>6 DEF Later
  <2>10. <<m>> \in Seq(Asks) /\ Asking(j, g, <<m>>)
    BY <1>9, <2>8, AskingOne
  <2>11. Append(Started(w), m) = Started(w) \o <<m>>
    BY <1>9, StartedAsks, AppendIsConcat
  <2>12. Append(Started(w), m) \in Seq(Asks) /\ Asking(j, g, Append(Started(w), m))
    <3>1. Started(w) \in Seq(Asks) /\ Asking(j, g, Started(w))
      BY StartedAsks
    <3>2. Started(w) \o <<m>> \in Seq(Asks) /\ Asking(j, g, Started(w) \o <<m>>)
      BY <2>10, <3>1, AskingJoined, Zenon
    <3> QED
      BY <2>11, <3>2
  <2>13. Queued(w, p, toWorker[w]) /\ p \in Seq(Asks)
    BY <1>4, <2>12, Posted, Zenon
  <2>14. ASSUME SInv PROVE Keeps(w, j, g, answer[w], killed[w], p, toWorker[w])
    <3>1. Sourced(w, j, g, answer[w], killed[w])
      BY <1>2, <1>5, <1>7, <1>8, <1>10, <2>1, <2>6, <2>14, OfSources DEF Sourced
    <3>2. Asking(j, g, toPage[w]) /\ Answering(w, j, g, toWorker[w])
      BY <1>1, <2>6, <2>9, <2>14, OfSources, LaterTraffic, Zenon
    <3>3. Asking(j, g, p)
      BY <1>1, <2>12, <3>2, AskingJoined, Zenon
    <3> QED
      BY <2>9, <3>1, <3>2, <3>3 DEF Keeps
  <2> QED
    BY <1>1, <1>3, <2>7, <2>13, <2>14, WorkerMoves, Zenon
<1>11. CASE kind \notin Tagged
  <2>1. i = [r EXCEPT !.ioPending = @ \/ kind = "download"]
    BY <1>11
  <2> HIDE DEF i
  <2>2. i \in JsType /\ i.sequence = r.sequence /\ \A q \in Tagged : i[q] = 0
    BY <1>2, <2>1, Zenon DEF JsType, Tagged
  <2>3. ~Pending(i)
    BY <2>2 DEF Pending, Tagged
  <2>4. a \in {"go", "wait"}
    BY <2>3 DEF Woken
  <2>5. j \in JsType /\ j.sequence = js[w].sequence /\ \A q \in Tagged : j[q] = 0
    BY <1>2, <2>2, Zenon DEF JsType, Tagged
  <2> HIDE DEF id, j, a, m
  <2>6. Local(a, j, g, answer[w], killed[w])
    <3>1. PendingWaits(a, j, g)
      BY <2>5 DEF PendingWaits
    <3>2. Awake(a, j, g)
      BY <1>5, <1>8, <2>4 DEF Awake
    <3>3. Orderly(j, g)
      BY <1>5, <1>7, <1>8, <1>11 DEF Orderly
    <3> QED
      BY <1>1, <1>8, <2>4, <2>5, <3>1, <3>2, <3>3, Zenon DEF Local, Places
  <2>7. Later(js[w], guest[w], j, g)
    BY <1>1, <2>5, LaterQuiet, ZenonT(60)
  <2>8. <<m>> \in Seq(Asks) /\ Asking(j, g, <<m>>)
    BY <1>9, <1>11, AskingOne, Zenon
  <2>9. Append(Started(w), m) = Started(w) \o <<m>>
    BY <1>9, StartedAsks, AppendIsConcat
  <2>10. Append(Started(w), m) \in Seq(Asks) /\ Asking(j, g, Append(Started(w), m))
    <3>1. Started(w) \in Seq(Asks) /\ Asking(j, g, Started(w))
      BY StartedAsks
    <3>2. Started(w) \o <<m>> \in Seq(Asks) /\ Asking(j, g, Started(w) \o <<m>>)
      BY <2>8, <3>1, AskingJoined, Zenon
    <3> QED
      BY <2>9, <3>2
  <2>11. Queued(w, p, toWorker[w]) /\ p \in Seq(Asks)
    BY <1>4, <2>10, Posted, Zenon
  <2>12. ASSUME SInv PROVE Keeps(w, j, g, answer[w], killed[w], p, toWorker[w])
    <3>1. Sourced(w, j, g, answer[w], killed[w])
      BY <1>5, <1>7, <1>8, <1>11, <2>12, OfSources DEF Sourced
    <3>2. Asking(j, g, toPage[w]) /\ Answering(w, j, g, toWorker[w])
      BY <1>1, <2>5, <2>7, <2>12, OfSources, LaterTraffic, Zenon
    <3>3. Asking(j, g, p)
      BY <1>1, <2>10, <3>2, AskingJoined, Zenon
    <3> QED
      BY <2>7, <3>1, <3>2, <3>3 DEF Keeps
  <2> QED
    BY <1>1, <1>3, <2>6, <2>11, <2>12, WorkerMoves, Zenon
<1> QED
  BY <1>10, <1>11

\* An import returns to its program: the slot is free again, or it was refused
\* one that a killed program has left behind.
LEMMA ReturnStep ==
  ASSUME IInv, NEW w \in Shells, live[w], at[w] \in {"engine", "go"},
         NEW kind \in Kinds, NEW number \in 0 .. MaxCalls,
         NEW slot \in SlotType, slot.source[1] \in {0, guest[w].slot.source[1]},
         killed[w] \/ slot = NoSlot,
         NEW ok \in BOOLEAN, NEW source \in Sources,
         source[1] \in {0, guest[w].slot.source[1]},
         SInv /\ kind \in Tagged \cup {"download"} => killed[w] \/ source = <<w, number>>,
         Return(w, kind, number, slot, ok, source), UNCHANGED <<page, toWorker>>
  PROVE  IInv' /\ (SInv => SInv')
<1> DEFINE g == [guest[w] EXCEPT !.slot = slot, !.doing = "none", !.number = number, !.fatal = FALSE]
           x == [kind |-> kind, call |-> number, ok |-> ok, source |-> source]
<1>1. /\ js[w] \in JsType /\ guest[w] \in GuestType /\ answer[w] \in AnswerType
      /\ killed[w] \in BOOLEAN /\ toWorker[w] \in Seq(Replies) /\ toPage[w] \in Seq(Asks)
      /\ \A q \in Tagged : js[w][q] = 0
  BY OfWorker
<1>2. /\ g \in GuestType /\ g.slot = slot /\ g.doing = "none" /\ ~g.fatal
  BY <1>1, Zenon DEF GuestType
<1>3. x \in AnswerType /\ x.kind = kind /\ x.call = number /\ x.source = source
  BY DEF AnswerType
<1>4. Becomes(w, "engine", js[w], g, x, killed[w])
  BY Zenon DEF Return, Becomes, IInv, Shapes
<1>5. Queued(w, toPage[w], toWorker[w])
  BY Unposted DEF Return
<1> HIDE DEF g, x
<1>6. "none" \notin Kinds \cup Tagged
  BY HostAssumption DEF Tagged
<1>7. Local("engine", js[w], g, x, killed[w])
  BY <1>1, <1>2, <1>3, <1>6, Zenon DEF Local, PendingWaits, Awake, Orderly, Places
<1>8. ASSUME SInv PROVE Keeps(w, js[w], g, x, killed[w], toPage[w], toWorker[w])
  <2>1. Later(js[w], guest[w], js[w], g)
    BY <1>1, LaterQuiet, Zenon
  <2>2. Sourced(w, js[w], g, x, killed[w])
    BY <1>2, <1>3, <1>6, <1>8, OfSources DEF Sourced
  <2>3. Asking(js[w], g, toPage[w]) /\ Answering(w, js[w], g, toWorker[w])
    BY <1>1, <1>8, <2>1, OfSources, LaterTraffic, Zenon
  <2> QED
    BY <2>1, <2>2, <2>3 DEF Keeps
<1> QED
  BY <1>1, <1>4, <1>5, <1>7, <1>8, WorkerMoves, Zenon

\* An import, on the first call or when its program goes on.
LEMMA ImportStep ==
  ASSUME IInv, NEW w \in Shells, live[w],
         NEW kind \in Kinds, NEW number \in 0 .. MaxCalls,
         \/ at[w] = "engine"
         \/ at[w] = "go" /\ guest[w].doing = kind /\ guest[w].number = number,
         Import(w, kind, number), UNCHANGED <<page, toWorker>>
  PROVE  IInv' /\ (SInv => SInv')
<1> DEFINE slot == guest[w].slot
<1>1. /\ guest[w] \in GuestType /\ killed[w] \in BOOLEAN
      /\ Local(at[w], js[w], guest[w], answer[w], killed[w])
      /\ \A q \in Tagged : js[w][q] = 0
  BY OfWorker
<1>2. slot \in SlotType /\ slot.source \in Sources /\ slot.result \in -1 .. 1
  BY <1>1 DEF GuestType, SlotType
<1>3. NoSlot \in SlotType /\ Nobody \in Sources /\ NoSlot.source[1] = 0 /\ Nobody[1] = 0
      /\ NoSlot.kind = "none"
  BY DEF NoSlot, SlotType, Sources, Nobody
<1>4. kind # "none"
  BY HostAssumption DEF Tagged
<1>5. killed[w] \/ at[w] = "go" \/ slot = NoSlot
  BY <1>1 DEF Local, Orderly, Awake
<1>6. CASE slot.kind = kind /\ slot.result # 0
  <2>1. Return(w, kind, number, NoSlot, slot.result = 1, slot.source)
    BY <1>6, Zenon DEF Import
  <2>2. SInv /\ kind \in Tagged \cup {"download"} => killed[w] \/ slot.source = <<w, number>>
    BY <1>1, <1>3, <1>4, <1>5, <1>6, OfSources, Zenon DEF Sourced
  <2>3. (slot.result = 1) \in BOOLEAN
    OBVIOUS
  <2> QED
    BY <1>2, <1>3, <2>1, <2>2, <2>3, ReturnStep, Zenon
<1>7. CASE ~(slot.kind = kind /\ slot.result # 0) /\ kind \in Tagged /\ slot.kind # "none"
  <2>1. Return(w, kind, number, slot, FALSE, Nobody)
    BY <1>7, Zenon DEF Import
  <2>2. killed[w]
    BY <1>1, <1>3, <1>5, <1>7 DEF Local, Orderly
  <2> QED
    BY <1>2, <1>3, <2>1, <2>2, ReturnStep, Zenon
<1>8. CASE ~(slot.kind = kind /\ slot.result # 0) /\ ~(kind \in Tagged /\ slot.kind # "none")
  <2>1. YieldHost(w, kind, number)
    BY <1>8, Zenon DEF Import
  <2> QED
    BY <2>1, YieldHostStep
<1> QED
  BY <1>6, <1>7, <1>8, Zenon

-----------------------------------------------------------------------------
(* The tasks of a worker.                                                  *)

\* A step that leaves the ids, the slot and the queues alone.
LEMMA SimpleStep ==
  ASSUME IInv, NEW w \in Shells, live[w],
         NEW a, NEW g, NEW k, Becomes(w, a, js[w], g, answer[w], k),
         g.slot = guest[w].slot, g.number = guest[w].number,
         g.doing \in {guest[w].doing, "none"}, k \/ ~killed[w],
         Local(a, js[w], g, answer[w], k),
         UNCHANGED <<page, toPage, toWorker>>
  PROVE  IInv' /\ (SInv => SInv')
<1>1. js[w] \in JsType /\ toPage[w] \in Seq(Asks) /\ toWorker[w] \in Seq(Replies)
  BY OfWorker
<1>2. Queued(w, toPage[w], toWorker[w])
  BY Unposted
<1>3. "none" \notin Tagged
  BY Zenon DEF Tagged
<1>4. ASSUME SInv PROVE Keeps(w, js[w], g, answer[w], k, toPage[w], toWorker[w])
  <2>1. Later(js[w], guest[w], js[w], g)
    BY <1>1, LaterQuiet, Zenon
  <2>2. Sourced(w, js[w], g, answer[w], k)
    BY <1>3, <1>4, OfSources DEF Sourced
  <2>3. Asking(js[w], g, toPage[w]) /\ Answering(w, js[w], g, toWorker[w])
    BY <1>1, <1>4, <2>1, OfSources, LaterTraffic, Zenon
  <2> QED
    BY <2>1, <2>2, <2>3 DEF Keeps
<1> QED
  BY <1>1, <1>2, <1>4, WorkerMoves, Zenon

\* start_shell begins.
LEMMA BootStep ==
  ASSUME IInv, NEW w \in Shells, Boot(w)
  PROVE  IInv' /\ (SInv => SInv')
<1>1. /\ at[w] = "boot" /\ guest[w] \in GuestType
      /\ Local(at[w], js[w], guest[w], answer[w], killed[w])
  BY OfWorker DEF Boot
<1>2. Becomes(w, "engine", js[w], guest[w], answer[w], killed[w])
  BY DEF Boot, Becomes, IInv, Shapes
<1>3. Local("engine", js[w], guest[w], answer[w], killed[w])
  BY <1>1 DEF Local, PendingWaits, Awake, Places
<1> QED
  BY <1>1, <1>2, <1>3, SimpleStep, Zenon DEF Boot

\* The timer after a pump fires.
LEMMA PumpTimerStep ==
  ASSUME IInv, NEW w \in Shells, PumpTimer(w)
  PROVE  IInv' /\ (SInv => SInv')
<1> DEFINE g == [guest[w] EXCEPT !.fatal = FALSE]
<1>1. /\ at[w] = "pump" /\ guest[w] \in GuestType /\ killed[w] \in BOOLEAN
      /\ Local(at[w], js[w], guest[w], answer[w], killed[w])
  BY OfWorker DEF PumpTimer
<1>2. /\ g \in GuestType /\ g.slot = guest[w].slot /\ g.doing = guest[w].doing
      /\ g.number = guest[w].number /\ ~g.fatal
  BY <1>1, ZenonT(60) DEF GuestType
<1>3. Becomes(w, "engine", js[w], g, answer[w], killed[w])
  BY DEF PumpTimer, Becomes, IInv, Shapes
<1> HIDE DEF g
<1>4. Local("engine", js[w], g, answer[w], killed[w])
  BY <1>1, <1>2 DEF Local, PendingWaits, Awake, Orderly, Places
<1> QED
  BY <1>1, <1>2, <1>3, <1>4, SimpleStep DEF PumpTimer

\* A deadline of the guest passes.
LEMMA WaitTimerStep ==
  ASSUME IInv, NEW w \in Shells, WaitTimer(w)
  PROVE  IInv' /\ (SInv => SInv')
<1>1. /\ at[w] = "wait" /\ guest[w].doing = "read" /\ killed[w] \in BOOLEAN
      /\ Local(at[w], js[w], guest[w], answer[w], killed[w])
  BY OfWorker DEF WaitTimer
<1>2. Becomes(w, "go", js[w], guest[w], answer[w], killed[w])
  BY DEF WaitTimer, Becomes, IInv, Shapes
<1>3. Local("go", js[w], guest[w], answer[w], killed[w])
  BY <1>1, Zenon DEF Local, PendingWaits, Awake, Places, Tagged
<1> QED
  BY <1>1, <1>2, <1>3, SimpleStep, Zenon DEF WaitTimer

\* The engine becomes ready, posts and goes to a place where nothing is waited
\* for: GuestPumps and GuestEnds.
LEMMA ReadyStep ==
  ASSUME IInv, NEW w \in Shells, live[w], at[w] = "engine",
         NEW a \in {"pump", "over"}, NEW g \in GuestType,
         g.slot = guest[w].slot, g.doing = guest[w].doing, g.number = guest[w].number,
         Becomes(w, a, Ready(js[w]), g, answer[w], killed[w]),
         NEW r \in Seq(Asks), Post(w, r), \A j, h : Asking(j, h, r),
         UNCHANGED <<page, toWorker>>
  PROVE  IInv' /\ (SInv => SInv')
<1> DEFINE j == Ready(js[w])
           p == toPage[w] \o r
<1>1. /\ js[w] \in JsType /\ toPage[w] \in Seq(Asks) /\ toWorker[w] \in Seq(Replies)
      /\ Local(at[w], js[w], guest[w], answer[w], killed[w])
      /\ \A kind \in Tagged : js[w][kind] = 0
  BY OfWorker
<1>2. j \in JsType /\ j.sequence = js[w].sequence /\ \A kind \in Tagged : j[kind] = 0
  BY <1>1, ReadyFields, Zenon
<1>3. Queued(w, p, toWorker[w]) /\ p \in Seq(Asks)
  BY Posted, Zenon
<1> HIDE DEF j, p
<1>4. g.doing = "none" /\ "none" \notin Tagged \cup Kinds
  BY <1>1, HostAssumption DEF Local, Awake, Tagged
<1>5. Local(a, j, g, answer[w], killed[w])
  BY <1>1, <1>2, <1>4, Zenon DEF Local, PendingWaits, Awake, Orderly, Places
<1>6. ASSUME SInv PROVE Keeps(w, j, g, answer[w], killed[w], p, toWorker[w])
  <2>1. Later(js[w], guest[w], j, g)
    BY <1>1, <1>2, LaterQuiet, Zenon
  <2>2. Sourced(w, j, g, answer[w], killed[w])
    BY <1>4, <1>6, OfSources DEF Sourced
  <2>3. Asking(j, g, toPage[w]) /\ Answering(w, j, g, toWorker[w])
    BY <1>1, <1>2, <1>6, <2>1, OfSources, LaterTraffic, Zenon
  <2>4. Asking(j, g, p)
    BY <1>1, <2>3, AskingJoined DEF p
  <2> QED
    BY <2>1, <2>2, <2>3, <2>4, Zenon DEF Keeps
<1> QED
  BY <1>1, <1>3, <1>5, <1>6, WorkerMoves, Zenon DEF j

\* The guest runs until it yields or ends.
LEMMA EngineStep ==
  ASSUME IInv, NEW w \in Shells, Engine(w)
  PROVE  IInv' /\ (SInv => SInv')
<1>1. live[w] /\ at[w] = "engine" /\ UNCHANGED <<page, toWorker>>
  BY DEF Engine
<1>2. /\ js[w] \in JsType /\ guest[w] \in GuestType
      /\ killed[w] \in BOOLEAN
      /\ Local(at[w], js[w], guest[w], answer[w], killed[w])
  BY OfWorker
<1>3. guest[w].doing = "none" /\ ~guest[w].fatal
  BY <1>1, <1>2 DEF Local, Awake
<1>4. CASE ~guest[w].typed /\ YieldRead(w)
  BY <1>1, <1>3, <1>4, YieldReadStep
<1>5. CASE /\ guest' = [guest EXCEPT ![w].typed = FALSE]
           /\ UNCHANGED <<at, js, toPage, answer, killed>>
  <2> DEFINE g == [guest[w] EXCEPT !.typed = FALSE]
  <2>1. /\ g \in GuestType /\ g.slot = guest[w].slot /\ g.doing = guest[w].doing
        /\ g.number = guest[w].number /\ ~g.fatal
    BY <1>2, <1>3, Zenon DEF GuestType
  <2>2. Becomes(w, "engine", js[w], g, answer[w], killed[w])
    BY <1>1, <1>5 DEF Becomes, IInv, Shapes
  <2> HIDE DEF g
  <2>3. Local("engine", js[w], g, answer[w], killed[w])
    BY <1>1, <1>2, <2>1 DEF Local, PendingWaits, Awake, Orderly, Places
  <2> QED
    BY <1>1, <1>2, <1>5, <2>1, <2>2, <2>3, SimpleStep, Zenon
<1>6. ASSUME NEW kind \in Kinds, guest[w].number < MaxCalls, Import(w, kind, guest[w].number + 1)
      PROVE  IInv' /\ (SInv => SInv')
  <2>1. guest[w].number + 1 \in 0 .. MaxCalls
    BY <1>2, <1>6, HostAssumption, SMT, Z3 DEF GuestType
  <2> QED
    BY <1>1, <1>6, <2>1, ImportStep, Zenon
<1>7. CASE GuestPumps(w)
  <2> DEFINE g == Take(guest[w], js[w].early)
  <2>1. Becomes(w, "pump", Ready(js[w]), g, answer[w], killed[w])
    BY <1>7, Zenon DEF GuestPumps, Becomes, IInv, Shapes
  <2>2. /\ g \in GuestType /\ g.slot = guest[w].slot /\ g.doing = guest[w].doing
        /\ g.number = guest[w].number
    BY <1>2, TakeFields
  <2>3. Post(w, Started(w))
    BY <1>7 DEF GuestPumps
  <2>4. Started(w) \in Seq(Asks) /\ \A j, h : Asking(j, h, Started(w))
    BY StartedAsks, Zenon
  <2> HIDE DEF g
  <2> QED
    BY <1>1, <2>1, <2>2, <2>3, <2>4, ReadyStep, Zenon
<1>8. CASE GuestEnds(w)
  <2> DEFINE m == [type |-> "done"]
             r == Append(Started(w), m)
  <2>1. Becomes(w, "over", Ready(js[w]), guest[w], answer[w], killed[w])
    BY <1>8 DEF GuestEnds, Becomes, IInv, Shapes
  <2>2. Post(w, r)
    BY <1>8 DEF GuestEnds
  <2>3. m \in Asks /\ m.type \notin Tagged
    BY DEF Asks, Tagged
  <2> HIDE DEF m
  <2>4. r = Started(w) \o <<m>>
    BY <2>3, StartedAsks, AppendIsConcat
  <2>5. ASSUME NEW j, NEW h PROVE r \in Seq(Asks) /\ Asking(j, h, r)
    <3>1. Started(w) \in Seq(Asks) /\ Asking(j, h, Started(w))
      BY StartedAsks
    <3>2. <<m>> \in Seq(Asks) /\ Asking(j, h, <<m>>)
      BY <2>3, AskingOne
    <3>3. Started(w) \o <<m>> \in Seq(Asks) /\ Asking(j, h, Started(w) \o <<m>>)
      BY <3>1, <3>2, AskingJoined, Zenon
    <3> QED
      BY <2>4, <3>3
  <2> HIDE DEF r
  <2> QED
    BY <1>1, <1>2, <2>1, <2>2, <2>5, ReadyStep, Zenon
<1> QED
  BY <1>4, <1>5, <1>6, <1>7, <1>8 DEF Engine, GuestReads

\* The driver is resumed.
LEMMA ResumeStep ==
  ASSUME IInv, NEW w \in Shells, Resume(w)
  PROVE  IInv' /\ (SInv => SInv')
<1>1. live[w] /\ at[w] = "go" /\ UNCHANGED <<page, toWorker>>
  BY Zenon DEF Resume
<1>2. /\ guest[w] \in GuestType /\ killed[w] \in BOOLEAN /\ guest[w].number \in 0 .. MaxCalls
      /\ Local(at[w], js[w], guest[w], answer[w], killed[w])
      /\ \A kind \in Tagged : js[w][kind] = 0
  BY <1>1, OfWorker DEF GuestType
<1>3. "none" \notin Tagged \cup Kinds
  BY HostAssumption DEF Tagged
<1>4. CASE Killed(w)
  <2> DEFINE g == [guest[w] EXCEPT !.doing = "none", !.fatal = FALSE]
  <2>1. /\ g \in GuestType /\ g.slot = guest[w].slot /\ g.doing = "none"
        /\ g.number = guest[w].number /\ ~g.fatal
    BY <1>2, Zenon DEF GuestType
  <2>2. Becomes(w, "engine", js[w], g, answer[w], TRUE)
    BY <1>4, Zenon DEF Killed, Becomes, IInv, Shapes
  <2> HIDE DEF g
  <2>3. Local("engine", js[w], g, answer[w], TRUE)
    BY <1>2, <2>1, Zenon DEF Local, PendingWaits, Awake, Places
  <2> QED
    BY <1>1, <1>4, <2>1, <2>2, <2>3, SimpleStep, Zenon DEF Killed
<1>5. CASE guest[w].doing \in Kinds /\ Import(w, guest[w].doing, guest[w].number)
  BY <1>1, <1>2, <1>5, ImportStep
<1>6. CASE guest[w].doing = "read" /\ ~guest[w].typed /\ ~guest[w].fatal /\ YieldRead(w)
  BY <1>1, <1>6, YieldReadStep
<1>7. CASE guest[w].doing = "read" /\ ReadOn(w)
  <2> DEFINE g == [guest[w] EXCEPT !.doing = "none", !.typed = FALSE, !.fatal = FALSE]
  <2>1. /\ g \in GuestType /\ g.slot = guest[w].slot /\ g.doing = "none"
        /\ g.number = guest[w].number /\ ~g.fatal
    BY <1>2, Zenon DEF GuestType
  <2>2. Becomes(w, "engine", js[w], g, answer[w], killed[w])
    BY <1>7, ZenonT(60) DEF ReadOn, Becomes, IInv, Shapes
  <2> HIDE DEF g
  <2>3. killed[w] \/ Orderly(js[w], g)
    BY <1>2, <1>3, <1>7, <2>1 DEF Local, Orderly
  <2>4. Local("engine", js[w], g, answer[w], killed[w])
    BY <1>2, <2>1, <2>3, Zenon DEF Local, PendingWaits, Awake, Places
  <2> QED
    BY <1>1, <1>2, <1>7, <2>1, <2>2, <2>4, SimpleStep, Zenon DEF ReadOn
<1> QED
  BY <1>4, <1>5, <1>6, <1>7, Zenon DEF Resume

-----------------------------------------------------------------------------
(* The messages of a worker.                                               *)

\* A message is taken from the queue; the values of the worker follow.
LEMMA MessageStep ==
  ASSUME IInv, NEW w \in Shells, live[w], toWorker[w] # <<>>,
         toWorker' = [toWorker EXCEPT ![w] = Tail(@)],
         NEW a, NEW j, NEW g, Becomes(w, a, j, g, answer[w], killed[w]),
         Local(a, j, g, answer[w], killed[w]), j.sequence = js[w].sequence,
         \A kind \in Tagged : j[kind] \in {0, js[w][kind]}, g.number = guest[w].number,
         SInv => Sourced(w, j, g, answer[w], killed[w]),
         NEW r \in Seq(Asks), Asking(j, g, r), toPage' = [toPage EXCEPT ![w] = @ \o r],
         UNCHANGED page
  PROVE  IInv' /\ (SInv => SInv')
<1> DEFINE p == toPage[w] \o r
           t == Tail(toWorker[w])
<1>1. js[w] \in JsType /\ toPage[w] \in Seq(Asks) /\ toWorker[w] \in Seq(Replies) /\ j \in JsType
  BY OfWorker DEF Local
<1>2. Queued(w, p, t)
  BY Zenon DEF Queued, IInv, Shapes
<1>3. p \in Seq(Asks) /\ t \in Seq(Replies)
  BY <1>1, ConcatProperties, HeadTailProperties, Zenon
<1>4. ASSUME SInv PROVE Keeps(w, j, g, answer[w], killed[w], p, t)
  <2>1. Later(js[w], guest[w], j, g)
    BY <1>1, LaterQuiet, Zenon
  <2>2. Asking(j, g, toPage[w]) /\ Answering(w, j, g, toWorker[w])
    BY <1>1, <1>4, <2>1, OfSources, LaterTraffic, ZenonT(60)
  <2>3. Asking(j, g, p)
    BY <1>1, <2>2, AskingJoined, Zenon
  <2>4. Answering(w, j, g, t)
    BY <1>1, <2>2, AnsweringTail
  <2> QED
    BY <1>4, <2>1, <2>3, <2>4 DEF Keeps
<1> HIDE DEF p, t
<1> QED
  BY <1>2, <1>3, <1>4, WorkerMoves, Zenon

\* No message is an empty sequence of them.
LEMMA NothingPosted ==
  ASSUME IInv, NEW w \in Shells, UNCHANGED toPage, NEW j, NEW g
  PROVE  /\ toPage' = [toPage EXCEPT ![w] = @ \o <<>>]
         /\ <<>> \in Seq(Asks) /\ Asking(j, g, <<>>)
<1>1. toPage[w] \in Seq(Asks)
  BY OfWorker
<1>2. toPage[w] \o <<>> = toPage[w]
  BY <1>1, ConcatEmptySeq
<1> QED
  BY <1>2 DEF IInv, Shapes, Asking

\* The worker takes a key, a signal or a resize.
LEMMA OnEventStep ==
  ASSUME IInv, NEW w \in Shells, live[w], toWorker[w] # <<>>,
         at[w] \in {"boot", "wait", "pump", "over"},
         toWorker' = [toWorker EXCEPT ![w] = Tail(@)],
         NEW type \in Events, OnEvent(w, type), UNCHANGED <<page, answer, killed>>
  PROVE  IInv' /\ (SInv => SInv')
<1>1. /\ at[w] \in Places /\ js[w] \in JsType /\ guest[w] \in GuestType
      /\ answer[w] \in AnswerType /\ killed[w] \in BOOLEAN
      /\ Local(at[w], js[w], guest[w], answer[w], killed[w])
  BY OfWorker
<1>2. CASE /\ ~js[w].ready
           /\ js' = [js EXCEPT ![w].early = @ \cup {type}]
           /\ UNCHANGED <<at, guest, toPage>>
  <2> DEFINE j == [js[w] EXCEPT !.early = @ \cup {type}]
  <2>1. /\ j \in JsType /\ j.ready = js[w].ready /\ j.sequence = js[w].sequence
        /\ \A kind \in Tagged : j[kind] = js[w][kind]
    BY <1>1 DEF JsType, Tagged
  <2>2. Becomes(w, at[w], j, guest[w], answer[w], killed[w])
    BY <1>2 DEF Becomes, IInv, Shapes
  <2> HIDE DEF j
  <2>3. Local(at[w], j, guest[w], answer[w], killed[w])
    BY <1>1, <2>1, Zenon DEF Local, PendingWaits, Awake, Orderly
  <2>4. SInv => Sourced(w, j, guest[w], answer[w], killed[w])
    BY <2>1, OfSources DEF Sourced
  <2>5. /\ toPage' = [toPage EXCEPT ![w] = @ \o <<>>]
        /\ <<>> \in Seq(Asks) /\ Asking(j, guest[w], <<>>)
    BY <1>2, NothingPosted
  <2> QED
    BY <2>1, <2>2, <2>3, <2>4, <2>5, MessageStep, Zenon
<1>3. CASE /\ js[w].suite # 0
           /\ Post(w, << [type |-> "suiteCancel", id |-> js[w].suite] >>)
           /\ UNCHANGED <<at, js, guest>>
  <2> DEFINE m == [type |-> "suiteCancel", id |-> js[w].suite]
  <2>1. m \in Asks /\ m.type \notin Tagged
    BY <1>1, Zenon DEF Asks, Tagged, JsType
  <2>2. toPage' = [toPage EXCEPT ![w] = @ \o <<m>>]
    BY <1>3, SMT, Z3 DEF Post
  <2> HIDE DEF m
  <2>3. <<m>> \in Seq(Asks) /\ Asking(js[w], guest[w], <<m>>)
    BY <2>1, AskingOne
  <2>4. Becomes(w, at[w], js[w], guest[w], answer[w], killed[w])
    BY <1>3, Zenon DEF Becomes, IInv, Shapes
  <2>5. SInv => Sourced(w, js[w], guest[w], answer[w], killed[w])
    BY OfSources
  <2> QED
    BY <1>1, <2>2, <2>3, <2>4, <2>5, MessageStep, ZenonT(60)
<1>4. CASE /\ js[w].ready
           /\ guest' = [guest EXCEPT ![w] = Take(@, {type})]
           /\ WakeIO(w, js[w])
           /\ UNCHANGED toPage
  <2> DEFINE b == at[w] # "wait"
             j == [js[w] EXCEPT !.ioPending = @ \/ b]
             g == Take(guest[w], {type})
             a == IF at[w] = "wait" THEN Woken(js[w]) ELSE at[w]
  <2>1. /\ j \in JsType /\ j.ready = js[w].ready /\ j.sequence = js[w].sequence
        /\ \A kind \in Tagged : j[kind] = js[w][kind]
    BY <1>1, Zenon DEF JsType, Tagged
  <2>2. /\ g \in GuestType /\ g.slot = guest[w].slot /\ g.doing = guest[w].doing
        /\ g.number = guest[w].number
    BY <1>1, TakeFields
  <2>3. Becomes(w, a, j, g, answer[w], killed[w])
    BY <1>4 DEF WakeIO, Becomes, IInv, Shapes
  <2>4. /\ at[w] # "wait" => a = at[w] /\ a \notin {"boot", "engine", "go", "wait"}
        /\ at[w] = "wait" => a \in {"go", "wait"}
        /\ at[w] = "wait" /\ a = "wait" => guest[w].doing # "read"
        /\ a = "go" => \A kind \in Tagged : js[w][kind] = 0
    BY <1>1, <1>4 DEF Woken, Pending, Local, Awake, PendingWaits, Tagged, Places
  <2> HIDE DEF j, g, a
  <2>5. PendingWaits(a, j, g)
    BY <1>1, <2>1, <2>2, <2>4, Zenon DEF Local, PendingWaits
  <2>6. Awake(a, j, g)
    BY <1>1, <2>2, <2>4, Zenon DEF Local, Awake
  <2>7. Local(a, j, g, answer[w], killed[w])
    BY <1>1, <2>1, <2>2, <2>4, <2>5, <2>6, Zenon DEF Local, Orderly, Places
  <2>8. SInv => Sourced(w, j, g, answer[w], killed[w])
    BY <2>1, <2>2, OfSources, Zenon DEF Sourced
  <2>9. /\ toPage' = [toPage EXCEPT ![w] = @ \o <<>>]
        /\ <<>> \in Seq(Asks) /\ Asking(j, g, <<>>)
    BY <1>4, NothingPosted, Zenon
  <2> QED
    BY <2>1, <2>2, <2>3, <2>7, <2>8, <2>9, MessageStep, Zenon
<1> QED
  BY <1>2, <1>3, <1>4, Zenon DEF OnEvent

\* The worker takes a reply of the page.
LEMMA OnReplyStep ==
  ASSUME IInv, NEW w \in Shells, live[w], toWorker[w] # <<>>,
         at[w] \in {"boot", "wait", "pump", "over"},
         toWorker' = [toWorker EXCEPT ![w] = Tail(@)],
         NEW m \in Replies, m = toWorker[w][1], m.type \notin Events, OnReply(w, m),
         UNCHANGED <<page, toPage, answer, killed>>
  PROVE  IInv' /\ (SInv => SInv')
<1> DEFINE kind == m.type
<1>1. /\ at[w] \in Places /\ js[w] \in JsType /\ guest[w] \in GuestType
      /\ answer[w] \in AnswerType /\ killed[w] \in BOOLEAN
      /\ Local(at[w], js[w], guest[w], answer[w], killed[w])
  BY OfWorker
<1>2. /\ kind \in Tagged \cup {"upload"} /\ m.id \in Nat /\ m.ok \in BOOLEAN /\ m.source \in Sources
  BY DEF Replies
<1>3. CASE UNCHANGED <<at, js, guest>>
  <2>1. Becomes(w, at[w], js[w], guest[w], answer[w], killed[w])
    BY <1>3, Zenon DEF Becomes, IInv, Shapes
  <2>2. /\ toPage' = [toPage EXCEPT ![w] = @ \o <<>>]
        /\ <<>> \in Seq(Asks) /\ Asking(js[w], guest[w], <<>>)
    BY NothingPosted, Zenon
  <2>3. SInv => Sourced(w, js[w], guest[w], answer[w], killed[w])
    BY OfSources
  <2> QED
    BY <1>1, <2>1, <2>2, <2>3, MessageStep, Zenon
<1>4. CASE /\ js[w].ready /\ guest[w].slot.kind = kind
           /\ kind \in Tagged => m.id = js[w][kind]
           /\ Fill(w, m)
           /\ WakeIO(w, IF kind \in Tagged THEN [js[w] EXCEPT ![kind] = 0] ELSE js[w])
  <2> DEFINE i == IF kind \in Tagged THEN [js[w] EXCEPT ![kind] = 0] ELSE js[w]
             b == at[w] # "wait"
             j == [i EXCEPT !.ioPending = @ \/ b]
             a == IF at[w] = "wait" THEN Woken(i) ELSE at[w]
  <2>1. PICK result \in {-1, 1} :
          guest' = [guest EXCEPT ![w].slot.result = result, ![w].slot.source = m.source]
    BY <1>4, Zenon DEF Fill
  <2> DEFINE g == [guest[w] EXCEPT !.slot = [guest[w].slot EXCEPT !.result = result, !.source = m.source]]
  <2>2. /\ i \in JsType /\ i.ready = js[w].ready /\ i.sequence = js[w].sequence
        /\ \A q \in Tagged : i[q] = IF q = kind THEN 0 ELSE js[w][q]
    BY <1>1, Zenon DEF JsType, Tagged
  <2>3. \A q \in Tagged : i[q] = 0
    <3>1. \A q \in Tagged : q # kind => js[w][q] = 0
      <4>1. ASSUME NEW q \in Tagged, q # kind, js[w][q] # 0 PROVE FALSE
        <5>1. guest[w].slot = [NoSlot EXCEPT !.kind = q]
          BY <1>1, <4>1 DEF Local, PendingWaits
        <5>2. guest[w].slot.kind = q
          BY <5>1 DEF NoSlot
        <5> QED
          BY <1>4, <4>1, <5>2
      <4> QED
        BY <4>1, Zenon
    <3> QED
      BY <2>2, <3>1
  <2>4. /\ guest[w].slot \in SlotType
        /\ g \in GuestType /\ g.slot.kind = kind /\ g.slot.result = result
        /\ g.slot.source = m.source /\ g.doing = guest[w].doing /\ g.number = guest[w].number
        /\ g.typed = guest[w].typed /\ g.fatal = guest[w].fatal
    <3> DEFINE slot == [guest[w].slot EXCEPT !.result = result, !.source = m.source]
    <3>1. guest[w].slot \in SlotType
      BY <1>1 DEF GuestType
    <3>2. result \in -1 .. 1
      OBVIOUS
    <3>3. /\ slot \in SlotType /\ slot.kind = kind /\ slot.result = result
          /\ slot.source = m.source
      BY <1>2, <1>4, <3>1, <3>2, Zenon DEF SlotType
    <3>4. g = [guest[w] EXCEPT !.slot = slot]
      OBVIOUS
    <3> HIDE DEF slot, g
    <3> QED
      BY <1>1, <3>1, <3>3, <3>4, Zenon DEF GuestType
  <2>5. guest' = [guest EXCEPT ![w] = g]
    BY <2>1, <1>1, <2>4, ZenonT(60) DEF IInv, Shapes, GuestType, SlotType
  <2>6. Becomes(w, a, j, g, answer[w], killed[w])
    BY <1>4, <2>5 DEF WakeIO, Becomes, IInv, Shapes
  <2>7. a = IF at[w] = "wait" THEN "go" ELSE at[w]
    BY <2>3 DEF Woken, Pending, Tagged
  <2> HIDE DEF i, g, a
  <2>8. /\ j \in JsType /\ j.ready = js[w].ready /\ j.sequence = js[w].sequence
        /\ \A q \in Tagged : j[q] = 0
    BY <2>2, <2>3, Zenon DEF JsType, Tagged
  <2> HIDE DEF j
  <2>9. PendingWaits(a, j, g)
    BY <2>8 DEF PendingWaits
  <2>10. Awake(a, j, g)
    BY <1>1, <2>4, <2>7, <2>8, Zenon DEF Local, Awake
  <2>11. ~killed[w] => guest[w].doing = kind
    <3>1. guest[w].doing \in Kinds \cup {"read", "none"}
      BY <1>1, Zenon DEF GuestType
    <3>2. guest[w].slot.kind = kind /\ NoSlot.kind = "none" /\ kind # "none"
      BY <1>2, <1>4, Zenon DEF NoSlot, Tagged
    <3>3. ASSUME ~killed[w] PROVE Orderly(js[w], guest[w])
      BY <1>1, <3>3 DEF Local
    <3>4. ASSUME Orderly(js[w], guest[w]) PROVE guest[w].doing = kind
      <4>1. guest[w].doing \notin {"none", "read"}
        BY <3>2, <3>4, Zenon DEF Orderly
      <4> QED
        BY <3>1, <3>2, <3>4, <4>1, Zenon DEF Orderly
    <3> QED
      BY <3>3, <3>4
  <2>12. killed[w] \/ Orderly(j, g)
    BY <1>2, <2>4, <2>11 DEF Orderly, Tagged
  <2>13. Local(a, j, g, answer[w], killed[w])
    BY <1>1, <2>4, <2>7, <2>8, <2>9, <2>10, <2>12, Zenon DEF Local, Places
  <2>14. ASSUME SInv PROVE Sourced(w, j, g, answer[w], killed[w])
    <3>1. Len(toWorker[w]) \in Nat /\ Len(toWorker[w]) >= 1
      BY OfWorker, EmptySeq, LenProperties, SMT, Z3
    <3>2. /\ m.source[1] = w
          /\ kind \in Tagged => m.source[2] = guest[w].number
      BY <1>2, <1>4, <2>14, <3>1, OfSources, SMT, Z3 DEF Answering, Known
    <3>3. kind \in Tagged => m.source = <<w, guest[w].number>>
      BY <1>2, <3>2 DEF Sources, Nobody
    <3> QED
      BY <1>2, <2>4, <2>11, <2>14, <3>2, <3>3, OfSources, Zenon DEF Sourced, Tagged
  <2>15. /\ toPage' = [toPage EXCEPT ![w] = @ \o <<>>]
         /\ <<>> \in Seq(Asks) /\ Asking(j, g, <<>>)
    BY NothingPosted
  <2> QED
    BY <2>4, <2>6, <2>8, <2>13, <2>14, <2>15, MessageStep, Zenon
<1> QED
  BY <1>3, <1>4, Zenon DEF OnReply

\* The worker takes any message.
LEMMA OnMessageStep ==
  ASSUME IInv, NEW w \in Shells, OnMessage(w)
  PROVE  IInv' /\ (SInv => SInv')
<1> DEFINE m == Head(toWorker[w])
<1>1. toWorker[w] \in Seq(Replies) /\ toWorker[w] # <<>>
  BY OfWorker DEF OnMessage
<1>2. m \in Replies /\ m = toWorker[w][1]
  BY <1>1, HeadTailProperties
<1>3. CASE m.type \in Events /\ OnEvent(w, m.type)
  BY <1>3, OnEventStep, Zenon DEF OnMessage
<1>4. CASE m.type \notin Events /\ OnReply(w, m) /\ UNCHANGED toPage
  BY <1>2, <1>4, OnReplyStep, Zenon DEF OnMessage
<1> QED
  BY <1>3, <1>4, Zenon DEF OnMessage

-----------------------------------------------------------------------------
(* The page.                                                               *)

workers == <<at, js, guest, answer, killed>>

\* The page changes queues and services and leaves the workers alone.
LEMMA PageMoves ==
  ASSUME IInv, UNCHANGED <<workers, current, starting, made, live>>,
         sent' \in [Shells -> Nat],
         toWorker' \in [Shells -> Seq(Replies)], toPage' \in [Shells -> Seq(Asks)],
         \A w \in Shells : w > made => toWorker'[w] = <<>> /\ toPage'[w] = <<>>,
         \A s \in services' : IsService(s)
  PROVE  /\ IInv'
         /\ /\ SInv
            /\ \A s \in services' : s.from = s.to
            /\ \A w \in Shells : live[w] =>
                 /\ Asking(js[w], guest[w], toPage'[w])
                 /\ Answering(w, js[w], guest[w], toWorker'[w])
                 /\ Serving(w, js[w], guest[w], services')
            => SInv'
<1>1. /\ at' = at /\ js' = js /\ guest' = guest /\ answer' = answer /\ killed' = killed
      /\ current' = current /\ starting' = starting /\ made' = made /\ live' = live
  BY DEF workers
<1>2. Page'
  BY <1>1 DEF IInv, Page, IsService
<1>3. Shapes'
  BY <1>1 DEF IInv, Shapes
<1>4. \A w \in Shells : Local(at[w], js[w], guest[w], answer[w], killed[w])'
  BY <1>1 DEF IInv, Local, PendingWaits, Awake, Orderly
<1>5. ASSUME SInv, \A s \in services' : s.from = s.to,
             \A w \in Shells : live[w] =>
               /\ Asking(js[w], guest[w], toPage'[w])
               /\ Answering(w, js[w], guest[w], toWorker'[w])
               /\ Serving(w, js[w], guest[w], services')
      PROVE  SInv'
  <2>1. Alone'
    BY <1>1, <1>5, Zenon DEF SInv, Alone
  <2>2. \A w \in Shells : Sourced(w, js[w], guest[w], answer[w], killed[w])'
    BY <1>1, <1>5, Zenon DEF SInv, Sourced
  <2>3. \A w \in Shells : live'[w] => Traffic(w)'
    BY <1>1, <1>5, SMT, Z3 DEF Traffic, Asking, Answering, Serving, Known
  <2> QED
    BY <2>1, <2>2, <2>3, Zenon DEF SInv
<1> QED
  BY <1>2, <1>3, <1>4, <1>5, Zenon DEF IInv

\* A worker that has just been created.
LEMMA BlankLocal ==
  /\ Local("boot", NewJs, NewGuest, NoAnswer, FALSE)
  /\ \A w : Sourced(w, NewJs, NewGuest, NoAnswer, FALSE)
<1>1. "none" \notin Kinds \cup Tagged \cup {"download"}
  BY HostAssumption, Zenon DEF Tagged
<1>2. /\ NewJs \in JsType /\ ~NewJs.ready /\ \A kind \in Tagged : NewJs[kind] = 0
  BY DEF NewJs, JsType, Tagged
<1>3. NoSlot \in SlotType /\ NoSlot.source[1] = 0
  BY DEF NoSlot, SlotType, Sources, Nobody
<1>4. /\ NewGuest \in GuestType /\ NewGuest.slot = NoSlot /\ NewGuest.doing = "none"
      /\ ~NewGuest.fatal
  BY <1>3, HostAssumption DEF NewGuest, GuestType
<1>5. NoAnswer \in AnswerType /\ NoAnswer.kind = "none" /\ NoAnswer.source[1] = 0
  BY HostAssumption DEF NoAnswer, AnswerType, Sources, Nobody
<1>6. Local("boot", NewJs, NewGuest, NoAnswer, FALSE)
  BY <1>1, <1>2, <1>4, <1>5 DEF Local, PendingWaits, Awake, Orderly, Places
<1>7. \A w : Sourced(w, NewJs, NewGuest, NoAnswer, FALSE)
  BY <1>1, <1>3, <1>4, <1>5, Zenon DEF Sourced
<1> QED
  BY <1>6, <1>7, Zenon

\* The page terminates a worker: its queues are gone.
LEMMA TerminateStep ==
  ASSUME IInv, Terminate(current), made' = made, current' \in {0, current},
         starting' \in 0 .. MaxStarting, made + starting' <= MaxShells
  PROVE  IInv' /\ (SInv => SInv')
<1>1. \A v \in Shells \ {current} :
        /\ at'[v] = at[v] /\ js'[v] = js[v] /\ guest'[v] = guest[v] /\ answer'[v] = answer[v]
        /\ killed'[v] = killed[v] /\ toPage'[v] = toPage[v] /\ toWorker'[v] = toWorker[v]
        /\ live'[v] = live[v] /\ sent'[v] = sent[v]
  BY ZenonT(60) DEF Terminate
<1>2. current \in Shells =>
        /\ at'[current] = "boot" /\ js'[current] = NewJs /\ guest'[current] = NewGuest
        /\ answer'[current] = NoAnswer /\ killed'[current] = FALSE
        /\ toPage'[current] = <<>> /\ toWorker'[current] = <<>>
        /\ live'[current] = FALSE /\ sent'[current] = 0
  BY Zenon DEF Terminate
<1>3. \A v \in Shells : Local(at'[v], js'[v], guest'[v], answer'[v], killed'[v])
  BY <1>1, <1>2, BlankLocal, ZenonT(60) DEF IInv
<1>4. Shapes'
  <2>1. "boot" \in Places /\ NewJs \in JsType /\ NewGuest \in GuestType /\ NoAnswer \in AnswerType
    BY BlankLocal DEF Local
  <2>2. <<>> \in Seq(Replies) /\ <<>> \in Seq(Asks)
    OBVIOUS
  <2>3. at' \in [Shells -> Places] /\ js' \in [Shells -> JsType]
    BY <2>1, Zenon DEF IInv, Shapes, Terminate
  <2>4. guest' \in [Shells -> GuestType] /\ answer' \in [Shells -> AnswerType]
    BY <2>1, ZenonT(60) DEF IInv, Shapes, Terminate
  <2>5. killed' \in [Shells -> BOOLEAN]
    BY ZenonT(60) DEF IInv, Shapes, Terminate
  <2>6. toWorker' \in [Shells -> Seq(Replies)] /\ toPage' \in [Shells -> Seq(Asks)]
    BY <2>2, Zenon DEF IInv, Shapes, Terminate
  <2> QED
    BY <2>3, <2>4, <2>5, <2>6 DEF Shapes
<1>5. \A s \in services' : IsService(s) /\ \E q \in services : s.from = q.from /\ s.to = q.to
  <2>1. ASSUME NEW q \in services, NEW c \in {0, q.call}, NEW n,
               NEW s, s = [q EXCEPT !.call = c, !.nth = n]
        PROVE  IsService(s) /\ s.from = q.from /\ s.to = q.to
    <3>1. IsService(q)
      BY DEF IInv, Page
    <3>2. s = [type |-> q.type, id |-> q.id, call |-> c, from |-> q.from, to |-> q.to, nth |-> n]
      BY <2>1, <3>1, Zenon DEF IsService
    <3>3. c \in 0 .. MaxCalls
      BY <2>1, <3>1, HostAssumption DEF IsService
    <3>4. /\ s.type = q.type /\ s.id = q.id /\ s.call = c /\ s.from = q.from /\ s.to = q.to
          /\ s.nth = n
      BY <3>2
    <3>5. s = [type |-> s.type, id |-> s.id, call |-> s.call, from |-> s.from, to |-> s.to, nth |-> s.nth]
      BY <3>2, <3>4
    <3> QED
      BY <3>1, <3>3, <3>4, <3>5, Zenon DEF IsService
  <2>2. ASSUME NEW s \in services'
        PROVE  \E q \in services : \E c \in {0, q.call} : \E n :
                 s = [q EXCEPT !.call = c, !.nth = n]
    BY <2>2, Zenon DEF Terminate, Copies
  <2>3. ASSUME NEW s \in services'
        PROVE  IsService(s) /\ \E q \in services : s.from = q.from /\ s.to = q.to
    <3>1. PICK q \in services : \E c \in {0, q.call} : \E n :
            s = [q EXCEPT !.call = c, !.nth = n]
      BY <2>2, ZenonT(60)
    <3>2. PICK c \in {0, q.call} : \E n : s = [q EXCEPT !.call = c, !.nth = n]
      BY <3>1, ZenonT(60)
    <3>3. PICK n : s = [q EXCEPT !.call = c, !.nth = n]
      BY <3>2, ZenonT(60)
    <3>4. IsService(s) /\ s.from = q.from /\ s.to = q.to
      BY <2>1, <3>3, Zenon
    <3> QED
      BY <3>4
  <2> QED
    BY <2>3
<1>6. Page'
  <2>1. live' \in [Shells -> BOOLEAN] /\ sent' \in [Shells -> Nat]
    BY ZenonT(60) DEF IInv, Page, Terminate
  <2>2. \A v \in Shells : v > made => ~live'[v] /\ toWorker'[v] = <<>> /\ toPage'[v] = <<>>
    BY <1>1, <1>2, Zenon DEF IInv, Page
  <2>3. current' \in 0 .. made
    BY DEF IInv, Page
  <2> QED
    BY <1>5, <2>1, <2>2, <2>3 DEF IInv, Page, IsService
<1>7. ASSUME SInv PROVE SInv'
  <2>1. \A v \in Shells : ~live'[v]
    BY <1>1, <1>2, <1>7, Zenon DEF SInv, Alone
  <2>2. \A s \in services' : s.from = s.to
    BY <1>5, <1>7 DEF SInv, Alone
  <2>3. \A v \in Shells : Sourced(v, js'[v], guest'[v], answer'[v], killed'[v])
    BY <1>1, <1>2, <1>7, BlankLocal, Zenon DEF SInv
  <2> QED
    BY <2>1, <2>2, <2>3, Zenon DEF SInv, Alone, Sourced
<1>8. \A v \in Shells : Local(at[v], js[v], guest[v], answer[v], killed[v])'
  BY <1>3 DEF Local, PendingWaits, Awake, Orderly
<1> QED
  BY <1>4, <1>6, <1>7, <1>8 DEF IInv

\* finish of app.js.
LEMMA FinishStep ==
  ASSUME IInv, Finish
  PROVE  IInv' /\ (SInv => SInv')
<1>1. /\ Terminate(current) /\ made' = made /\ current' = 0
      /\ starting' \in 0 .. MaxStarting /\ made + starting' <= MaxShells
  BY DEF Finish, IInv, Page
<1> QED
  BY <1>1, TerminateStep

\* startShell of app.js, before and after its await.
LEMMA StartShellStep ==
  ASSUME IInv, StartShell
  PROVE  IInv' /\ (SInv => SInv')
<1>1. /\ Terminate(current) /\ made' = made /\ current' = current
      /\ starting' \in 0 .. MaxStarting /\ made + starting' <= MaxShells
  BY HostAssumption DEF StartShell, IInv, Page
<1> QED
  BY <1>1, TerminateStep

\* Only here the shells differ: with one startShell at a time none lives.
LEMMA ShellCreatedStep ==
  ASSUME IInv, ShellCreated
  PROVE  IInv' /\ (SInv /\ MaxStarting = 1 => SInv')
<1> DEFINE n == made + 1
<1>1. /\ starting > 0 /\ starting' = starting - 1 /\ made' = n /\ current' = n
      /\ live' = [live EXCEPT ![n] = TRUE] /\ sent' = sent /\ services' = services
      /\ toWorker' = toWorker /\ toPage' = toPage /\ at' = at /\ js' = js
      /\ guest' = guest /\ answer' = answer /\ killed' = killed
  BY Zenon DEF ShellCreated
<1>2. n \in Shells /\ n \in Nat /\ made \in Nat /\ n > made
  BY <1>1, HostAssumption DEF IInv, Page, Shells
<1>3. toWorker[n] = <<>> /\ toPage[n] = <<>>
  BY <1>2 DEF IInv, Page
<1>4. Page'
  <2>1. /\ made' \in 0 .. MaxShells /\ starting' \in 0 .. MaxStarting
        /\ made' + starting' <= MaxShells /\ current' \in 0 .. made'
    BY <1>1, HostAssumption DEF IInv, Page
  <2>2. live' \in [Shells -> BOOLEAN]
    BY <1>1, Zenon DEF IInv, Page
  <2>3. \A v \in Shells : v > n => v > made /\ v # n
    BY <1>2 DEF Shells
  <2>4. \A v \in Shells : v > n => ~live'[v] /\ toWorker[v] = <<>> /\ toPage[v] = <<>>
    BY <1>1, <2>3, Zenon DEF IInv, Page
  <2>5. ASSUME NEW s \in services PROVE IsService(s)'
    <3>1. IsService(s)
      BY DEF IInv, Page
    <3> QED
      BY <1>1, <1>2, <3>1 DEF IsService
  <2> QED
    BY <1>1, <2>1, <2>2, <2>4, <2>5, Zenon DEF IInv, Page
<1>5. Shapes' /\ \A v \in Shells : Local(at[v], js[v], guest[v], answer[v], killed[v])'
  BY <1>1, Zenon DEF IInv, Shapes, Local, PendingWaits, Awake, Orderly
<1>6. ASSUME SInv, MaxStarting = 1 PROVE SInv'
  <2>1. starting = 1 /\ starting' = 0
    BY <1>1, <1>6, SMT, Z3 DEF IInv, Page
  <2>2. \A v \in Shells : live'[v] => v = n
    BY <1>1, <1>6, <2>1 DEF SInv, Alone, IInv, Page
  <2>3. \A s \in services : s.to # n
    BY <1>2 DEF IInv, Page, IsService
  <2>4. Asking(js[n], guest[n], <<>>) /\ Answering(n, js[n], guest[n], <<>>)
        /\ Serving(n, js[n], guest[n], services)
    BY <2>3, SMT, Z3 DEF Asking, Answering, Serving
  <2>5. \A v \in Shells : live'[v] => Traffic(v)'
    BY <1>1, <1>3, <2>2, <2>4 DEF Traffic, Asking, Answering, Serving, Known
  <2> QED
    BY <1>1, <1>6, <2>1, <2>2, <2>5, Zenon DEF SInv, Alone, Sourced
<1> QED
  BY <1>4, <1>5, <1>6 DEF IInv

\* A reply to s is posted to the shell, if that is who asked.
LEMMA Delivered ==
  ASSUME IInv, NEW s, s.type \in Tagged \cup {"upload"}, s.id \in Nat, s.call \in 0 .. MaxCalls,
         s.from \in Shells, NEW ok \in BOOLEAN, Deliver(s, ok)
  PROVE  /\ toWorker' \in [Shells -> Seq(Replies)]
         /\ \A w \in Shells : w > made => toWorker'[w] = <<>>
         /\ \A w \in Shells :
              /\ Answering(w, js[w], guest[w], toWorker[w])
              /\ s.to = w => s.from = w /\ (s.type \in Tagged => Known(js[w], guest[w], s, s.call))
              => Answering(w, js[w], guest[w], toWorker'[w])
<1> DEFINE m == [type |-> s.type, id |-> s.id, ok |-> ok, source |-> <<s.from, s.call>>]
<1>1. m \in Replies
  <2>1. <<s.from, s.call>> \in Sources
    BY DEF Sources
  <2> QED
    BY <2>1 DEF Replies
<1>2. /\ m.type = s.type /\ m.id = s.id /\ m.source[1] = s.from /\ m.source[2] = s.call
  OBVIOUS
<1>3. \A w \in Shells : toWorker[w] \in Seq(Replies)
  BY DEF IInv, Shapes
<1>4. toWorker' = [w \in Shells |-> IF w = s.to /\ w = current /\ live[w]
                                    THEN Append(toWorker[w], m) ELSE toWorker[w]]
  BY DEF Deliver
<1> HIDE DEF m
<1>5. \A w \in Shells : Append(toWorker[w], m) \in Seq(Replies)
  BY <1>1, <1>3
<1>6. toWorker' \in [Shells -> Seq(Replies)]
  BY <1>3, <1>4, <1>5, Zenon
<1>7. \A w \in Shells : w > made => toWorker'[w] = <<>>
  BY <1>4, Zenon DEF IInv, Page
<1>8. ASSUME NEW w \in Shells, Answering(w, js[w], guest[w], toWorker[w]),
             s.to = w => s.from = w /\ (s.type \in Tagged => Known(js[w], guest[w], s, s.call))
      PROVE  Answering(w, js[w], guest[w], toWorker'[w])
  <2>1. CASE s.to = w /\ w = current /\ live[w]
    <3>1. s.type \in Tagged => Known(js[w], guest[w], m, m.source[2])
      BY <1>2, <1>8, <2>1, Zenon DEF Known
    <3>2. Answering(w, js[w], guest[w], Append(toWorker[w], m))
      BY <1>1, <1>2, <1>3, <1>8, <2>1, <3>1, AnsweringMore, Zenon
    <3> QED
      BY <1>4, <2>1, <3>2, Zenon
  <2>2. CASE ~(s.to = w /\ w = current /\ live[w])
    BY <1>4, <1>8, <2>2
  <2> QED
    BY <2>1, <2>2, Zenon
<1> QED
  BY <1>6, <1>7, <1>8, Zenon

\* A service of the page ends and posts its reply.
LEMMA ServeStep ==
  ASSUME IInv, NEW s \in services, NEW ok \in BOOLEAN, Serve(s, ok)
  PROVE  IInv' /\ (SInv => SInv')
<1>1. IsService(s)
  BY DEF IInv, Page
<1>2. s.type \in Tagged \cup {"upload"} /\ s.id \in Nat /\ s.call \in 0 .. MaxCalls /\ s.from \in Shells
  BY <1>1 DEF IsService, Tagged
<1>3. /\ Deliver(s, ok) /\ services' = services \ {s} /\ toPage' = toPage /\ sent' = sent
      /\ UNCHANGED <<workers, current, starting, made, live>>
  BY Zenon DEF Serve, workers
<1>4. toWorker' \in [Shells -> Seq(Replies)] /\ \A w \in Shells : w > made => toWorker'[w] = <<>>
  BY <1>2, <1>3, Delivered, Zenon
<1>5. /\ sent' \in [Shells -> Nat] /\ toPage' \in [Shells -> Seq(Asks)]
      /\ \A w \in Shells : w > made => toPage'[w] = <<>>
      /\ \A q \in services' : IsService(q)
  BY <1>3, Zenon DEF IInv, Page, Shapes
<1>6. ASSUME SInv
      PROVE  /\ \A q \in services' : q.from = q.to
             /\ \A w \in Shells : live[w] =>
                  /\ Asking(js[w], guest[w], toPage'[w])
                  /\ Answering(w, js[w], guest[w], toWorker'[w])
                  /\ Serving(w, js[w], guest[w], services')
  <2>1. \A q \in services' : q.from = q.to
    BY <1>3, <1>6, Zenon DEF SInv, Alone
  <2>2. ASSUME NEW w \in Shells, live[w]
        PROVE  /\ Asking(js[w], guest[w], toPage'[w])
               /\ Answering(w, js[w], guest[w], toWorker'[w])
               /\ Serving(w, js[w], guest[w], services')
    <3>1. Traffic(w) /\ s.from = s.to
      BY <1>6, <2>2, Zenon DEF SInv, Alone
    <3>2. s.to = w => s.from = w /\ (s.type \in Tagged => Known(js[w], guest[w], s, s.call))
      BY <3>1 DEF Traffic, Serving
    <3>3. Answering(w, js[w], guest[w], toWorker'[w])
      BY <1>2, <1>3, <3>1, <3>2, Delivered, Zenon DEF Traffic
    <3> QED
      BY <1>3, <3>1, <3>3, Zenon DEF Traffic, Serving
  <2> QED
    BY <2>1, <2>2, Zenon
<1>7. \A w \in Shells : w > made => toWorker'[w] = <<>> /\ toPage'[w] = <<>>
  BY <1>4, <1>5, Zenon
<1> QED
  BY <1>3, <1>4, <1>5, <1>6, <1>7, PageMoves, Zenon

\* An event is queued for the shell.
QueuesEvent(type) ==
  toWorker' = [toWorker EXCEPT ![current] = Append(@, [type |-> type])]

\* An event joins the queue of the current worker.
LEMMA EventQueued ==
  ASSUME IInv, NEW type \in Events, QueuesEvent(type)
  PROVE  /\ toWorker' \in [Shells -> Seq(Replies)]
         /\ \A w \in Shells : w > made => toWorker'[w] = <<>>
         /\ \A w \in Shells : Answering(w, js[w], guest[w], toWorker[w]) =>
                                Answering(w, js[w], guest[w], toWorker'[w])
<1> DEFINE m == [type |-> type]
<1>1. m \in Replies /\ m.type \notin Tagged \cup {"upload"}
  BY DEF Replies, Events, Tagged
<1>2. toWorker' = [toWorker EXCEPT ![current] = Append(@, m)]
  BY DEF QueuesEvent
<1> HIDE DEF m
<1>3. toWorker \in [Shells -> Seq(Replies)]
  BY DEF IInv, Shapes
<1>4. \A w \in Shells : toWorker[w] \in Seq(Replies) /\ Append(toWorker[w], m) \in Seq(Replies)
  BY <1>1, <1>3
<1>5. toWorker' = [w \in Shells |-> IF w = current THEN Append(toWorker[w], m) ELSE toWorker[w]]
  BY <1>2, <1>3, ZenonT(60)
<1>6. toWorker' \in [Shells -> Seq(Replies)]
  BY <1>4, <1>5, Zenon
<1>7. \A w \in Shells : w > made => toWorker'[w] = <<>>
  BY <1>5 DEF IInv, Page, Shells
<1>8. ASSUME NEW w \in Shells, Answering(w, js[w], guest[w], toWorker[w])
      PROVE  Answering(w, js[w], guest[w], toWorker'[w])
  <2>1. Answering(w, js[w], guest[w], Append(toWorker[w], m))
    BY <1>1, <1>4, <1>8, AnsweringMore, Zenon
  <2> QED
    BY <1>5, <1>8, <2>1, Zenon
<1> QED
  BY <1>6, <1>7, <1>8

\* The page forwards an event.
LEMMA ForwardStep ==
  ASSUME IInv, NEW type \in Events, Forward(type)
  PROVE  IInv' /\ (SInv => SInv')
<1>1. /\ QueuesEvent(type)
      /\ services' = services /\ toPage' = toPage
      /\ UNCHANGED <<workers, current, starting, made, live>>
  BY DEF Forward, workers, QueuesEvent
<1>2. sent' \in [Shells -> Nat]
  <2>1. sent \in [Shells -> Nat] /\ current \in Shells
    BY HostAssumption DEF Forward, IInv, Page, Shells
  <2>2. sent[current] + 1 \in Nat
    BY <2>1, SMT, Z3
  <2> QED
    BY <2>1, <2>2, Zenon DEF Forward
<1>3. toWorker' \in [Shells -> Seq(Replies)] /\ \A w \in Shells : w > made => toWorker'[w] = <<>>
  BY <1>1, EventQueued, Zenon
<1>4. /\ toPage' \in [Shells -> Seq(Asks)]
      /\ \A w \in Shells : w > made => toPage'[w] = <<>>
      /\ \A q \in services' : IsService(q)
  BY <1>1 DEF IInv, Page, Shapes
<1>5. ASSUME SInv
      PROVE  /\ \A q \in services' : q.from = q.to
             /\ \A w \in Shells : live[w] =>
                  /\ Asking(js[w], guest[w], toPage'[w])
                  /\ Answering(w, js[w], guest[w], toWorker'[w])
                  /\ Serving(w, js[w], guest[w], services')
  <2>1. \A w \in Shells : Answering(w, js[w], guest[w], toWorker[w]) =>
                             Answering(w, js[w], guest[w], toWorker'[w])
    BY <1>1, EventQueued
  <2> QED
    BY <1>1, <1>5, <2>1, Zenon DEF SInv, Alone, Traffic
<1>6. \A w \in Shells : w > made => toWorker'[w] = <<>> /\ toPage'[w] = <<>>
  BY <1>3, <1>4
<1> QED
  BY <1>1, <1>2, <1>3, <1>4, <1>5, <1>6, PageMoves, Zenon

\* The page takes a message of a worker.
LEMMA OnShellStep ==
  ASSUME IInv, NEW w \in Shells, OnShell(w)
  PROVE  IInv' /\ (SInv => SInv')
<1> DEFINE m == Head(toPage[w])
<1>1. live[w] /\ toPage[w] \in Seq(Asks) /\ toPage[w] # <<>> /\ w <= made
  BY OfWorker DEF OnShell, IInv, Page, Shells
<1>2. m \in Asks /\ m = toPage[w][1] /\ 1 \in 1 .. Len(toPage[w])
  BY <1>1, HeadTailProperties, EmptySeq, LenProperties
<1>3. CASE m.type = "done" /\ Finish
  BY <1>3, FinishStep
<1>4. CASE m.type # "done"
  <2> HIDE DEF m
  <2>1. /\ toPage' = [toPage EXCEPT ![w] = Tail(@)] /\ sent' = sent
        /\ UNCHANGED <<workers, current, starting, made, live>>
    BY <1>4 DEF OnShell, workers, m, Finish
  <2>2. Tail(toPage[w]) \in Seq(Asks)
    BY <1>1, HeadTailProperties, Zenon
  <2>3. /\ toPage' \in [Shells -> Seq(Asks)] /\ sent' \in [Shells -> Nat]
        /\ \A v \in Shells : v > made => toPage'[v] = <<>>
    BY <1>1, <2>1, <2>2, Zenon DEF IInv, Page, Shapes, Shells
  <2>4. SInv => \A v \in Shells : live[v] => Asking(js[v], guest[v], toPage'[v])
    <3>1. SUFFICES ASSUME SInv, NEW v \in Shells, live[v]
                   PROVE  Asking(js[v], guest[v], toPage'[v])
      BY Zenon
    <3>2. Asking(js[v], guest[v], toPage[v])
      BY <3>1, OfSources, Zenon
    <3>3. v = w => Asking(js[v], guest[v], Tail(toPage[v]))
      BY <1>1, <3>2, AskingTail, Zenon
    <3> QED
      BY <2>1, <3>2, <3>3 DEF IInv, Shapes
  <2>5. CASE m.type = "started"
    <3>1. QueuesEvent("resize") /\ services' = services
      BY <1>4, <2>5 DEF OnShell, m, QueuesEvent
    <3>2. "resize" \in Events
      BY DEF Events
    <3>3. toWorker' \in [Shells -> Seq(Replies)] /\ \A v \in Shells : v > made => toWorker'[v] = <<>>
      BY <3>1, <3>2, EventQueued, Zenon
    <3>4. \A q \in services' : IsService(q)
      BY <3>1 DEF IInv, Page
    <3>5. ASSUME SInv
          PROVE  /\ \A q \in services' : q.from = q.to
                 /\ \A v \in Shells : live[v] =>
                      /\ Asking(js[v], guest[v], toPage'[v])
                      /\ Answering(v, js[v], guest[v], toWorker'[v])
                      /\ Serving(v, js[v], guest[v], services')
      <4>1. \A v \in Shells : Answering(v, js[v], guest[v], toWorker[v]) =>
                                 Answering(v, js[v], guest[v], toWorker'[v])
        BY <3>1, <3>2, EventQueued, Zenon
      <4> QED
        BY <2>4, <3>1, <3>5, <4>1, ZenonT(60) DEF SInv, Alone, Traffic
    <3>6. \A v \in Shells : v > made => toWorker'[v] = <<>> /\ toPage'[v] = <<>>
      BY <2>3, <3>3
    <3> QED
      BY <2>1, <2>3, <3>3, <3>4, <3>5, <3>6, PageMoves, Zenon
  <2>6. CASE services' = services /\ toWorker' = toWorker
    <3>1. /\ toWorker' \in [Shells -> Seq(Replies)]
          /\ \A v \in Shells : v > made => toWorker'[v] = <<>>
          /\ \A q \in services' : IsService(q)
      BY <2>6 DEF IInv, Page, Shapes
    <3>2. ASSUME SInv
          PROVE  /\ \A q \in services' : q.from = q.to
                 /\ \A v \in Shells : live[v] =>
                      /\ Asking(js[v], guest[v], toPage'[v])
                      /\ Answering(v, js[v], guest[v], toWorker'[v])
                      /\ Serving(v, js[v], guest[v], services')
      BY <2>4, <2>6, <3>2, Zenon DEF SInv, Alone, Traffic
    <3> QED
      BY <2>1, <2>3, <3>1, <3>2, PageMoves, Zenon
  <2>7. CASE m.type \in Kinds /\ OnRequest(w, m)
    <3> DEFINE nth == CHOOSE n \in 0 .. Cardinality(services) : \A p \in services : p.nth # n
               s == [type |-> m.type, id |-> m.id, call |-> m.call, from |-> w, to |-> current,
                     nth |-> nth]
    <3> HIDE DEF nth
    <3>1. m.id \in Nat /\ m.call \in 0 .. MaxCalls
      BY <1>2, <2>7, HostAssumption, Zenon DEF Asks, Tagged
    <3>2. /\ s.type = m.type /\ s.id = m.id /\ s.call = m.call /\ s.from = w /\ s.to = current
          /\ s.nth = nth
      OBVIOUS
    <3>3. s = [type |-> s.type, id |-> s.id, call |-> s.call, from |-> s.from, to |-> s.to, nth |-> s.nth]
      OBVIOUS
    <3>4. \/ m.type \in {"clipboard", "upload", "suite"} /\ toWorker' = toWorker
             /\ services' \in {(services \ Copies) \cup {s}, services \cup {s}}
          \/ m.type = "render" /\ Deliver(s, TRUE) /\ services' = services
          \/ services' = services /\ toWorker' = toWorker
      <4>1. m.type \in {"suite", "render", "clipboard", "upload", "download"}
        BY <2>7, HostAssumption, Zenon DEF Tagged
      <4>2. m.type = "clipboard" => services' = (services \ Copies) \cup {s} /\ toWorker' = toWorker
        BY <2>7 DEF OnRequest, nth
      <4>3. m.type \in {"upload", "suite"} => services' = services \cup {s} /\ toWorker' = toWorker
        BY <2>7, Zenon DEF OnRequest, nth
      <4>4. m.type = "render" => Deliver(s, TRUE) /\ services' = services
        BY <2>7, Zenon DEF OnRequest, nth
      <4>5. m.type = "download" => services' = services /\ toWorker' = toWorker
        BY <2>7, Zenon DEF OnRequest
      <4> HIDE DEF s
      <4> QED
        BY <4>1, <4>2, <4>3, <4>4, <4>5, Zenon
    <3> HIDE DEF s
    <3>5. SInv => s.from = s.to /\ s.to = w /\ (s.type \in Tagged => Known(js[w], guest[w], s, s.call))
      <4>1. SUFFICES ASSUME SInv
                     PROVE  /\ s.from = s.to /\ s.to = w
                            /\ s.type \in Tagged => Known(js[w], guest[w], s, s.call)
        OBVIOUS
      <4>2. w = current
        BY <1>1, <4>1, Zenon DEF SInv, Alone
      <4>3. m.type \in Tagged => Known(js[w], guest[w], m, m.call)
        BY <1>1, <1>2, <4>1, OfSources, Zenon DEF Asking
      <4> QED
        BY <3>2, <4>2, <4>3, Zenon DEF Known
    <3>6. CASE /\ m.type \in {"clipboard", "upload", "suite"} /\ toWorker' = toWorker
               /\ services' \in {(services \ Copies) \cup {s}, services \cup {s}}
      <4>1. services' \subseteq services \cup {s}
        BY <3>6
      <4>2. current \in 0 .. made
        BY DEF IInv, Page
      <4>3. IsService(s)
        BY <3>1, <3>2, <3>3, <3>6, <4>2, Zenon DEF IsService
      <4>4. /\ toWorker' \in [Shells -> Seq(Replies)]
            /\ \A v \in Shells : v > made => toWorker'[v] = <<>>
            /\ \A q \in services' : IsService(q)
        BY <3>6, <4>1, <4>3 DEF IInv, Page, Shapes
      <4>5. ASSUME SInv
            PROVE  /\ \A q \in services' : q.from = q.to
                   /\ \A v \in Shells : live[v] =>
                        /\ Asking(js[v], guest[v], toPage'[v])
                        /\ Answering(v, js[v], guest[v], toWorker'[v])
                        /\ Serving(v, js[v], guest[v], services')
        <5>1. \A q \in services' : q.from = q.to
          BY <3>5, <4>1, <4>5 DEF SInv, Alone
        <5>2. \A v \in Shells : live[v] => Serving(v, js[v], guest[v], services')
          BY <3>5, <4>1, <4>5, ZenonT(60) DEF SInv, Traffic, Serving
        <5>3. \A v \in Shells : live[v] => Answering(v, js[v], guest[v], toWorker'[v])
          BY <3>6, <4>5, ZenonT(60) DEF SInv, Traffic
        <5> QED
          BY <2>4, <4>5, <5>1, <5>2, <5>3, ZenonT(60)
      <4> QED
        BY <2>1, <2>3, <4>4, <4>5, PageMoves, Zenon
    <3>7. CASE m.type = "render" /\ Deliver(s, TRUE) /\ services' = services
      <4>1. /\ s.type \in Tagged \cup {"upload"} /\ s.id \in Nat /\ s.call \in 0 .. MaxCalls
            /\ s.from \in Shells /\ TRUE \in BOOLEAN
        BY <3>1, <3>2, <3>7 DEF Tagged
      <4>2. /\ toWorker' \in [Shells -> Seq(Replies)]
            /\ \A v \in Shells : v > made => toWorker'[v] = <<>>
            /\ \A v \in Shells :
                 /\ Answering(v, js[v], guest[v], toWorker[v])
                 /\ s.to = v => s.from = v /\ (s.type \in Tagged => Known(js[v], guest[v], s, s.call))
                 => Answering(v, js[v], guest[v], toWorker'[v])
        <5>1. PICK ok \in BOOLEAN : Deliver(s, ok)
          BY <3>7, Zenon
        <5> QED
          BY <4>1, <5>1, Delivered, Zenon
      <4>3. \A q \in services' : IsService(q)
        BY <3>7 DEF IInv, Page
      <4>4. ASSUME SInv
            PROVE  /\ \A q \in services' : q.from = q.to
                   /\ \A v \in Shells : live[v] =>
                        /\ Asking(js[v], guest[v], toPage'[v])
                        /\ Answering(v, js[v], guest[v], toWorker'[v])
                        /\ Serving(v, js[v], guest[v], services')
        BY <2>4, <3>5, <3>7, <4>2, <4>4, Zenon DEF SInv, Alone, Traffic
      <4> QED
        BY <2>1, <2>3, <4>2, <4>3, <4>4, PageMoves, Zenon
    <3>8. CASE services' = services /\ toWorker' = toWorker
      BY <2>6, <3>8
    <3> QED
      BY <3>4, <3>6, <3>7, <3>8, Zenon
  <2>8. m.type \in Kinds \/ m.type \in {"started", "suiteCancel"}
    BY <1>2, <1>4 DEF Asks
  <2>9. "started" \notin Kinds /\ "suiteCancel" \notin Kinds
    BY HostAssumption DEF Tagged
  <2>10. m.type = "suiteCancel" => services' = services /\ toWorker' = toWorker
    BY <1>4 DEF OnShell, m
  <2>11. m.type \in Kinds => OnRequest(w, m)
    BY <1>4, <2>9, Zenon DEF OnShell, m
  <2> QED
    BY <2>5, <2>6, <2>7, <2>8, <2>10, <2>11, Zenon
<1> QED
  BY <1>3, <1>4 DEF OnShell

-----------------------------------------------------------------------------
(* The theorems.                                                           *)

\* There is no shell at first.
LEMMA InitHolds == Init => IInv /\ SInv
<1> SUFFICES ASSUME Init PROVE IInv /\ SInv
  OBVIOUS
<1>1. Page
  BY HostAssumption DEF Init, Page
<1>2. "boot" \in Places /\ NewJs \in JsType /\ NewGuest \in GuestType /\ NoAnswer \in AnswerType
  BY BlankLocal DEF Local
<1>3. Shapes
  BY <1>2 DEF Init, Shapes
<1> DEFINE Blank(w) == /\ at[w] = "boot" /\ js[w] = NewJs /\ guest[w] = NewGuest
                       /\ answer[w] = NoAnswer /\ killed[w] = FALSE
<1>a. \A w \in Shells : Blank(w)
  BY DEF Init
<1>4. \A w \in Shells : Local(at[w], js[w], guest[w], answer[w], killed[w])
  BY <1>a, BlankLocal, Zenon
<1>5. \A w \in Shells : Sourced(w, js[w], guest[w], answer[w], killed[w])
  BY <1>a, BlankLocal, Zenon
<1>6. Alone /\ \A w \in Shells : ~live[w]
  BY DEF Init, Alone
<1> QED
  BY <1>1, <1>3, <1>4, <1>5, <1>6, Zenon DEF IInv, SInv

\* Every step keeps both invariants, the second one with one startShell at a
\* time.
LEMMA NextKeeps ==
  ASSUME IInv, [Next]_vars
  PROVE  IInv' /\ (SInv /\ MaxStarting = 1 => SInv')
<1>1. ASSUME NEW w \in Shells, Worker(w) \/ WaitTimer(w) \/ OnShell(w)
      PROVE  IInv' /\ (SInv => SInv')
  BY <1>1, BootStep, EngineStep, ResumeStep, PumpTimerStep, OnMessageStep, WaitTimerStep,
     OnShellStep, Zenon DEF Worker
<1>2. ASSUME NEW s \in services, NEW ok \in BOOLEAN, Serve(s, ok) PROVE IInv' /\ (SInv => SInv')
  BY <1>2, ServeStep
<1>3. CASE StartShell
  BY <1>3, StartShellStep
<1>4. CASE ShellCreated
  BY <1>4, ShellCreatedStep
<1>5. CASE StopButton
  BY <1>5, FinishStep DEF StopButton
<1>6. ASSUME NEW type \in Events, Forward(type) PROVE IInv' /\ (SInv => SInv')
  BY <1>6, ForwardStep, Zenon
<1>7. CASE UNCHANGED vars
  <2>1. /\ UNCHANGED <<workers, current, starting, made, live>>
        /\ sent' = sent /\ services' = services /\ toWorker' = toWorker /\ toPage' = toPage
    BY <1>7 DEF vars, page, workers
  <2>2. /\ sent' \in [Shells -> Nat]
        /\ toWorker' \in [Shells -> Seq(Replies)] /\ toPage' \in [Shells -> Seq(Asks)]
        /\ \A w \in Shells : w > made => toWorker'[w] = <<>> /\ toPage'[w] = <<>>
        /\ \A s \in services' : IsService(s)
    BY <2>1 DEF IInv, Page, Shapes
  <2>3. ASSUME SInv
        PROVE  /\ \A s \in services' : s.from = s.to
               /\ \A w \in Shells : live[w] =>
                    /\ Asking(js[w], guest[w], toPage'[w])
                    /\ Answering(w, js[w], guest[w], toWorker'[w])
                    /\ Serving(w, js[w], guest[w], services')
    BY <2>1, <2>3, Zenon DEF SInv, Alone, Traffic
  <2> QED
    BY <2>1, <2>2, <2>3, PageMoves, Zenon
<1> QED
  BY <1>1, <1>2, <1>3, <1>4, <1>5, <1>6, <1>7, Zenon DEF Next

\* The workers keep their shapes, their pending ids and their slots in order,
\* however many startShell calls of app.js overlap.
THEOREM Invariance == Spec => []IInv
<1>1. Init => IInv
  BY InitHolds
<1>2. IInv /\ [Next]_vars => IInv'
  BY NextKeeps
<1> QED
  BY <1>1, <1>2, PTL DEF Spec

\* The wakeIO and waitForIO of worker.js lose nothing: no worker sleeps on a
\* read with a key or a signal in the engine, however many startShell calls
\* overlap.
THEOREM NoWakeLost == Spec => []NoLostWake
<1>1. IInv => NoLostWake
  BY DEF IInv, Local, Awake, NoLostWake
<1> QED
  BY <1>1, Invariance, PTL

\* While one startShell of app.js awaits at a time, every reply under way
\* belongs to the shell it is queued for.
THEOREM SourcesKept == MaxStarting = 1 => (Spec => [](IInv /\ SInv))
<1> SUFFICES ASSUME MaxStarting = 1 PROVE Spec => [](IInv /\ SInv)
  OBVIOUS
<1>1. Init => IInv /\ SInv
  BY InitHolds
<1>2. IInv /\ SInv /\ [Next]_vars => (IInv /\ SInv)'
  BY NextKeeps
<1> QED
  BY <1>1, <1>2, PTL DEF Spec

\* The one slot of the engine belongs to the call that took it: it is free at
\* the prompt, and a tagged call or a download returns the reply to itself, as
\* long as one startShell awaits at a time.
THEOREM SlotIsOwned == MaxStarting = 1 => (Spec => []SlotOwned)
<1> SUFFICES ASSUME MaxStarting = 1 PROVE Spec => []SlotOwned
  OBVIOUS
<1>1. ASSUME IInv, SInv PROVE SlotOwned
  <2>1. \A w \in Shells :
          /\ at[w] \in Places /\ guest[w] \in GuestType
          /\ PendingWaits(at[w], js[w], guest[w]) /\ Awake(at[w], js[w], guest[w])
          /\ killed[w] \/ Orderly(js[w], guest[w])
    BY <1>1 DEF IInv, Local
  <2>2. TypeOK
    <3>1. current \in 0 .. MaxShells /\ made \in 0 .. MaxShells /\ starting \in 0 .. MaxStarting
      BY <1>1, HostAssumption DEF IInv, Page
    <3> QED
      BY <2>1, <3>1, Zenon DEF TypeOK, Places, GuestType, SlotType, PendingWaits, Awake
  <2>3. SlotFree
    BY <2>1, Zenon DEF SlotFree, Orderly
  <2>4. OwnReply
    BY <1>1 DEF OwnReply, SInv, Sourced
  <2> QED
    BY <2>2, <2>3, <2>4, Zenon DEF SlotOwned
<1>3. Spec => [](IInv /\ SInv)
  BY SourcesKept, Zenon
<1> QED
  BY <1>1, <1>3, PTL

\* A reply to a shell that was terminated never reaches the shell after it, and
\* one worker lives, as long as one startShell awaits at a time.
THEOREM RepliesOwnShell == MaxStarting = 1 => (Spec => []OwnShell)
<1> SUFFICES ASSUME MaxStarting = 1 PROVE Spec => []OwnShell
  OBVIOUS
<1>1. ASSUME IInv, SInv PROVE OwnShell
  <2>1. \A w \in Shells : guest[w].slot.source[1] \in {0, w} /\ answer[w].source[1] \in {0, w}
    BY <1>1, Zenon DEF SInv, Sourced
  <2>2. {w \in Shells : live[w]} \subseteq {current}
    BY <1>1 DEF SInv, Alone
  <2>3. IsFiniteSet({current}) /\ Cardinality({current}) = 1
    BY FS_Singleton, Zenon
  <2>4. Cardinality({w \in Shells : live[w]}) <= Cardinality({current})
    BY <2>2, <2>3, FS_Subset
  <2> QED
    BY <2>1, <2>3, <2>4, Zenon DEF OwnShell
<1>2. Spec => [](IInv /\ SInv)
  BY SourcesKept
<1> QED
  BY <1>1, <1>2, PTL
=============================================================================
