------------------------ MODULE ConsoleControlProofs ------------------------
(***************************************************************************)
(* Proofs about ConsoleControl for any number of ports, commands and       *)
(* buffers.                                                                *)
(***************************************************************************)
EXTENDS ConsoleControl, Integers, FiniteSetTheorems, SequenceTheorems, TLAPS

-----------------------------------------------------------------------------
(* activate does not panic. *)

\* The queues of the ports are queues of the device, none is a control queue, and
\* no two ports or directions share one.
LEMMA QueuesAreThere == QueuesThere
<1>1. NumPorts \in Nat \ {0}
  BY ConstantsAssumption
<1>2. ASSUME NEW d \in Queues, NEW p \in Ports
      PROVE  port_id_to_queue_idx(d, p)
               \in (0 .. num_queues(NumPorts) - 1) \ CONTROL_QUEUES
  BY <1>1 DEF Ports, Queues, port_id_to_queue_idx, num_queues, CONTROL_QUEUES
<1>3. ASSUME NEW d \in Queues, NEW e \in Queues, NEW p \in Ports, NEW q \in Ports,
             port_id_to_queue_idx(d, p) = port_id_to_queue_idx(e, q)
      PROVE  d = e /\ p = q
  BY <1>1, <1>3 DEF Ports, Queues, port_id_to_queue_idx
<1>4. QED  BY <1>2, <1>3 DEF QueuesThere, PortQueues

-----------------------------------------------------------------------------
(* The inductive invariant: the types, and what the worker owes the guest in     *)
(* each place.                                                                   *)

\* The thread that activates and stops has panicked only after the worker.
DevInv == PanicsOnlyWithWorker /\ (dev = "inactive" => wpc = "unborn")

\* Outside of process_rx and process_tx nothing is owed; inside, raise_irq says
\* what is.
IrqInv ==
  /\ wpc \in {"unborn", "wait", "batch", "rxlock", "txlock"} => unsig = {}
  /\ wpc = "rxpop" => unsig \subseteq {"rx"} /\ (unsig # {} => raise_irq)
  /\ wpc \in {"txpop", "txpush"} => unsig \subseteq {"tx"} /\ (unsig # {} => raise_irq)

LEMMA DevInvNext == DevInv /\ [Next]_vars => DevInv'
<1> SUFFICES ASSUME DevInv, [Next]_vars  PROVE DevInv'
  OBVIOUS
<1> USE DEF DevInv, PanicsOnlyWithWorker
<1>1. CASE Activate
  BY <1>1, QueuesAreThere DEF Activate
<1>2. CASE Stop \/ Joined
  BY <1>2 DEF Stop, Joined, workerVars
<1>3. CASE \E q \in Queues, b \in BOOLEAN : SetEnabled(q, b)
  BY <1>3 DEF SetEnabled, workerVars
<1>4. CASE Guest \/ \E p \in Inputs : PortEof(p)
  BY <1>4 DEF Guest, GuestGives, GuestSends, PortEof, workerVars
<1>5. CASE Worker
  <2>1. UNCHANGED dev /\ wpc \notin {"unborn", "panicked"}
    BY <1>5 DEF Worker, Wait, Event, TryLock, Pc, Queues, RxPop, RxDone, TxPop,
                TxPush, TxDone
  <2>2. QED  BY <2>1
<1>6. CASE UNCHANGED vars
  BY <1>6 DEF vars, workerVars
<1>7. CASE \E q \in Queues : StartRing(q) \/ GetVringBase(q)
  BY <1>7 DEF StartRing, GetVringBase, Serving, workerVars
<1>8. QED
  BY <1>1, <1>2, <1>3, <1>4, <1>5, <1>6, <1>7 DEF Next, Handler

LEMMA IrqInvNext == DevInv /\ IrqInv /\ [Next]_vars => IrqInv'
<1> SUFFICES ASSUME DevInv, IrqInv, [Next]_vars  PROVE IrqInv'
  OBVIOUS
<1> USE DEF IrqInv
<1>1. CASE UNCHANGED <<wpc, unsig, raise_irq>>
  BY <1>1
<1>2. CASE Activate
  BY <1>2, QueuesAreThere DEF Activate, DevInv
<1>3. CASE Stop \/ Joined \/ (\E q \in Queues, b \in BOOLEAN : SetEnabled(q, b))
           \/ (\E q \in Queues : StartRing(q) \/ GetVringBase(q))
  BY <1>1, <1>3 DEF Stop, Joined, SetEnabled, StartRing, GetVringBase, workerVars
<1>4. CASE Guest \/ \E p \in Inputs : PortEof(p)
  BY <1>1, <1>4 DEF Guest, GuestGives, GuestSends, PortEof, workerVars
<1>5. CASE Wait
  BY <1>5 DEF Wait
<1>6. CASE \E s \in Sources : Event(s)
  <2>1. wpc = "batch" /\ UNCHANGED unsig /\ wpc' \in {"wait", "batch", "rxlock", "txlock"}
    BY <1>6 DEF Event, BeginProcess, EventDone, Pc
  <2>2. QED  BY <2>1
<1>7. CASE \E q \in Queues : TryLock(q)
  <2>1. /\ wpc \in {"rxlock", "txlock"} /\ UNCHANGED unsig
        /\ wpc' \in {"wait", "batch", "rxpop", "txpop"}
    BY <1>7 DEF TryLock, EventDone, Pc, Queues
  <2>2. QED  BY <2>1
<1>8. CASE RxPop
  BY <1>8 DEF RxPop, WriteMessage
<1>9. CASE RxDone
  BY <1>9 DEF RxDone, Signalled, EventDone
<1>10. CASE TxPop
  <2>1. /\ wpc = "txpop" /\ raise_irq' = TRUE /\ unsig' \subseteq unsig \cup {"tx"}
        /\ wpc' \in {"panicked", "txpop", "txpush"}
    BY <1>10 DEF TxPop
  <2>2. QED  BY <2>1
<1>11. CASE TxPush
  BY <1>11 DEF TxPush
<1>12. CASE TxDone
  BY <1>12 DEF TxDone, Signalled, EventDone
<1>13. CASE UNCHANGED vars
  BY <1>1, <1>13 DEF vars, workerVars
<1>14. QED
  BY <1>2, <1>3, <1>4, <1>5, <1>6, <1>7, <1>8, <1>9, <1>10, <1>11, <1>12, <1>13
     DEF Next, Worker, Handler

\* Console::activate finds the two queues of every port, for any number of ports,
\* and stop panics only because the worker has.
THEOREM ControlPanics == Spec => []PanicsOnlyWithWorker
<1>1. Init => DevInv
  BY DEF Init, DevInv, PanicsOnlyWithWorker
<1>2. DevInv => PanicsOnlyWithWorker
  BY DEF DevInv
<1>3. QED  BY <1>1, <1>2, DevInvNext, PTL DEF Spec

\* The worker never goes back to epoll with an interrupt owed, whatever is lost,
\* disabled or unreadable on the way.
THEOREM ControlSignals == Spec => []UsedIsSignalled
<1>1. Init => DevInv /\ IrqInv
  BY DEF Init, DevInv, PanicsOnlyWithWorker, IrqInv
<1>2. IrqInv => UsedIsSignalled
  BY DEF IrqInv, UsedIsSignalled
<1>3. QED  BY <1>1, <1>2, DevInvNext, IrqInvNext, PTL DEF Spec

-----------------------------------------------------------------------------
(* The messages. *)

\* The queues hold what ConsoleControl and the driver put there.
MsgInv ==
  /\ queue \in Seq(Message) /\ out \in Seq(Message)
  /\ txAvail \in Seq(Command)
  /\ wpc = "txpush" => out # <<>>

\* The messages are well formed.
LEMMA MessageTypes ==
  \A p \in CmdIds :
    /\ mark_console_port(p) \in Message /\ console_resize(p) \in Message
    /\ port_add(p) \in Message /\ port_name(p) \in Message
    /\ port_open(p, 0) \in Message /\ port_open(p, 1) \in Message
BY DEF mark_console_port, console_resize, port_add, port_name, port_open, Msg, Message,
       Events

\* What is pushed for a command is messages.
LEMMA AnswerType ==
  ASSUME NEW c \in Command
  PROVE  Answer(c) \in Seq(Message)
<1>1. 0 \in CmdIds /\ \A i \in 1 .. NumPorts : i - 1 \in CmdIds
  BY ConstantsAssumption DEF Ports
<1>2. <<>> \in Seq(Message)
  OBVIOUS
<1>3. [i \in 1 .. NumPorts |-> port_add(i - 1)] \in Seq(Message)
  <2>1. \A i \in 1 .. NumPorts : port_add(i - 1) \in Message
    BY <1>1, MessageTypes
  <2>2. NumPorts \in Nat
    BY ConstantsAssumption
  <2>3. QED  BY <2>1, <2>2
<1>4. CASE c.event = "PORT_READY"
  <2>1. c.id \in CmdIds
    BY <1>1 DEF Command
  <2>2. /\ <<mark_console_port(c.id), port_open(c.id, 1), console_resize(c.id)>>
             \in Seq(Message)
        /\ <<port_open(c.id, 1)>> \in Seq(Message) /\ <<port_name(c.id)>> \in Seq(Message)
    BY <1>1, <2>1, MessageTypes
  <2> DEFINE First == IF c.id \in Consoles
                      THEN <<mark_console_port(c.id), port_open(c.id, 1), console_resize(c.id)>>
                      ELSE <<port_open(c.id, 1)>>
             Name == IF c.id \in Named THEN <<port_name(c.id)>> ELSE <<>>
  <2>3. First \in Seq(Message) /\ Name \in Seq(Message)
    BY <1>2, <2>2
  <2>4. Answer(c) = First \o Name
    BY <1>4 DEF Answer
  <2> HIDE DEF First, Name
  <2>5. QED  BY <2>3, <2>4
<1>5. CASE c.event # "PORT_READY"
  BY <1>2, <1>3, <1>5 DEF Answer
<1>6. QED  BY <1>4, <1>5

LEMMA MsgInvNext == MsgInv /\ [Next]_vars => MsgInv'
<1> SUFFICES ASSUME MsgInv, [Next]_vars  PROVE MsgInv'
  OBVIOUS
<1> USE DEF workerVars, guestVars, ringVars
<1> DEFINE Quiet == UNCHANGED <<queue, out, txAvail>>
<1>1. CASE Quiet /\ (wpc' = "txpush" => wpc = "txpush")
  BY <1>1 DEF MsgInv
<1>2. CASE Activate \/ Stop \/ Joined \/ (\E q \in Queues, b \in BOOLEAN : SetEnabled(q, b))
           \/ (\E q \in Queues : StartRing(q) \/ GetVringBase(q))
  BY <1>1, <1>2 DEF Activate, Stop, Joined, SetEnabled, StartRing, GetVringBase
<1>3. CASE GuestGives \/ UNCHANGED vars
  BY <1>1, <1>3 DEF GuestGives, vars
<1>4. ASSUME NEW c \in Command, GuestSends(c)  PROVE MsgInv'
  <2>1. UNCHANGED <<queue, out, wpc>> /\ txAvail' = Append(txAvail, c)
    BY <1>4 DEF GuestSends
  <2>2. QED  BY <2>1 DEF MsgInv
<1>5. ASSUME NEW p \in Inputs, PortEof(p)  PROVE MsgInv'
  <2>1. /\ UNCHANGED <<out, txAvail, wpc>>
        /\ queue' = Append(queue, port_open(p, 0))
    BY <1>5 DEF PortEof, Push
  <2>2. port_open(p, 0) \in Message
    BY MessageTypes, ConstantsAssumption
  <2>3. QED  BY <2>1, <2>2 DEF MsgInv
<1>6. CASE Wait \/ RxDone \/ TxDone
  BY <1>1, <1>6 DEF Wait, RxDone, TxDone, EventDone
<1>7. CASE \E s \in Sources : Event(s)
  BY <1>1, <1>7 DEF Event, BeginProcess, EventDone, Pc
<1>8. CASE \E q \in Queues : TryLock(q)
  BY <1>1, <1>8 DEF TryLock, EventDone, Pc
<1>9. CASE RxPop
  <2>1. queue # <<>> /\ queue' = Tail(queue) /\ UNCHANGED <<out, txAvail, wpc>>
    BY <1>9 DEF RxPop
  <2>2. Head(queue) \in Message /\ queue' \in Seq(Message)
    BY <2>1 DEF MsgInv
  <2>3. QED  BY <2>1, <2>2 DEF MsgInv
<1>10. CASE TxPop
  <2>1. txAvail # <<>> /\ txAvail' = Tail(txAvail) /\ UNCHANGED queue
    BY <1>10 DEF TxPop
  <2>2. Head(txAvail) \in Command /\ txAvail' \in Seq(Command)
    BY <2>1 DEF MsgInv
  <2>3. \/ UNCHANGED out /\ wpc' = "panicked"
        \/ out' = Answer(Head(txAvail)) /\ (wpc' = "txpush" => out' # <<>>)
    BY <1>10 DEF TxPop
  <2>4. out' \in Seq(Message) /\ (wpc' = "txpush" => out' # <<>>)
    BY <2>2, <2>3, AnswerType DEF MsgInv
  <2>5. QED  BY <2>1, <2>2, <2>4 DEF MsgInv
<1>11. CASE TxPush
  <2>1. /\ out # <<>> /\ UNCHANGED txAvail /\ out' = Tail(out)
        /\ queue' = Append(queue, Head(out)) /\ (wpc' = "txpush" => out' # <<>>)
    BY <1>11 DEF TxPush, Push, MsgInv
  <2>2. Head(out) \in Message /\ out' \in Seq(Message)
    BY <2>1 DEF MsgInv
  <2>3. queue' \in Seq(Message)
    BY <2>1, <2>2 DEF MsgInv
  <2>4. QED  BY <2>1, <2>2, <2>3 DEF MsgInv
<1>12. QED
  BY <1>2, <1>3, <1>4, <1>5, <1>6, <1>7, <1>8, <1>9, <1>10, <1>11
     DEF Next, Worker, Handler, Guest

-----------------------------------------------------------------------------
(* The order of the handshake. *)

\* What a message adds to the lead of a over b.
Gain(a, b, m) == (IF m = a THEN 1 ELSE 0) - (IF m = b THEN 1 ELSE 0)

\* h is the lead of a over b along s, from x to y; it is never negative.
Path(a, b, s, x, y, h) ==
  /\ h \in [0 .. Len(s) -> Nat] /\ h[0] = x /\ h[Len(s)] = y
  /\ \A i \in 1 .. Len(s) : h[i] = h[i - 1] + Gain(a, b, s[i])

Leads(a, b, s, x, y) == \E h : Path(a, b, s, x, y, h)

\* a and b are two messages of which the guest has to hear the first one first.
InOrder(a, b) ==
  \/ \E p \in Consoles : a = mark_console_port(p) /\ b = port_open(p, 1)
  \/ \E p \in Ports : a = port_open(p, 1) /\ b \in {console_resize(p), port_name(p)}

\* The buffers taken so far hold a at least as often as b at any time, and it will
\* stay so with the queued messages and those that are still to be pushed.
Ordered(a, b) == \A n \in 1 .. Len(taken) : Told(a, n) >= Told(b, n)

Ahead(a, b) ==
  \E y, z \in Nat :
    /\ Leads(a, b, queue, Told(a, Len(taken)) - Told(b, Len(taken)), y)
    /\ Leads(a, b, out, y, z)

OrderInv ==
  /\ taken \in Seq(Message)
  /\ wpc # "txpush" => out = <<>>
  /\ \A a, b \in Message : InOrder(a, b) => Ordered(a, b) /\ Ahead(a, b)

\* What a port reports and what announces it do not count.
LEMMA InOrderFacts ==
  ASSUME NEW a, NEW b, InOrder(a, b)
  PROVE  \A p : Gain(a, b, port_open(p, 0)) = 0 /\ Gain(a, b, port_add(p)) = 0
BY DEF InOrder, Gain, mark_console_port, port_open, console_resize,
       port_name, port_add, Msg

LEMMA GainType ==
  ASSUME NEW a, NEW b, NEW m
  PROVE  Gain(a, b, m) \in Int
BY DEF Gain

\* The front of the queue is popped.
LEMMA LeadsTail ==
  ASSUME NEW a, NEW b, NEW s \in Seq(Message), s # <<>>, NEW x, NEW y, Leads(a, b, s, x, y)
  PROVE  x + Gain(a, b, Head(s)) \in Nat /\ Leads(a, b, Tail(s), x + Gain(a, b, Head(s)), y)
<1>0. PICK h : Path(a, b, s, x, y, h)
  BY DEF Leads
<1> DEFINE g == [i \in 0 .. Len(s) - 1 |-> h[i + 1]]
<1>1. /\ Len(s) \in Nat \ {0} /\ Len(Tail(s)) = Len(s) - 1 /\ Head(s) = s[1]
      /\ \A i \in 1 .. Len(s) - 1 : Tail(s)[i] = s[i + 1]
  OBVIOUS
<1>2. /\ h \in [0 .. Len(s) -> Nat] /\ h[0] = x /\ h[Len(s)] = y
      /\ \A i \in 1 .. Len(s) : h[i] = h[i - 1] + Gain(a, b, s[i])
  BY <1>0 DEF Path
<1>3. h[1] = x + Gain(a, b, Head(s)) /\ h[1] \in Nat
  BY <1>1, <1>2
<1>4. g \in [0 .. Len(Tail(s)) -> Nat] /\ g[0] = h[1] /\ g[Len(Tail(s))] = y
  BY <1>1, <1>2
<1>5. ASSUME NEW i \in 1 .. Len(Tail(s))
      PROVE  g[i] = g[i - 1] + Gain(a, b, Tail(s)[i])
  <2>1. i + 1 \in 1 .. Len(s) /\ i \in 0 .. Len(s) - 1 /\ i - 1 \in 0 .. Len(s) - 1
        /\ (i + 1) - 1 = i /\ (i - 1) + 1 = i /\ Tail(s)[i] = s[i + 1]
    BY <1>1
  <2>2. h[i + 1] = h[i] + Gain(a, b, s[i + 1])
    BY <1>2, <2>1
  <2>3. QED  BY <2>1, <2>2
<1>6. Path(a, b, Tail(s), h[1], y, g)
  BY <1>4, <1>5 DEF Path
<1> HIDE DEF g
<1>7. Leads(a, b, Tail(s), h[1], y)
  BY <1>6 DEF Leads
<1>8. QED  BY <1>3, <1>7

\* A message is pushed.
LEMMA LeadsAppend ==
  ASSUME NEW a, NEW b, NEW s \in Seq(Message), NEW m \in Message, NEW x, NEW y,
         Leads(a, b, s, x, y), y + Gain(a, b, m) \in Nat
  PROVE  Leads(a, b, Append(s, m), x, y + Gain(a, b, m))
<1>0. PICK h : Path(a, b, s, x, y, h)
  BY DEF Leads
<1> DEFINE z == y + Gain(a, b, m)
           g == [i \in 0 .. Len(s) + 1 |-> IF i <= Len(s) THEN h[i] ELSE z]
<1>1. /\ Len(s) \in Nat /\ Len(Append(s, m)) = Len(s) + 1
      /\ \A i \in 1 .. Len(s) : Append(s, m)[i] = s[i]
      /\ Append(s, m)[Len(s) + 1] = m
  OBVIOUS
<1>2. /\ h \in [0 .. Len(s) -> Nat] /\ h[0] = x /\ h[Len(s)] = y
      /\ \A i \in 1 .. Len(s) : h[i] = h[i - 1] + Gain(a, b, s[i])
  BY <1>0 DEF Path
<1>3. g \in [0 .. Len(Append(s, m)) -> Nat] /\ g[0] = x /\ g[Len(Append(s, m))] = z
  BY <1>1, <1>2
<1>4. ASSUME NEW i \in 1 .. Len(Append(s, m))
      PROVE  g[i] = g[i - 1] + Gain(a, b, Append(s, m)[i])
  <2>1. CASE i <= Len(s)
    <3>1. i \in 1 .. Len(s) /\ i - 1 \in 0 .. Len(s) /\ Append(s, m)[i] = s[i]
      BY <1>1, <2>1
    <3>2. g[i] = h[i] /\ g[i - 1] = h[i - 1]
      BY <1>1, <3>1
    <3>3. QED  BY <1>2, <3>1, <3>2
  <2>2. CASE i = Len(s) + 1
    <3>1. g[i] = z /\ g[i - 1] = y
      BY <1>1, <1>2, <2>2
    <3>2. QED  BY <1>1, <2>2, <3>1
  <2>3. QED  BY <1>1, <2>1, <2>2
<1>5. Path(a, b, Append(s, m), x, z, g)
  BY <1>3, <1>4 DEF Path
<1> HIDE DEF g
<1>6. QED  BY <1>5 DEF Leads

\* What a command is answered with keeps the order, whatever the lead was before.
LEMMA AnswerLeads ==
  ASSUME NEW a, NEW b, InOrder(a, b), NEW c \in Command, NEW x \in Nat
  PROVE  \E y \in Nat : Leads(a, b, Answer(c), x, y)
<1>0. NumPorts \in Nat \ {0} /\ \A p \in Consoles : p \notin Named
  BY ConstantsAssumption
<1>1. CASE c.event = "DEVICE_READY"
  <2> DEFINE g == [i \in 0 .. NumPorts |-> x]
  <2>1. Answer(c) = [i \in 1 .. NumPorts |-> port_add(i - 1)]
    BY <1>1 DEF Answer
  <2>2. Len(Answer(c)) = NumPorts /\ \A i \in 1 .. NumPorts : Answer(c)[i] = port_add(i - 1)
    BY <1>0, <2>1
  <2>3. g \in [0 .. NumPorts -> Nat] /\ g[0] = x
    BY <1>0
  <2>4. \A i \in 1 .. NumPorts : g[i] = g[i - 1] + Gain(a, b, Answer(c)[i])
    BY <1>0, <2>2, InOrderFacts
  <2>5. Path(a, b, Answer(c), x, x, g)
    BY <1>0, <2>2, <2>3, <2>4 DEF Path
  <2> HIDE DEF g
  <2>6. QED  BY <2>5 DEF Leads
<1>2. CASE c.event = "PORT_READY" /\ c.id \in Consoles
  <2> DEFINE s == <<mark_console_port(c.id), port_open(c.id, 1), console_resize(c.id)>>
             u == Gain(a, b, mark_console_port(c.id))
             v == u + Gain(a, b, port_open(c.id, 1))
             w == v + Gain(a, b, console_resize(c.id))
             g == [i \in 0 .. 3 |-> x + (IF i = 0 THEN 0 ELSE IF i = 1 THEN u
                                         ELSE IF i = 2 THEN v ELSE w)]
  <2>1. Answer(c) = s
    <3>1. /\ c.id \notin Named
          /\ s \in Seq({mark_console_port(c.id), port_open(c.id, 1), console_resize(c.id)})
      BY <1>0, <1>2
    <3>2. Answer(c) = s \o <<>>
      BY <1>2, <3>1 DEF Answer
    <3> HIDE DEF s
    <3>3. QED  BY <3>1, <3>2, ConcatEmptySeq
  <2>2. u \in Nat /\ v \in Nat /\ w \in Nat
    BY DEF InOrder, Gain, mark_console_port, port_open, console_resize, port_name, Msg
  <2>3. Len(s) = 3 /\ s[1] = mark_console_port(c.id) /\ s[2] = port_open(c.id, 1)
        /\ s[3] = console_resize(c.id)
    OBVIOUS
  <2>4. /\ Gain(a, b, mark_console_port(c.id)) \in Int /\ Gain(a, b, port_open(c.id, 1)) \in Int
        /\ Gain(a, b, console_resize(c.id)) \in Int
    BY GainType
  <2>5. g \in [0 .. 3 -> Nat] /\ g[0] = x /\ g[1] = x + u /\ g[2] = x + v /\ g[3] = x + w
    BY <2>2
  <2>6. /\ g[1] = g[0] + Gain(a, b, s[1]) /\ g[2] = g[1] + Gain(a, b, s[2])
        /\ g[3] = g[2] + Gain(a, b, s[3])
    BY <2>2, <2>3, <2>4, <2>5
  <2>7. \A i \in 1 .. 3 : i = 1 \/ i = 2 \/ i = 3
    OBVIOUS
  <2> HIDE DEF g, s, u, v, w
  <2>8. \A i \in 1 .. 3 : g[i] = g[i - 1] + Gain(a, b, s[i])
    BY <2>6, <2>7
  <2>9. Path(a, b, s, x, x + w, g) /\ x + w \in Nat
    BY <2>2, <2>3, <2>5, <2>8 DEF Path
  <2>10. QED  BY <2>1, <2>9 DEF Leads
<1>3. CASE c.event = "PORT_READY" /\ c.id \notin Consoles
  <2> DEFINE o == port_open(c.id, 1)
             n == port_name(c.id)
             u == Gain(a, b, o)
             w == u + Gain(a, b, n)
             g == [i \in 0 .. 2 |-> x + (IF i = 0 THEN 0 ELSE IF i = 1 THEN u ELSE w)]
             k == [i \in 0 .. 1 |-> x + (IF i = 0 THEN 0 ELSE u)]
  <2>1. Answer(c) = IF c.id \in Named THEN <<o>> \o <<n>> ELSE <<o>> \o <<>>
    BY <1>3 DEF Answer
  <2>2. u \in Nat /\ w \in Nat /\ Gain(a, b, n) \in Int
    BY <1>3 DEF InOrder, Gain, mark_console_port, port_open, console_resize, port_name, Msg
  <2>3. /\ Len(<<o>> \o <<n>>) = 2 /\ (<<o>> \o <<n>>)[1] = o /\ (<<o>> \o <<n>>)[2] = n
        /\ Len(<<o>> \o <<>>) = 1 /\ (<<o>> \o <<>>)[1] = o
    <3> HIDE DEF o, n
    <3>1. <<o>> \in Seq({o, n}) /\ <<n>> \in Seq({o, n})
      OBVIOUS
    <3>2. Len(<<o>>) = 1 /\ Len(<<n>>) = 1 /\ <<o>>[1] = o /\ <<n>>[1] = n
      OBVIOUS
    <3>3. QED  BY <3>1, <3>2, ConcatProperties, ConcatEmptySeq
  <2>4. /\ g \in [0 .. 2 -> Nat] /\ g[0] = x /\ g[1] = x + u /\ g[2] = x + w
        /\ k \in [0 .. 1 -> Nat] /\ k[0] = x /\ k[1] = x + u
    BY <2>2
  <2>5. /\ g[1] = g[0] + Gain(a, b, o) /\ g[2] = g[1] + Gain(a, b, n)
        /\ k[1] = k[0] + Gain(a, b, o)
    BY <2>2, <2>4
  <2>6. (\A i \in 1 .. 2 : i = 1 \/ i = 2) /\ (\A i \in 1 .. 1 : i = 1)
    OBVIOUS
  <2> HIDE DEF g, k, o, n, u, w
  <2>7. Path(a, b, <<o>> \o <<n>>, x, x + w, g) /\ x + w \in Nat
    BY <2>2, <2>3, <2>4, <2>5, <2>6 DEF Path
  <2>8. Path(a, b, <<o>> \o <<>>, x, x + u, k) /\ x + u \in Nat
    BY <2>2, <2>3, <2>4, <2>5, <2>6 DEF Path
  <2>9. QED  BY <2>1, <2>7, <2>8 DEF Leads
<1>4. CASE c.event \notin {"DEVICE_READY", "PORT_READY"}
  <2> DEFINE g == [i \in 0 .. 0 |-> x]
  <2>1. Answer(c) = <<>>
    BY <1>4 DEF Answer
  <2>2. g \in [0 .. 0 -> Nat] /\ g[0] = x /\ Len(<<>>) = 0 /\ 1 .. 0 = {}
    OBVIOUS
  <2> HIDE DEF g
  <2>3. Path(a, b, <<>>, x, x, g)
    BY <2>2 DEF Path
  <2>4. QED  BY <2>1, <2>3 DEF Leads
<1>5. QED  BY <1>1, <1>2, <1>3, <1>4

\* The messages buffers were taken for, counted.
LEMMA ToldType ==
  ASSUME NEW m, NEW n \in Nat
  PROVE  Told(m, n) \in Nat /\ IsFiniteSet({i \in 1 .. n : taken[i] = m})
<1>1. IsFiniteSet(1 .. n)
  BY FS_Interval
<1>2. IsFiniteSet({i \in 1 .. n : taken[i] = m})
  BY <1>1, FS_Subset
<1>3. QED  BY <1>2, FS_CardinalityType DEF Told

LEMMA ToldNext ==
  ASSUME NEW m, NEW x \in Message, taken \in Seq(Message),
         NEW L \in Nat, Len(taken) = L, taken' = Append(taken, x)
  PROVE  /\ Len(taken') = L + 1
         /\ \A n \in 0 .. L : Told(m, n)' = Told(m, n)
         /\ Told(m, L + 1)' = Told(m, L) + (IF x = m THEN 1 ELSE 0)
<1> DEFINE D(n) == {i \in 1 .. n : taken[i] = m}
           E(n) == {i \in 1 .. n : taken'[i] = m}
<1>1. /\ Len(taken') = L + 1 /\ taken'[L + 1] = x
      /\ \A i \in 1 .. L : taken'[i] = taken[i]
  OBVIOUS
<1>2. \A n \in 0 .. L : E(n) = D(n)
  BY <1>1
<1>3. \A n \in 0 .. L : Told(m, n)' = Told(m, n)
  BY <1>2 DEF Told
<1>4. E(L + 1) = IF x = m THEN D(L) \cup {L + 1} ELSE D(L)
  <2>1. \A i \in 1 .. L + 1 : i \in 1 .. L \/ i = L + 1
    OBVIOUS
  <2>2. 1 .. L \subseteq 1 .. L + 1 /\ L + 1 \in 1 .. L + 1
    OBVIOUS
  <2>3. ASSUME NEW i \in E(L + 1) PROVE i \in IF x = m THEN D(L) \cup {L + 1} ELSE D(L)
    BY <1>1, <2>1
  <2>4. ASSUME NEW i \in IF x = m THEN D(L) \cup {L + 1} ELSE D(L) PROVE i \in E(L + 1)
    BY <1>1, <2>2
  <2>5. QED  BY <2>3, <2>4
<1>5. Told(m, L + 1)' = Cardinality(E(L + 1)) /\ Told(m, L) = Cardinality(D(L))
  BY DEF Told
<1>6. L + 1 \notin D(L)
  OBVIOUS
<1>7. IsFiniteSet(D(L))
  <2>1. IsFiniteSet(1 .. L) /\ D(L) \subseteq 1 .. L
    BY FS_Interval
  <2>2. QED  BY <2>1, FS_Subset
<1> HIDE DEF D, E
<1>8. Cardinality(D(L) \cup {L + 1}) = Cardinality(D(L)) + 1 /\ Cardinality(D(L)) \in Nat
  BY <1>6, <1>7, FS_AddElement, FS_CardinalityType
<1>9. Cardinality(E(L + 1)) = Cardinality(D(L)) + (IF x = m THEN 1 ELSE 0)
  BY <1>4, <1>8
<1>10. QED  BY <1>1, <1>3, <1>5, <1>9

\* A buffer is taken for the first message of the queue.
LEMMA DeliverOrder ==
  ASSUME MsgInv, OrderInv, queue # <<>>, queue' = Tail(queue), UNCHANGED out,
         taken' = Append(taken, Head(queue)),
         NEW a \in Message, NEW b \in Message, InOrder(a, b)
  PROVE  Ordered(a, b)' /\ Ahead(a, b)'
<1>0. PICK L \in Nat : L = Len(taken)
  BY DEF OrderInv
<1> DEFINE x == Told(a, L) - Told(b, L)
           x2 == x + Gain(a, b, Head(queue))
<1>1. queue \in Seq(Message) /\ Head(queue) \in Message /\ taken \in Seq(Message)
  BY DEF MsgInv, OrderInv
<1>2. PICK y \in Nat, z \in Nat : Leads(a, b, queue, x, y) /\ Leads(a, b, out, y, z)
  BY <1>0 DEF OrderInv, Ahead
<1>3. x2 \in Nat /\ Leads(a, b, queue', x2, y)
  BY <1>1, <1>2, LeadsTail
<1>4. /\ Len(taken') = L + 1
      /\ \A n \in 0 .. L : Told(a, n)' = Told(a, n) /\ Told(b, n)' = Told(b, n)
      /\ Told(a, L + 1)' = Told(a, L) + (IF Head(queue) = a THEN 1 ELSE 0)
      /\ Told(b, L + 1)' = Told(b, L) + (IF Head(queue) = b THEN 1 ELSE 0)
  <2> DEFINE m == Head(queue)
  <2>0. m \in Message /\ Len(taken) = L /\ taken' = Append(taken, m)
    BY <1>0, <1>1
  <2> HIDE DEF m
  <2>1. /\ Len(taken') = L + 1 /\ (\A n \in 0 .. L : Told(a, n)' = Told(a, n))
        /\ Told(a, L + 1)' = Told(a, L) + (IF m = a THEN 1 ELSE 0)
    BY <1>1, <2>0, ToldNext, ZenonT(60)
  <2>2. /\ \A n \in 0 .. L : Told(b, n)' = Told(b, n)
        /\ Told(b, L + 1)' = Told(b, L) + (IF m = b THEN 1 ELSE 0)
    BY <1>1, <2>0, ToldNext, ZenonT(60)
  <2>3. QED  BY <2>1, <2>2, Zenon DEF m
<1>5. Told(a, L) \in Nat /\ Told(b, L) \in Nat
  BY ToldType
<1>6. /\ Told(a, L + 1)' - Told(b, L + 1)' = x2
      /\ Told(a, L + 1)' \in Nat /\ Told(b, L + 1)' \in Nat
  BY <1>4, <1>5 DEF Gain
<1> HIDE DEF x, x2
<1>7. Ordered(a, b)'
  <2> SUFFICES ASSUME NEW n \in 1 .. L + 1 PROVE Told(a, n)' >= Told(b, n)'
    BY <1>4 DEF Ordered
  <2>1. CASE n \in 1 .. L
    <3>1. Told(a, n) >= Told(b, n)
      BY <1>0, <2>1 DEF OrderInv, Ordered
    <3>2. n \in 0 .. L
      BY <2>1
    <3>3. QED  BY <1>4, <3>1, <3>2
  <2>2. CASE n = L + 1
    BY <1>3, <1>6, <2>2
  <2>3. QED  BY <2>1, <2>2
<1>8. Ahead(a, b)'
  <2>1. Leads(a, b, queue', Told(a, L + 1)' - Told(b, L + 1)', y) /\ Leads(a, b, out', y, z)
    BY <1>2, <1>3, <1>6
  <2>2. QED  BY <1>4, <2>1 DEF Ahead
<1>9. QED  BY <1>7, <1>8

\* A port reports the end of its input between two pushes of an answer.
LEMMA EofOrder ==
  ASSUME MsgInv, OrderInv, NEW p \in CmdIds, queue' = Append(queue, port_open(p, 0)),
         UNCHANGED <<out, taken>>,
         NEW a \in Message, NEW b \in Message, InOrder(a, b)
  PROVE  Ordered(a, b)' /\ Ahead(a, b)'
<1> DEFINE x == Told(a, Len(taken)) - Told(b, Len(taken))
           m == port_open(p, 0)
<1>1. queue \in Seq(Message) /\ m \in Message /\ Gain(a, b, m) = 0
  BY MessageTypes, InOrderFacts DEF MsgInv
<1>2. PICK y \in Nat, z \in Nat : Leads(a, b, queue, x, y) /\ Leads(a, b, out, y, z)
  BY DEF OrderInv, Ahead
<1>3. y + Gain(a, b, m) = y
  BY <1>1
<1>4. Ordered(a, b)' /\ x' = x
  BY DEF OrderInv, Ordered, Told
<1> HIDE DEF x, m
<1>5. Leads(a, b, Append(queue, m), x, y + Gain(a, b, m))
  BY <1>1, <1>2, <1>3, LeadsAppend
<1>6. Leads(a, b, queue', x', y) /\ Leads(a, b, out', y, z)
  BY <1>2, <1>3, <1>4, <1>5 DEF m
<1>7. QED  BY <1>4, <1>6 DEF Ahead, x

\* The worker pushes the next message of an answer.
LEMMA PushOrder ==
  ASSUME MsgInv, OrderInv, out # <<>>, queue' = Append(queue, Head(out)), out' = Tail(out),
         UNCHANGED taken,
         NEW a \in Message, NEW b \in Message, InOrder(a, b)
  PROVE  Ordered(a, b)' /\ Ahead(a, b)'
<1> DEFINE x == Told(a, Len(taken)) - Told(b, Len(taken))
           m == Head(out)
<1>1. queue \in Seq(Message) /\ out \in Seq(Message) /\ m \in Message
  BY DEF MsgInv
<1>2. PICK y \in Nat, z \in Nat : Leads(a, b, queue, x, y) /\ Leads(a, b, out, y, z)
  BY DEF OrderInv, Ahead
<1>3. y + Gain(a, b, m) \in Nat /\ Leads(a, b, Tail(out), y + Gain(a, b, m), z)
  BY <1>1, <1>2, LeadsTail
<1>4. Ordered(a, b)' /\ x' = x
  BY DEF OrderInv, Ordered, Told
<1> HIDE DEF x, m
<1>5. Leads(a, b, Append(queue, m), x, y + Gain(a, b, m))
  BY <1>1, <1>2, <1>3, LeadsAppend
<1>6. Leads(a, b, queue', x', y + Gain(a, b, m)) /\ Leads(a, b, out', y + Gain(a, b, m), z)
  BY <1>3, <1>4, <1>5 DEF m
<1>7. QED  BY <1>3, <1>4, <1>6 DEF Ahead, x

\* The worker starts to answer a command.
LEMMA AnswerOrder ==
  ASSUME MsgInv, OrderInv, NEW c \in Command, out' = Answer(c),
         UNCHANGED <<queue, taken>>,
         NEW a \in Message, NEW b \in Message, InOrder(a, b)
  PROVE  Ordered(a, b)' /\ Ahead(a, b)'
<1> DEFINE x == Told(a, Len(taken)) - Told(b, Len(taken))
<1>1. PICK y \in Nat, z \in Nat : Leads(a, b, queue, x, y) /\ Leads(a, b, out, y, z)
  BY DEF OrderInv, Ahead
<1>2. PICK w \in Nat : Leads(a, b, Answer(c), y, w)
  BY AnswerLeads
<1>3. Ordered(a, b)' /\ x' = x
  BY DEF OrderInv, Ordered, Told
<1> HIDE DEF x
<1>4. Leads(a, b, queue', x', y) /\ Leads(a, b, out', y, w)
  BY <1>1, <1>2, <1>3
<1>5. QED  BY <1>3, <1>4 DEF Ahead, x

LEMMA OrderFrame ==
  ASSUME OrderInv, UNCHANGED <<queue, out, taken>>, wpc = "txpush" => wpc' = "txpush"
  PROVE  OrderInv'
<1>1. ASSUME NEW a \in Message, NEW b \in Message, InOrder(a, b)
      PROVE  Ordered(a, b)' /\ Ahead(a, b)'
  <2>1. Ordered(a, b) /\ Ahead(a, b)
    BY <1>1 DEF OrderInv
  <2>2. \A m, n : Told(m, n)' = Told(m, n)
    BY DEF Told
  <2>3. QED  BY <2>1, <2>2 DEF Ordered, Ahead
<1>2. QED  BY <1>1 DEF OrderInv

LEMMA OrderNext == DevInv /\ MsgInv /\ OrderInv /\ [Next]_vars => OrderInv'
<1> SUFFICES ASSUME DevInv, MsgInv, OrderInv, [Next]_vars  PROVE OrderInv'
  OBVIOUS
<1> USE DEF workerVars, guestVars, ringVars
<1>1. CASE Activate \/ Stop \/ Joined \/ (\E q \in Queues, b \in BOOLEAN : SetEnabled(q, b))
           \/ (\E q \in Queues : StartRing(q) \/ GetVringBase(q))
  BY <1>1, OrderFrame
     DEF Activate, Stop, Joined, SetEnabled, StartRing, GetVringBase, DevInv
<1>2. CASE GuestGives \/ (\E c \in Command : GuestSends(c)) \/ UNCHANGED vars
  BY <1>2, OrderFrame DEF GuestGives, GuestSends, vars
<1>3. CASE Wait \/ RxDone \/ TxDone
  BY <1>3, OrderFrame DEF Wait, RxDone, TxDone
<1>4. CASE \E s \in Sources : Event(s)
  BY <1>4, OrderFrame DEF Event
<1>5. CASE \E q \in Queues : TryLock(q)
  BY <1>5, OrderFrame DEF TryLock, Pc
<1>6. ASSUME NEW p \in Inputs, PortEof(p)  PROVE OrderInv'
  <2>1. /\ UNCHANGED <<out, taken, wpc>>
        /\ queue' = Append(queue, port_open(p, 0)) /\ p \in CmdIds
    BY <1>6, ConstantsAssumption DEF PortEof, Push
  <2>2. \A a, b \in Message : InOrder(a, b) => Ordered(a, b)' /\ Ahead(a, b)'
    BY <2>1, EofOrder
  <2>3. QED  BY <2>1, <2>2 DEF OrderInv
<1>7. CASE RxPop
  <2>1. queue # <<>> /\ queue' = Tail(queue) /\ UNCHANGED <<out, wpc>>
        /\ Head(queue) \in Message
    BY <1>7 DEF RxPop, MsgInv
  <2>2. taken' = Append(taken, Head(queue))
    BY <1>7 DEF RxPop
  <2>3. \A a, b \in Message : InOrder(a, b) => Ordered(a, b)' /\ Ahead(a, b)'
    BY <2>1, <2>2, DeliverOrder
  <2>4. taken' \in Seq(Message)
    BY <2>1, <2>2 DEF OrderInv
  <2>5. QED  BY <2>1, <2>3, <2>4 DEF OrderInv
<1>8. CASE TxPop
  <2>1. wpc = "txpop" /\ txAvail # <<>> /\ UNCHANGED <<queue, taken>>
        /\ Head(txAvail) \in Command
    BY <1>8 DEF TxPop, MsgInv
  <2>2. CASE UNCHANGED out
    BY <2>1, <2>2, OrderFrame
  <2>3. CASE /\ out' = Answer(Head(txAvail))
             /\ wpc' = IF out' = <<>> THEN "txpop" ELSE "txpush"
    <3>1. \A a, b \in Message : InOrder(a, b) => Ordered(a, b)' /\ Ahead(a, b)'
      BY <2>1, <2>3, AnswerOrder
    <3>2. QED  BY <2>1, <2>3, <3>1 DEF OrderInv
  <2>4. QED  BY <1>8, <2>2, <2>3 DEF TxPop
<1>9. CASE TxPush
  <2>1. /\ out # <<>> /\ UNCHANGED taken /\ out' = Tail(out)
        /\ queue' = Append(queue, Head(out))
        /\ wpc' = IF out' = <<>> THEN "txpop" ELSE "txpush"
    BY <1>9 DEF TxPush, Push, MsgInv
  <2>2. \A a, b \in Message : InOrder(a, b) => Ordered(a, b)' /\ Ahead(a, b)'
    BY <2>1, PushOrder
  <2>3. QED  BY <2>1, <2>2 DEF OrderInv
<1>10. QED
  BY <1>1, <1>2, <1>3, <1>4, <1>5, <1>6, <1>7, <1>8, <1>9
     DEF Next, Worker, Handler, Guest

LEMMA OrderInit == Init => OrderInv
<1> SUFFICES ASSUME Init  PROVE OrderInv
  OBVIOUS
<1>1. taken = <<>> /\ queue = <<>> /\ out = <<>> /\ Len(<<>>) = 0 /\ <<>> \in Seq(Message)
  BY DEF Init
<1>2. ASSUME NEW a \in Message, NEW b \in Message  PROVE Ordered(a, b) /\ Ahead(a, b)
  <2>1. Ordered(a, b)
    BY <1>1 DEF Ordered
  <2>2. Told(a, 0) = 0 /\ Told(b, 0) = 0
    <3>1. \A m : {i \in 1 .. 0 : taken[i] = m} = {}
      OBVIOUS
    <3>2. QED  BY <3>1, FS_EmptySet DEF Told
  <2> DEFINE h == [i \in 0 .. 0 |-> 0]
  <2>3. h \in [0 .. 0 -> Nat] /\ h[0] = 0 /\ 1 .. 0 = {}
    OBVIOUS
  <2> HIDE DEF h
  <2>4. Path(a, b, <<>>, 0, 0, h)
    BY <1>1, <2>3 DEF Path
  <2>5. Leads(a, b, <<>>, 0, 0)
    BY <2>4 DEF Leads
  <2>6. Told(a, Len(taken)) - Told(b, Len(taken)) = 0
    BY <1>1, <2>2
  <2>7. Ahead(a, b)
    BY <1>1, <2>5, <2>6 DEF Ahead
  <2>8. QED  BY <2>1, <2>7
<1>3. QED  BY <1>1, <1>2 DEF OrderInv

\* For any number of ports, consoles, commands and buffers, however the pushes of the
\* ports and of the answers, the stops of the rings and the guest's buffers
\* interleave: the buffer that says that a port is a console comes before the one
\* that says that it is open, and that one before its size and its name, each time.
THEOREM ControlInOrder == Spec => []HandshakeInOrder
<1>1. Init => DevInv /\ MsgInv
  BY DEF Init, DevInv, PanicsOnlyWithWorker, MsgInv
<1>2. OrderInv => HandshakeInOrder
  <2> SUFFICES ASSUME OrderInv PROVE HandshakeInOrder
    OBVIOUS
  <2>1. Ports \subseteq CmdIds /\ Consoles \subseteq Ports
    BY ConstantsAssumption
  <2>2. ASSUME NEW p \in Consoles
        PROVE  Ordered(mark_console_port(p), port_open(p, 1))
    BY <2>1, MessageTypes DEF OrderInv, InOrder
  <2>3. ASSUME NEW p \in Ports
        PROVE  /\ Ordered(port_open(p, 1), console_resize(p))
               /\ Ordered(port_open(p, 1), port_name(p))
    BY <2>1, MessageTypes DEF OrderInv, InOrder
  <2>4. QED  BY <2>2, <2>3 DEF HandshakeInOrder, Ordered
<1>3. QED
  BY <1>1, <1>2, OrderInit, OrderNext, DevInvNext, MsgInvNext, PTL DEF Spec

-----------------------------------------------------------------------------
(* The buffers. *)

BufferInv ==
  /\ queue \in Seq(Message) /\ taken \in Seq(Message) /\ rxAvail \in Nat /\ given \in Nat
  /\ BuffersAccounted

LEMMA BufferNext ==
  ASSUME MsgInv', OrderInv', BufferInv, [Next]_vars
  PROVE  BufferInv'
<1> USE DEF workerVars, guestVars, BufferInv, BuffersAccounted
<1>0. queue' \in Seq(Message) /\ taken' \in Seq(Message)
  BY DEF MsgInv, OrderInv
<1>1. CASE UNCHANGED <<taken, rxAvail, given>>
  BY <1>0, <1>1
<1>2. CASE Handler \/ (\E p \in Inputs : PortEof(p)) \/ UNCHANGED vars
  BY <1>1, <1>2 DEF Handler, Activate, Stop, Joined, SetEnabled, StartRing, GetVringBase,
                    PortEof, vars
<1>3. CASE \E c \in Command : GuestSends(c)
  BY <1>1, <1>3 DEF GuestSends
<1>4. CASE GuestGives
  BY <1>0, <1>4, ConstantsAssumption DEF GuestGives
<1>5. CASE RxPop
  <2>1. /\ rxAvail > 0 /\ rxAvail' = rxAvail - 1 /\ given' = given
        /\ taken' = Append(taken, Head(queue)) /\ queue # <<>>
    BY <1>5 DEF RxPop
  <2>2. Len(taken') = Len(taken) + 1 /\ Len(taken) \in Nat
    BY <2>1
  <2>3. QED  BY <1>0, <2>1, <2>2
<1>6. CASE Wait \/ (\E s \in Sources : Event(s)) \/ (\E q \in Queues : TryLock(q)) \/ RxDone
           \/ TxPop \/ TxPush \/ TxDone
  BY <1>1, <1>6 DEF Wait, Event, TryLock, RxDone, TxPop, TxPush, TxDone
<1>7. QED
  BY <1>2, <1>3, <1>4, <1>5, <1>6 DEF Next, Worker, Guest

\* For any buffers and messages, and however often the rings are stopped: process_rx
\* takes a buffer only for a message, and puts back the one it has none for.
THEOREM ControlKeepsBuffers == Spec => []BuffersAccounted
<1>1. Init => DevInv /\ MsgInv /\ BufferInv
  BY DEF Init, DevInv, PanicsOnlyWithWorker, MsgInv, BufferInv, BuffersAccounted
<1>2. BufferInv => BuffersAccounted
  BY DEF BufferInv
<1>3. QED
  <2>1. MsgInv' /\ OrderInv' /\ BufferInv /\ [Next]_vars => BufferInv'
    BY BufferNext
  <2>2. QED
    BY <1>1, <1>2, <2>1, OrderInit, OrderNext, DevInvNext, MsgInvNext, PTL DEF Spec

-----------------------------------------------------------------------------
(* The wake-ups. *)

\* What WakeupKept talks about, apart from the worker's place.
wakeVars == <<queue, rxAvail, txAvail, queue_evt, kick, missed>>

\* A stopped ring has no kick.
KickOfStarted ==
  /\ kick \in [Queues -> BOOLEAN] /\ ready \in [Queues -> BOOLEAN]
  /\ \A q \in Queues : kick[q] => ready[q]

LEMMA KickNext ==
  ASSUME KickOfStarted, [Next]_vars
  PROVE  KickOfStarted'
<1> USE DEF KickOfStarted, ringVars
<1>1. CASE UNCHANGED <<kick, ready>>
  BY <1>1
<1>2. CASE Activate \/ Stop \/ Joined \/ (\E q \in Queues, b \in BOOLEAN : SetEnabled(q, b))
           \/ UNCHANGED vars
  BY <1>1, <1>2 DEF Activate, Stop, Joined, SetEnabled, vars
<1>3. CASE \E q \in Queues : StartRing(q)
  BY <1>3 DEF StartRing
<1>4. CASE \E q \in Queues : GetVringBase(q)
  BY <1>4 DEF GetVringBase
<1>5. CASE Guest
  BY <1>5 DEF Guest, GuestGives, GuestSends, Queues
<1>6. CASE \E p \in Inputs : PortEof(p)
  BY <1>1, <1>6 DEF PortEof
<1>7. CASE \E s \in Sources : Event(s)
  <2>1. /\ UNCHANGED ready
        /\ UNCHANGED kick \/ \E q \in Queues : kick' = [kick EXCEPT ![q] = FALSE]
    BY <1>7 DEF Event, BeginProcess, Queues
  <2>2. QED  BY <2>1
<1>8. CASE Wait \/ (\E q \in Queues : TryLock(q)) \/ RxPop \/ RxDone
           \/ TxPop \/ TxPush \/ TxDone
  BY <1>1, <1>8 DEF Wait, TryLock, RxPop, RxDone, TxPop, TxPush, TxDone
<1>9. QED
  BY <1>2, <1>3, <1>4, <1>5, <1>6, <1>7, <1>8 DEF Next, Worker, Handler

LEMMA WakeupNext ==
  ASSUME DevInv, WakeupKept, KickOfStarted, [Next]_vars
  PROVE  WakeupKept'
<1> USE DEF workerVars, guestVars, ringVars
<1> kick \in [Queues -> BOOLEAN]
  BY DEF KickOfStarted
<1>0. CASE UNCHANGED <<wakeVars, wpc>>
  BY <1>0 DEF wakeVars, WakeupKept
<1>1. CASE Activate
  BY <1>1, QueuesAreThere DEF Activate, DevInv, WakeupKept
<1>2. CASE Stop \/ Joined \/ UNCHANGED vars
           \/ \E q \in Queues, b \in BOOLEAN : SetEnabled(q, b)
  BY <1>0, <1>2 DEF Stop, Joined, SetEnabled, vars, wakeVars
<1>3. CASE \E p \in Inputs : PortEof(p)
  BY <1>3 DEF PortEof, Push, WakeupKept
<1>4. CASE Guest
  BY <1>4 DEF Guest, GuestGives, GuestSends, Queues, WakeupKept
<1>5. CASE Wait
  BY <1>5 DEF Wait, WakeupKept
<1>6. CASE \E s \in Sources : Event(s)
  <2>1. /\ wpc = "batch" /\ UNCHANGED <<queue, rxAvail, txAvail>>
        /\ \/ BeginProcess("rx", batch') \/ BeginProcess("tx", batch')
           \/ queue_evt' = TRUE /\ UNCHANGED <<kick, missed>>
    BY <1>6 DEF Event
  <2>2. CASE BeginProcess("rx", batch')
    <3>1. /\ kick' \in [Queues -> BOOLEAN] /\ kick'["tx"] = kick["tx"]
          /\ queue_evt' \/ wpc' = "rxlock"
          /\ UNCHANGED missed
      BY <2>2 DEF BeginProcess, Queues, Pc
    <3>2. QED  BY <2>1, <3>1 DEF WakeupKept
  <2>3. CASE BeginProcess("tx", batch')
    <3>1. /\ kick' \in [Queues -> BOOLEAN] /\ queue_evt'
          /\ wpc' = "txlock" \/ "tx" \in missed'
      BY <2>3 DEF BeginProcess, Queues, Pc
    <3>2. QED  BY <2>1, <3>1 DEF WakeupKept
  <2>4. CASE queue_evt' = TRUE /\ UNCHANGED <<kick, missed>>
    BY <2>1, <2>4 DEF WakeupKept
  <2>5. QED  BY <2>1, <2>2, <2>3, <2>4
<1>7. CASE TryLock("rx")
  <2>1. /\ wpc = "rxlock" /\ UNCHANGED <<queue, rxAvail, txAvail, queue_evt, kick>>
        /\ wpc' = "rxpop" \/ "rx" \in missed'
        /\ "tx" \in missed => "tx" \in missed'
    BY <1>7 DEF TryLock, Pc
  <2>2. QED  BY <2>1 DEF WakeupKept
<1>8. CASE TryLock("tx")
  <2>1. /\ wpc = "txlock" /\ UNCHANGED <<queue, rxAvail, txAvail, queue_evt, kick>>
        /\ wpc' = "txpop" \/ "tx" \in missed'
        /\ "rx" \in missed => "rx" \in missed'
    BY <1>8 DEF TryLock, Pc
  <2>2. QED  BY <2>1 DEF WakeupKept
<1>9. CASE RxPop \/ RxDone
  BY <1>9 DEF RxPop, RxDone, WakeupKept
<1>10. CASE TxPop
  BY <1>10 DEF TxPop, WakeupKept
<1>11. CASE TxPush
  BY <1>11 DEF TxPush, Push, WakeupKept
<1>12. CASE TxDone
  BY <1>12 DEF TxDone, WakeupKept
<1>13. ASSUME NEW q \in Queues, StartRing(q)
       PROVE  WakeupKept'
  <2>1. PICK b \in BOOLEAN : kick' = [kick EXCEPT ![q] = b]
    BY <1>13 DEF StartRing
  <2>2. /\ kick' \in [Queues -> BOOLEAN] /\ (\A k \in Queues : k # q => kick'[k] = kick[k])
        /\ UNCHANGED <<queue, rxAvail, txAvail, queue_evt, missed, wpc>>
    BY <1>13, <2>1 DEF StartRing
  <2>3. kick[q] = FALSE
    BY <1>13 DEF StartRing, KickOfStarted
  <2>4. QED  BY <2>2, <2>3 DEF WakeupKept, Queues
<1>14. ASSUME NEW q \in Queues, GetVringBase(q)
       PROVE  WakeupKept'
  <2>1. UNCHANGED <<queue, rxAvail, txAvail, queue_evt, wpc>>
    BY <1>14 DEF GetVringBase
  <2>2. CASE UNCHANGED <<kick, missed>>
    BY <1>0, <2>1, <2>2 DEF wakeVars
  <2>3. CASE /\ kick' = [kick EXCEPT ![q] = FALSE]
             /\ missed' = IF kick[q] THEN missed \cup {q} ELSE missed
    BY <2>1, <2>3 DEF WakeupKept, Queues
  <2>4. QED  BY <1>14, <2>2, <2>3 DEF GetVringBase, ringVars
<1>15. QED
  BY <1>1, <1>2, <1>3, <1>4, <1>5, <1>6, <1>7, <1>8, <1>9, <1>10, <1>11, <1>12, <1>13, <1>14
     DEF Next, Worker, Handler, Queues

\* No wake-up of the control worker is lost, for any number of ports and whatever
\* they, the guest and the front-end do between its steps, but those of a queue that
\* the front-end has disabled or stopped (missed).
THEOREM ControlWakesUp == Spec => []WakeupKept
<1> DEFINE WInv == DevInv /\ WakeupKept /\ KickOfStarted
<1>1. Init => WInv
  BY DEF Init, DevInv, PanicsOnlyWithWorker, WakeupKept, KickOfStarted
<1>2. WInv /\ [Next]_vars => WInv'
  BY DevInvNext, KickNext, WakeupNext
<1>3. WInv => WakeupKept
  OBVIOUS
<1> HIDE DEF WInv
<1>4. QED  BY <1>1, <1>2, <1>3, PTL DEF Spec
=============================================================================
