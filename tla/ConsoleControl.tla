--------------------------- MODULE ConsoleControl ---------------------------
(***************************************************************************)
(* The control plane of the console (console_control.rs, device.rs): the   *)
(* messages ConsoleControl queues for the guest, the main worker that      *)
(* moves them into the control rx queue and obeys the commands of the      *)
(* control tx queue, and Console::activate / stop.                         *)
(*                                                                         *)
(* Four parties run at once: the worker thread, the rx threads of the      *)
(* ports (they report the end of their input), the guest, and the          *)
(* front-end, which may disable a queue at any moment, and stop and start  *)
(* it again where it was.  The worker's pc is wait, or batch (between two  *)
(* events of the batch epoll returned), or the place in process_rx /       *)
(* process_tx; it holds the mutex of a queue at rxpop, txpop and txpush,   *)
(* and of the tx queue for ever if it panics there.  A message is          *)
(* abstracted to its event, its port and its value.  The chains of the     *)
(* guest lie in its memory, so that Reader::new and Writer::new succeed.   *)
(***************************************************************************)
EXTENDS Naturals, Sequences, FiniteSets

CONSTANTS
  NumPorts,     \* Console::new asserts that there is one
  Consoles,     \* PortDescription::Console; Console::new asserts that port 0 is one
  Named,        \* ports with a name; a console has none
  Inputs,       \* ports with an input
  CmdIds,       \* port ids the guest puts into a command
  MaxCmds,      \* bound: commands the guest sends
  MaxPauses,    \* bound: times the front-end disables or stops a queue
  BufBatch,     \* buffers the guest adds to the control rx queue for one kick
  MaxBufs       \* bound: buffers it gives in all

Ports == 0 .. NumPorts - 1

ASSUME ConstantsAssumption ==
  /\ NumPorts \in Nat \ {0}
  /\ 0 \in Consoles /\ Consoles \subseteq Ports
  /\ Named \subseteq Ports \ Consoles /\ Inputs \subseteq Ports
  /\ Ports \subseteq CmdIds /\ CmdIds \subseteq Nat
  /\ MaxCmds \in Nat /\ BufBatch \in Nat \ {0} /\ MaxBufs \in Nat /\ MaxPauses \in Nat

VARIABLES
  dev,          \* the thread that calls activate and stop
  stopfd,       \* the counter of stopfd is not zero; nobody reads it
  wpc,          \* the main worker
  batch,        \* events of the batch left to handle
  queue,        \* ConsoleControl::queue
  queue_evt,    \* the counter of ConsoleControl::queue_evt is not zero
  enabled,      \* the control queues: VringState::enabled
  ready,        \* they are started
  kick,         \* their kicks
  rxAvail,      \* the guest's buffers in the control rx queue
  txAvail,      \* commands in the control tx queue
  out,          \* messages the command being handled still has to push
  raise_irq,    \* process_rx, process_tx
  eof,          \* ports whose rx thread has ended
  taken,        \* messages a buffer was popped for, in the order of the buffers
  added,        \* ports the guest was told of
  unsig,        \* queues with used buffers the guest was not interrupted for
  missed,       \* queues whose wake-up was consumed, or went with their kick, while
                \* they were disabled or stopped, and that were not looked at since
  given,        \* buffers the guest gave so far
  cmds,         \* commands the guest sent so far
  pauses        \* times a queue was disabled or stopped so far

guestVars == <<rxAvail, txAvail, taken, added, given, cmds>>
workerVars == <<wpc, batch, out, raise_irq>>
ringVars == <<enabled, ready, kick, pauses>>
vars == <<dev, stopfd, queue, queue_evt, ringVars, eof, unsig, missed, guestVars,
          workerVars>>

Queues == {"rx", "tx"}
Events == {"PORT_ADD", "CONSOLE_PORT", "RESIZE", "PORT_OPEN", "PORT_NAME"}
Message == [event : Events, id : CmdIds, value : {0, 1}]
\* LOGGED stands for the commands the worker only logs: PORT_READY with another
\* value than 1, PORT_OPEN, an unknown event.  UNREADABLE is a chain too short for
\* a command.
Command == [event : {"PORT_READY"}, id : CmdIds]
             \cup [event : {"DEVICE_READY", "LOGGED", "UNREADABLE"}, id : {0}]
Pc(q, rx, tx) == IF q = "rx" THEN rx ELSE tx
Sources == {"rxkick", "txkick", "evt", "stop"}

\* The front-end has enabled the queues (SET_VRING_ENABLE) before it starts them.
Init ==
  /\ dev = "inactive" /\ stopfd = FALSE
  /\ wpc = "unborn" /\ batch = {} /\ out = <<>> /\ raise_irq = FALSE
  /\ queue = <<>> /\ queue_evt = FALSE
  /\ enabled = [q \in Queues |-> TRUE] /\ ready = [q \in Queues |-> FALSE]
  /\ kick = [q \in Queues |-> FALSE] /\ pauses = 0
  /\ rxAvail = 0 /\ txAvail = <<>> /\ taken = <<>> /\ added = {} /\ given = 0 /\ cmds = 0
  /\ eof = {} /\ unsig = {} /\ missed = {}

-----------------------------------------------------------------------------
(* ConsoleControl: what the device tells the guest. *)

Msg(event, id, value) == [event |-> event, id |-> id, value |-> value]
mark_console_port(p) == Msg("CONSOLE_PORT", p, 1)
console_resize(p) == Msg("RESIZE", p, 0)
port_add(p) == Msg("PORT_ADD", p, 0)
port_open(p, open) == Msg("PORT_OPEN", p, open)
port_name(p) == Msg("PORT_NAME", p, 1)

M_PushSilently(m) == queue' = Append(queue, m) /\ UNCHANGED queue_evt
M_PushFront(m) == queue' = <<m>> \o queue /\ queue_evt' = TRUE

\* push_msg, push_vec.
Push(m) == queue' = Append(queue, m) /\ queue_evt' = TRUE

-----------------------------------------------------------------------------
(* Console: activate and stop. *)

\* port_id_to_queue_idx and num_queues.
M_QueueIdx(dir, p) ==
  IF p = 0 THEN (IF dir = "rx" THEN 0 ELSE 1)
  ELSE 2 * p + (IF dir = "rx" THEN 0 ELSE 1)
port_id_to_queue_idx(dir, p) ==
  IF p = 0 THEN (IF dir = "rx" THEN 0 ELSE 1)
  ELSE 2 + 2 * p + (IF dir = "rx" THEN 0 ELSE 1)
num_queues(n) == 2 + 2 * n

CONTROL_QUEUES == {2, 3}

\* start_ports removes two queues for every port from the map and expects
\* them to be there.
PortQueues == {port_id_to_queue_idx(d, p) : d \in Queues, p \in Ports}
QueuesThere == /\ PortQueues \subseteq (0 .. num_queues(NumPorts) - 1) \ CONTROL_QUEUES
               /\ \A d, e \in Queues, p, q \in Ports :
                    port_id_to_queue_idx(d, p) = port_id_to_queue_idx(e, q)
                      => d = e /\ p = q

\* activate: MainWorker::new starts the ports on the caller's thread, run
\* registers the kicks, queue_evt and stopfd.
Activate ==
  /\ dev = "inactive"
  /\ \/ QueuesThere /\ dev' = "active" /\ wpc' = "wait"
     \/ ~ QueuesThere /\ dev' = "panicked" /\ UNCHANGED wpc
  /\ UNCHANGED <<stopfd, queue, queue_evt, ringVars, eof, unsig, missed, guestVars,
                 batch, out, raise_irq>>

\* stop and reset write stopfd and join the worker; the handler stops the
\* device when the connection ends.
Stop ==
  /\ dev = "active"
  /\ stopfd' = TRUE /\ dev' = "joining"
  /\ UNCHANGED <<queue, queue_evt, ringVars, eof, unsig, missed, guestVars, workerVars>>

\* The worker has panicked: join returns its error, which stop unwraps.
Joined ==
  /\ dev = "joining" /\ wpc = "panicked"
  /\ dev' = "panicked"
  /\ UNCHANGED <<stopfd, queue, queue_evt, ringVars, eof, unsig, missed, guestVars,
                 workerVars>>

-----------------------------------------------------------------------------
(* MainWorker::run. *)

M_ReadySources ==    \* the kick of the control tx queue is not registered
  {s \in Sources : \/ s = "rxkick" /\ kick["rx"]
                   \/ s = "evt" /\ queue_evt
                   \/ s = "stop" /\ stopfd}

\* What epoll_wait reports; both ControlRxq sources are level-triggered.
ReadySources ==
  {s \in Sources : \/ s = "rxkick" /\ kick["rx"]
                   \/ s = "txkick" /\ kick["tx"]
                   \/ s = "evt" /\ queue_evt
                   \/ s = "stop" /\ stopfd}

Wait ==
  /\ wpc = "wait" /\ ReadySources # {}
  /\ wpc' = "batch" /\ batch' = ReadySources
  /\ UNCHANGED <<dev, stopfd, queue, queue_evt, ringVars, eof, unsig, missed, guestVars,
                 out, raise_irq>>

\* The event is handled: the next one of the batch, or epoll_wait.
EventDone(left) == wpc' = IF left = {} THEN "wait" ELSE "batch"

M_BeginProcess(q, left) ==    \* queue_evt is read before the queue is looked at
  /\ kick' = [kick EXCEPT ![q] = FALSE]
  /\ queue_evt' = (q = "tx")
  /\ \/ enabled[q] /\ wpc' = Pc(q, "rxlock", "txlock") /\ UNCHANGED missed
     \/ ~ enabled[q] /\ EventDone(left)
        /\ missed' = IF q = "tx" THEN missed \cup {q} ELSE missed

\* read_kick, and in process_rx the read of queue_evt: counters are reset
\* whether or not the queue is enabled, queue_evt only if it is.
BeginProcess(q, left) ==
  /\ kick' = [kick EXCEPT ![q] = FALSE]
  /\ queue_evt' = (q = "tx" \/ ~ enabled[q])
  /\ \/ enabled[q] /\ wpc' = Pc(q, "rxlock", "txlock") /\ UNCHANGED missed
     \/ ~ enabled[q] /\ EventDone(left)
        /\ missed' = IF q = "tx" THEN missed \cup {q} ELSE missed

\* Every event writes queue_evt first.  Quit leaves the loop over the batch,
\* and only that.
Event(s) ==
  /\ wpc = "batch" /\ s \in batch
  /\ \/ s \in {"rxkick", "evt"} /\ batch' = batch \ {s} /\ BeginProcess("rx", batch')
     \/ s = "txkick" /\ batch' = batch \ {s} /\ BeginProcess("tx", batch')
     \/ s = "stop" /\ batch' = {} /\ EventDone({}) /\ queue_evt' = TRUE
        /\ UNCHANGED <<kick, missed>>
  /\ UNCHANGED <<pauses, dev, stopfd, queue, enabled, ready, eof, unsig, guestVars, out,
                 raise_irq>>

\* try_lock_queue.
TryLock(q) ==
  /\ wpc = Pc(q, "rxlock", "txlock")
  /\ \/ enabled[q] /\ ready[q] /\ wpc' = Pc(q, "rxpop", "txpop") /\ missed' = missed \ {q}
     \/ ~ (enabled[q] /\ ready[q]) /\ EventDone(batch) /\ missed' = missed \cup {q}
  /\ raise_irq' = FALSE
  /\ UNCHANGED <<dev, stopfd, queue, queue_evt, ringVars, eof, unsig, guestVars, batch,
                 out>>

M_ForgetIrq(m) ==
  \/ /\ unsig' = unsig \cup {"rx"} /\ UNCHANGED raise_irq
     /\ added' = IF m.event = "PORT_ADD" THEN added \cup {m.id} ELSE added
  \/ UNCHANGED <<added, raise_irq, unsig>>

\* The message is written into the buffer and the guest reads it; or the buffer is
\* too short, or the write fails: then neither is seen again.
WriteMessage(m) ==
  \/ /\ raise_irq' = TRUE /\ unsig' = unsig \cup {"rx"}
     /\ added' = IF m.event = "PORT_ADD" THEN added \cup {m.id} ELSE added
  \/ UNCHANGED <<added, raise_irq, unsig>>

\* process_rx, one turn of its loop.
RxPop ==
  /\ wpc = "rxpop" /\ rxAvail > 0 /\ queue # <<>>
  /\ rxAvail' = rxAvail - 1 /\ queue' = Tail(queue) /\ taken' = Append(taken, Head(queue))
  /\ WriteMessage(Head(queue))
  /\ UNCHANGED <<dev, stopfd, queue_evt, ringVars, eof, missed, txAvail, given, cmds,
                 wpc, batch, out>>

\* signal_used_queue, if a buffer was used, ends process_rx and process_tx.
Signalled(q) == unsig' = IF raise_irq THEN unsig \ {q} ELSE unsig

M_RxDone ==    \* without go_to_previous_position
  /\ wpc = "rxpop" /\ (rxAvail = 0 \/ queue = <<>>)
  /\ rxAvail' = IF rxAvail > 0 THEN rxAvail - 1 ELSE 0
  /\ Signalled("rx") /\ EventDone(batch) /\ raise_irq' = FALSE
  /\ UNCHANGED <<dev, stopfd, queue, queue_evt, ringVars, eof, missed, txAvail, taken,
                 added, given, cmds, batch, out>>

\* No buffer, or no message: the buffer goes back.
RxDone ==
  /\ wpc = "rxpop" /\ (rxAvail = 0 \/ queue = <<>>)
  /\ Signalled("rx") /\ EventDone(batch) /\ raise_irq' = FALSE
  /\ UNCHANGED <<dev, stopfd, queue, queue_evt, ringVars, eof, missed, guestVars, batch,
                 out>>

-----------------------------------------------------------------------------
(* MainWorker::process_tx. *)

\* What is pushed for a command.
Answer(c) ==
  CASE c.event = "DEVICE_READY" -> [i \in 1 .. NumPorts |-> port_add(i - 1)]
    [] c.event = "PORT_READY" ->
         (IF c.id \in Consoles
          THEN <<mark_console_port(c.id), port_open(c.id, 1), console_resize(c.id)>>
          ELSE <<port_open(c.id, 1)>>)
         \o (IF c.id \in Named THEN <<port_name(c.id)>> ELSE <<>>)
    [] OTHER -> <<>>

\* The chain is returned unless no command can be read from it; then it is
\* obeyed.  ports[cmd.id] panics for a port that does not exist, with the queue
\* locked.
TxPop ==
  /\ wpc = "txpop" /\ txAvail # <<>>
  /\ LET c == Head(txAvail) IN
       /\ txAvail' = Tail(txAvail) /\ raise_irq' = TRUE
       /\ unsig' = IF c.event = "UNREADABLE" THEN unsig ELSE unsig \cup {"tx"}
       /\ \/ c.event = "PORT_READY" /\ c.id \notin Ports
             /\ wpc' = "panicked" /\ UNCHANGED out
          \/ ~ (c.event = "PORT_READY" /\ c.id \notin Ports)
             /\ out' = Answer(c) /\ wpc' = IF out' = <<>> THEN "txpop" ELSE "txpush"
  /\ UNCHANGED <<dev, stopfd, queue, queue_evt, ringVars, eof, missed, rxAvail, taken,
                 added, given, cmds, batch>>

\* One push; other threads push between two of them.
TxPush ==
  /\ wpc = "txpush"
  /\ Push(Head(out)) /\ out' = Tail(out)
  /\ wpc' = IF out' = <<>> THEN "txpop" ELSE "txpush"
  /\ UNCHANGED <<dev, stopfd, ringVars, eof, unsig, missed, guestVars, batch,
                 raise_irq>>

TxDone ==
  /\ wpc = "txpop" /\ txAvail = <<>>
  /\ Signalled("tx") /\ EventDone(batch) /\ raise_irq' = FALSE
  /\ UNCHANGED <<dev, stopfd, queue, queue_evt, ringVars, eof, missed, guestVars, batch,
                 out>>

Worker ==
  \/ Wait \/ (\E s \in Sources : Event(s))
  \/ (\E q \in Queues : TryLock(q)) \/ RxPop \/ RxDone \/ TxPop \/ TxPush \/ TxDone

-----------------------------------------------------------------------------
(* The ports, the guest, the front-end. *)

\* process_rx of a port at the end of its input: port_open(id, false), and the
\* thread ends.
PortEof(p) ==
  /\ dev = "active" /\ p \notin eof
  /\ eof' = eof \cup {p} /\ Push(port_open(p, 0))
  /\ UNCHANGED <<dev, stopfd, ringVars, unsig, missed, guestVars, workerVars>>

GuestGives ==
  /\ ready["rx"] /\ given + BufBatch <= MaxBufs
  /\ rxAvail' = rxAvail + BufBatch /\ given' = given + BufBatch
  /\ kick' = [kick EXCEPT !["rx"] = TRUE]
  /\ UNCHANGED <<pauses, dev, stopfd, queue, queue_evt, enabled, ready, eof, unsig,
                 missed, txAvail, taken, added, cmds, workerVars>>

\* A driver sends DEVICE_READY first, and PORT_READY for a port it was told of.
GuestSends(c) ==
  /\ ready["tx"] /\ cmds < MaxCmds
  /\ cmds = 0 => c.event = "DEVICE_READY"
  /\ c.event = "PORT_READY" /\ c.id \in Ports => c.id \in added
  /\ txAvail' = Append(txAvail, c) /\ cmds' = cmds + 1
  /\ kick' = [kick EXCEPT !["tx"] = TRUE]
  /\ UNCHANGED <<pauses, dev, stopfd, queue, queue_evt, enabled, ready, eof, unsig,
                 missed, rxAvail, taken, added, given, workerVars>>

\* The requests come on the thread that also activates and stops the device.
Serving == dev \in {"inactive", "active"}

\* SET_VRING_ENABLE.
SetEnabled(q, b) ==
  /\ Serving /\ enabled[q] # b
  /\ enabled' = [enabled EXCEPT ![q] = b]
  /\ b \/ pauses < MaxPauses
  /\ pauses' = IF b THEN pauses ELSE pauses + 1
  /\ UNCHANGED <<dev, stopfd, queue, queue_evt, ready, kick, eof, unsig, missed,
                 guestVars, workerVars>>

\* SET_VRING_KICK of a stopped ring.  The new eventfd may have been written already.
StartRing(q) ==
  /\ Serving /\ ~ ready[q]
  /\ ready' = [ready EXCEPT ![q] = TRUE]
  /\ \E b \in BOOLEAN : kick' = [kick EXCEPT ![q] = b]
  /\ UNCHANGED <<pauses, dev, stopfd, queue, queue_evt, enabled, eof, unsig, missed,
                 guestVars, workerVars>>

\* GET_VRING_BASE: Vring::stop waits for the queue mutex, or unwraps the error of a
\* poisoned one; set_kick(None) drops the kick, and what was not read of it.
GetVringBase(q) ==
  /\ Serving /\ ready[q] /\ pauses < MaxPauses
  /\ wpc \notin Pc(q, {"rxpop"}, {"txpop", "txpush"})
  /\ \/ /\ q = "tx" /\ wpc = "panicked" /\ dev' = "panicked"
        /\ UNCHANGED <<ringVars, missed>>
     \/ /\ ~ (q = "tx" /\ wpc = "panicked") /\ UNCHANGED <<dev, enabled>>
        /\ ready' = [ready EXCEPT ![q] = FALSE] /\ kick' = [kick EXCEPT ![q] = FALSE]
        /\ pauses' = pauses + 1
        /\ missed' = IF kick[q] THEN missed \cup {q} ELSE missed
  /\ UNCHANGED <<stopfd, queue, queue_evt, eof, unsig, guestVars, workerVars>>

\* A driver uses its queues from DRIVER_OK on, while the front-end has them started,
\* until the device is stopped.
Guest ==
  /\ dev = "active"
  /\ GuestGives \/ (\E c \in Command : GuestSends(c))
Handler ==
  \/ Activate \/ Stop \/ Joined \/ (\E q \in Queues, b \in BOOLEAN : SetEnabled(q, b))
  \/ (\E q \in Queues : StartRing(q) \/ GetVringBase(q))

Next == Worker \/ (\E p \in Inputs : PortEof(p)) \/ Guest \/ Handler

Spec == Init /\ [][Next]_vars

\* The worker thread is scheduled, and a join that can return does.
FairSpec == Spec /\ WF_vars(Worker) /\ WF_vars(Joined)

-----------------------------------------------------------------------------
(* Properties. *)

Told(m, n) == Cardinality({i \in 1 .. n : taken[i] = m})

\* That a port is a console stands in an earlier buffer than that it is open, and its
\* size and name in later ones: push order, queue order and the order of the buffers
\* agree, however the ports' pushes, the guest's buffers and the stops of the ring
\* interleave.
HandshakeInOrder ==
  \A n \in 1 .. Len(taken), p \in Ports :
    /\ p \in Consoles => Told(mark_console_port(p), n) >= Told(port_open(p, 1), n)
    /\ Told(port_open(p, 1), n) >= Told(console_resize(p), n)
    /\ Told(port_open(p, 1), n) >= Told(port_name(p), n)

\* A buffer leaves the ring only together with a message: process_rx pops it before
\* it knows of one and has to put it back.  A write that fails loses a pair of them,
\* and never a buffer alone, which the driver would wait for in vain.
BuffersAccounted == given = rxAvail + Len(taken)

\* When the worker goes back to epoll the guest has been interrupted for every
\* buffer used so far (raise_irq).
UsedIsSignalled == wpc \in {"wait", "batch"} => unsig = {}

\* activate never panics, every port finds its two queues in the map, and stop
\* does only because the worker has (a PORT_READY of a port that does not exist).
PanicsOnlyWithWorker == dev = "panicked" => wpc = "panicked"

\* No wake-up is lost: a message for which there is a buffer, or a command, has a
\* counter that is still to be read, or the worker is on its way to look at that
\* queue.  process_rx reads both counters before it looks, so whatever is pushed,
\* kicked or disabled while it runs has to leave one behind for the next round.
\* The exceptions are the queues of missed and a worker that panicked.
WakeupKept ==
  /\ queue # <<>> /\ rxAvail > 0 =>
       queue_evt \/ kick["rx"] \/ wpc \in {"rxlock", "rxpop"} \/ "rx" \in missed
  /\ txAvail # <<>> =>
       kick["tx"] \/ wpc \in {"txlock", "txpop", "txpush", "panicked"} \/ "tx" \in missed

\* A queued message gets a buffer once the guest has given one: no wake-up through
\* queue_evt is lost between the ports' pushes, the guest's kicks and the read of
\* the counter.  The exception is a queue that is disabled or stopped when
\* try_lock_queue comes to it, or that was stopped with an unread kick: starting or
\* enabling it again does not bring the wake-up back.
MessagesDelivered ==
  (queue # <<>> /\ rxAvail > 0 /\ enabled["rx"] /\ ready["rx"])
    ~> (queue = <<>> \/ rxAvail = 0 \/ ~ enabled["rx"] \/ ~ ready["rx"]
        \/ "rx" \in missed \/ stopfd \/ wpc = "panicked")

\* A command is obeyed, unless its kick was read while the queue was disabled or
\* stopped, or was dropped with the stopped ring: nothing brings it back.
CommandsObeyed ==
  (txAvail # <<>> /\ dev = "active")
    ~> (txAvail = <<>> \/ "tx" \in missed \/ stopfd \/ wpc = "panicked")

\* Console::stop "Stop device's worker threads" (VirtioDevice::stop): the join
\* comes back.
StopReturns == dev = "joining" ~> dev # "joining"
=============================================================================
