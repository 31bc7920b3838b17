---------------------------- MODULE ConsolePort ----------------------------
(***************************************************************************)
(* The thread of a console port: process_rx of an InputPipe, which reads   *)
(* the host's input into the guest's buffers, or process_tx of an          *)
(* OutputPipe, which writes the guest's chains to the host's output.       *)
(* (A Console port runs both, on queues of their own.)                     *)
(*                                                                         *)
(* The thread waits for one event at a time: the kick of its queue, its    *)
(* file (edge-triggered), or stopfd.  A chain is one descriptor, as the    *)
(* guest's driver makes them; its bytes follow those of the chain before   *)
(* it, and it is known by where they end.  Bytes are counted.  The thread  *)
(* holds the queue at pop, io, block and use, and for ever if it panics    *)
(* there: the mutex is poisoned.  A ring that is stopped stays so.         *)
(***************************************************************************)
EXTENDS Naturals, Sequences

CONSTANTS
  Kinds,        \* the PortDescriptions: "InputPipe", "OutputPipe"
  ChainLens,    \* lengths of the guest's chains
  PipeRoom,     \* bytes the host's output takes before it would block
  MaxBytes,     \* bound: bytes the host writes to the input
  MaxChains,    \* bound: chains the guest publishes
  MaxDisables,  \* bound: times the front-end disables the queue
  MaxErrors     \* bound: writes that fail while the output is open

ASSUME ConstantsAssumption ==
  /\ Kinds \subseteq {"InputPipe", "OutputPipe"}
  /\ ChainLens \subseteq Nat \ {0}
  /\ PipeRoom \in Nat \ {0}
  /\ MaxBytes \in Nat /\ MaxChains \in Nat
  /\ MaxDisables \in Nat /\ MaxErrors \in Nat

VARIABLES
  kind,
  put,          \* bytes put in: by the host, or by the guest in its chains
  file,         \* input: bytes to read; output: room for bytes
  hup,          \* the other end of the file is closed
  edge,         \* the file has an event for epoll
  failed,       \* a read or a write failed
  errors,       \* how many writes, of the open output
  ring,         \* ends of the chains in the avail ring, from next_avail on
  start,        \* the end of the last chain that was used
  given,        \* bytes of all the chains the guest has published
  kick, enabled, ready,
  call,         \* the front-end's eventfd for interrupts is there
  pc,
  cur,          \* bytes moved for the chain at the head of the ring
  done,         \* input: bytes in used chains; output: bytes in the output
  eof,          \* process_rx
  signal,       \* signal_used_queue
  unsig,        \* the guest was not interrupted for a used chain
  told,         \* port_open(id, false) was pushed
  missed,       \* an event was consumed while the queue was disabled
  stopfd,
  hreq,         \* GET_VRING_BASE: "waiting" for the queue, "stopped", "done"
  chains, disables

fileVars == <<put, file, hup, edge, failed, errors>>
chainVars == <<ring, start, given, chains>>
queueVars == <<chainVars, kick, enabled, ready, call, disables, hreq, stopfd>>
threadVars == <<pc, cur, done, eof, signal, unsig, told, missed>>
vars == <<kind, fileVars, queueVars, threadVars>>

IsInput == kind = "InputPipe"
PortPc == {"top", "wait", "lock", "pop", "io", "block", "use", "ended", "panicked"}
Holding == {"pop", "io", "block", "use"}
MinOf(a, b) == IF a <= b THEN a ELSE b
HeadLen == Head(ring) - start

Init ==
  /\ kind \in Kinds
  /\ put = 0 /\ hup = FALSE /\ failed = FALSE /\ errors = 0
  /\ file = (IF IsInput THEN 0 ELSE PipeRoom) /\ edge = ~ IsInput
  /\ ring = <<>> /\ start = 0 /\ given = 0 /\ kick = FALSE /\ enabled = TRUE /\ ready = TRUE
  /\ call = TRUE
  /\ chains = 0 /\ disables = 0 /\ hreq = "none" /\ stopfd = FALSE
  /\ pc = "top" /\ cur = 0 /\ done = 0 /\ eof = FALSE
  /\ signal = FALSE /\ unsig = FALSE /\ told = FALSE /\ missed = FALSE

-----------------------------------------------------------------------------
(* The thread. *)

Goto(l) == pc' = l

\* signal_used_queue interrupts nobody if there is no call.
Signalled == IF signal /\ call THEN FALSE ELSE unsig

\* The top of the event loop, with the queue unlocked.
SignalUsed ==
  /\ pc = "top" /\ Goto("wait")
  /\ signal' = FALSE /\ unsig' = Signalled
  /\ UNCHANGED <<kind, fileVars, queueVars, cur, done, eof, told, missed>>

M_Wake(e) ==    \* the IO token is not handled
  /\ pc = "wait"
  /\ \/ e = "ProcessQueue" /\ kick /\ UNCHANGED edge
     \/ e = "IO" /\ edge /\ edge' = FALSE
  /\ kick' = FALSE
  /\ Goto(IF enabled /\ e = "ProcessQueue" THEN "lock" ELSE "top")
  /\ missed' = (missed \/ ~ enabled)
  /\ UNCHANGED <<kind, put, file, hup, failed, errors, chainVars, enabled, ready, call,
                 disables, hreq, stopfd, cur, done, eof, signal, unsig, told>>

\* wait_one returns ProcessQueue or IO: read_kick.  The edge is gone whether
\* or not the queue is enabled.
Wake(e) ==
  /\ pc = "wait"
  /\ \/ e = "ProcessQueue" /\ kick /\ UNCHANGED edge
     \/ e = "IO" /\ edge /\ edge' = FALSE
  /\ kick' = FALSE
  /\ Goto(IF enabled THEN "lock" ELSE "top")
  /\ missed' = (missed \/ ~ enabled)
  /\ UNCHANGED <<kind, put, file, hup, failed, errors, chainVars, enabled, ready, call,
                 disables, hreq, stopfd, cur, done, eof, signal, unsig, told>>

M_WakeToStop ==    \* a break out of the wrong loop
  /\ pc = "wait" /\ stopfd
  /\ Goto("top")
  /\ UNCHANGED <<kind, fileVars, queueVars, cur, done, eof, signal, unsig, told,
                 missed>>

WakeToStop ==
  /\ pc = "wait" /\ stopfd
  /\ Goto("ended")
  /\ UNCHANGED <<kind, fileVars, queueVars, cur, done, eof, signal, unsig, told,
                 missed>>

\* try_lock_queue.
TryLock ==
  /\ pc = "lock"
  /\ Goto(IF enabled /\ ready THEN "pop" ELSE "top")
  /\ missed' = (missed \/ ~ (enabled /\ ready))
  /\ UNCHANGED <<kind, fileVars, queueVars, cur, done, eof, signal, unsig, told>>

\* When there is no chain left process_rx signals with the queue still locked, and
\* once more at the top.
Pop ==
  /\ pc = "pop" /\ cur' = 0
  /\ Goto(IF ring = <<>> THEN "top" ELSE "io")
  /\ unsig' = IF IsInput /\ ring = <<>> THEN Signalled ELSE unsig
  /\ UNCHANGED <<kind, fileVars, queueVars, done, eof, signal, told, missed>>

\* read_to_desc, one read_volatile: some bytes; none yet, or the end of the file; the
\* end of the memory that the descriptor is in; an error, and with it go the bytes
\* read into the descriptor before.
Read ==
  /\ pc = "io" /\ IsInput
  /\ LET n == MinOf(HeadLen - cur, file) IN
       \/ /\ n > 0 /\ cur' = cur + n /\ file' = file - n
          /\ Goto(IF cur' = HeadLen THEN "use" ELSE "io")
          /\ UNCHANGED <<eof, failed>>
       \/ /\ file = 0 /\ eof' = (eof \/ hup) /\ Goto("use")
          /\ UNCHANGED <<cur, file, failed>>
       \/ cur > 0 /\ Goto("use") /\ UNCHANGED <<cur, file, eof, failed>>
       \/ failed' = TRUE /\ cur' = 0 /\ Goto("use") /\ UNCHANGED <<eof, file>>
  /\ UNCHANGED <<kind, put, hup, edge, errors, queueVars, done, signal, unsig, told,
                 missed>>

\* Some bytes were written; no room.
Wrote(n) ==
  /\ ~ hup /\ n > 0 /\ cur' = cur + n /\ file' = file - n /\ done' = done + n
  /\ Goto(IF cur' = HeadLen THEN "use" ELSE "io") /\ UNCHANGED <<failed, errors>>
WouldBlock ==
  ~ hup /\ file = 0 /\ Goto("block") /\ UNCHANGED <<file, done, failed, errors>>

\* An error, of which EPIPE is one: the chain goes back, and what was written of it
\* will be written again.
WriteFails ==
  /\ hup \/ errors < MaxErrors
  /\ errors' = IF hup THEN errors ELSE errors + 1
  /\ failed' = TRUE /\ cur' = 0 /\ Goto("use") /\ UNCHANGED <<file, done>>

\* assert_eq!(n, desc_len): the descriptor ends outside the memory, or write
\* answered 0.
WriteShort ==
  /\ cur > 0 /\ cur < HeadLen /\ cur' = 0
  /\ Goto("panicked") /\ UNCHANGED <<file, done, failed, errors>>

M_RestartWrite ==    \* a blocked chain is written from its start
  /\ pc = "io" /\ ~ IsInput
  /\ \/ Wrote(MinOf(HeadLen - cur, file)) \/ WriteFails \/ WriteShort
     \/ WouldBlock /\ cur' = 0
  /\ UNCHANGED <<kind, put, hup, edge, queueVars, eof, signal, unsig, told, missed>>

\* write_desc_to_output, one write_volatile.
Write ==
  /\ pc = "io" /\ ~ IsInput
  /\ \/ Wrote(MinOf(HeadLen - cur, file)) \/ WriteFails \/ WriteShort
     \/ WouldBlock /\ UNCHANGED cur
  /\ UNCHANGED <<kind, put, hup, edge, queueVars, eof, signal, unsig, told, missed>>

M_Writable ==    \* POLLERR does not end the poll
  /\ pc = "block" /\ file > 0
  /\ Goto("io")
  /\ UNCHANGED <<kind, fileVars, queueVars, cur, done, eof, signal, unsig, told,
                 missed>>

\* wait_until_writable polls for ever, with the queue locked.
Writable ==
  /\ pc = "block" /\ (file > 0 \/ hup)
  /\ Goto("io")
  /\ UNCHANGED <<kind, fileVars, queueVars, cur, done, eof, signal, unsig, told,
                 missed>>

M_PutBack ==    \* forgets the chains used before
  /\ pc = "use" /\ cur = 0
  /\ Goto("top") /\ signal' = FALSE
  /\ UNCHANGED <<kind, fileVars, queueVars, cur, done, eof, unsig, told, missed>>

\* A chain nothing was moved for goes back to the ring.
PutBack ==
  /\ pc = "use" /\ cur = 0
  /\ Goto("top")
  /\ UNCHANGED <<kind, fileVars, queueVars, cur, done, eof, signal, unsig, told,
                 missed>>

\* add_used.  At the end of the input the guest is told that the port closed and
\* the thread ends, without a signal for this chain.
Use ==
  /\ pc = "use" /\ cur > 0
  /\ ring' = Tail(ring) /\ start' = Head(ring)
  /\ done' = IF IsInput THEN done + cur ELSE done
  /\ signal' = TRUE /\ unsig' = TRUE /\ cur' = 0
  /\ told' = (told \/ eof)
  /\ Goto(IF eof THEN "ended" ELSE "pop")
  /\ UNCHANGED <<kind, fileVars, given, kick, enabled, ready, call, chains, disables, hreq,
                 stopfd, eof, missed>>

Thread ==
  \/ SignalUsed \/ (\E e \in {"ProcessQueue", "IO"} : Wake(e)) \/ WakeToStop
  \/ TryLock \/ Pop \/ Read \/ Write \/ Writable \/ PutBack \/ Use

-----------------------------------------------------------------------------
(* The host, the guest, the front-end. *)

HostWrites ==
  /\ IsInput /\ ~ hup /\ put < MaxBytes
  /\ put' = put + 1 /\ file' = file + 1 /\ edge' = TRUE
  /\ UNCHANGED <<kind, hup, failed, errors, queueVars, threadVars>>

\* The reader of the output makes room for a byte.
HostReads ==
  /\ ~ IsInput /\ ~ hup /\ file < PipeRoom
  /\ file' = file + 1 /\ edge' = TRUE
  /\ UNCHANGED <<kind, put, hup, failed, errors, queueVars, threadVars>>

HostCloses ==
  /\ ~ hup /\ hup' = TRUE /\ edge' = TRUE
  /\ UNCHANGED <<kind, put, file, failed, errors, queueVars, threadVars>>

GuestPublishes(n) ==
  /\ chains < MaxChains
  /\ chains' = chains + 1 /\ given' = given + n /\ ring' = Append(ring, given')
  /\ kick' = (hreq # "done") /\ put' = IF IsInput THEN put ELSE given'
  /\ UNCHANGED <<kind, file, hup, edge, failed, errors, start, enabled, ready, call,
                 disables, hreq, stopfd, threadVars>>

SetEnabled(b) ==
  /\ enabled # b /\ hreq \in {"none", "done"}
  /\ b \/ disables < MaxDisables
  /\ enabled' = b /\ disables' = IF b THEN disables ELSE disables + 1
  /\ UNCHANGED <<kind, fileVars, chainVars, kick, ready, call, hreq, stopfd, threadVars>>

GetVringBase ==
  /\ hreq = "none" /\ hreq' = "waiting"
  /\ UNCHANGED <<kind, fileVars, chainVars, kick, enabled, ready, call, disables, stopfd,
                 threadVars>>

\* Vring::stop has the queue mutex, or unwraps the error of a poisoned one.
RingStopped ==
  /\ hreq = "waiting" /\ pc \notin Holding
  /\ \/ pc # "panicked" /\ hreq' = "stopped" /\ ready' = FALSE
     \/ pc = "panicked" /\ hreq' = "panicked" /\ UNCHANGED ready
  /\ UNCHANGED <<kind, fileVars, chainVars, kick, enabled, call, disables, stopfd,
                 threadVars>>

\* set_kick(None), which takes the kick out of the thread's epoll, and set_call(None).
RingReset ==
  /\ hreq = "stopped" /\ hreq' = "done" /\ kick' = FALSE /\ call' = FALSE
  /\ UNCHANGED <<kind, fileVars, chainVars, enabled, ready, disables, stopfd, threadVars>>

\* Console::stop; Port::shutdown is never called on a running port.
Stop ==
  /\ ~ stopfd /\ stopfd' = TRUE
  /\ UNCHANGED <<kind, fileVars, chainVars, kick, enabled, ready, call, disables, hreq,
                 threadVars>>

Next ==
  \/ Thread \/ HostWrites \/ HostReads \/ HostCloses
  \/ (\E n \in ChainLens : GuestPublishes(n))
  \/ (\E b \in BOOLEAN : SetEnabled(b)) \/ GetVringBase \/ RingStopped \/ RingReset \/ Stop

Spec == Init /\ [][Next]_vars

\* The thread runs, the handler gets a mutex that is free, epoll does not pass
\* over stopfd for ever, and the output is read.
FairSpec ==
  Spec /\ WF_vars(Thread) /\ WF_vars(WakeToStop) /\ WF_vars(RingStopped \/ RingReset)
       /\ WF_vars(HostReads)

-----------------------------------------------------------------------------
(* Properties. *)

TypeOK ==
  /\ kind \in Kinds
  /\ put \in Nat /\ file \in Nat /\ hup \in BOOLEAN /\ edge \in BOOLEAN
  /\ failed \in BOOLEAN /\ errors \in Nat
  /\ ring \in Seq(Nat) /\ start \in Nat /\ given \in Nat
  /\ kick \in BOOLEAN /\ enabled \in BOOLEAN
  /\ ready \in BOOLEAN /\ call \in BOOLEAN /\ chains \in Nat /\ disables \in Nat
  /\ hreq \in {"none", "waiting", "stopped", "done", "panicked"} /\ stopfd \in BOOLEAN
  /\ pc \in PortPc /\ cur \in Nat /\ done \in Nat
  /\ eof \in BOOLEAN /\ signal \in BOOLEAN /\ unsig \in BOOLEAN /\ told \in BOOLEAN
  /\ missed \in BOOLEAN

\* The port is a pipe: chains put back, partial reads and writes, blocked
\* outputs and queues that stop move every byte once and in order, and the guest
\* hears of the end of the input with the last bytes.  After a read that failed bytes
\* may be missing; after a write that failed bytes may come twice.
P == INSTANCE Pipe WITH sent <- put, got <- done, closed <- told,
                        lossy <- failed, rewound <- failed /\ ~ IsInput
ImplementsPipe == P!PipeSpec

\* The thread waits only when the guest was interrupted for every used chain.  The
\* exceptions: the chain used at the end of the input, and a signal that comes after
\* GET_VRING_BASE took the call away (set_call(None), with the queue unlocked).
UsedIsSignalled ==
  pc \in {"wait", "lock"} \/ (pc = "ended" /\ ~ told) => ~ unsig \/ ~ call

\* Bytes keep moving.  Input that the guest has buffers for is read: the
\* edge-triggered event and the kick are enough although the thread stops reading
\* when it has no chain.  A published chain is written, although the output blocks.
\* The exceptions: an event that came while the queue was disabled, a stopped
\* ring, an I/O error, the end of the thread.
BytesMoved ==
  (ring # <<>> /\ (IsInput => file > 0))
    ~> \/ ring = <<>> \/ (IsInput /\ file = 0)
       \/ missed \/ ~ enabled \/ ~ ready \/ pc \in {"ended", "panicked"} \/ failed

\* The safety half of BytesMoved: while there are bytes to move, an event is still
\* to come, or the thread is on its way.  The file is edge-triggered, so an event
\* that is consumed is not repeated; the thread may only give up at a file that
\* has nothing for it, or that has had a new event since it looked.
EventKept ==
  ring # <<>> /\ (IsInput => file > 0) =>
    \/ kick \/ edge \/ missed \/ ~ ready \/ failed
    \/ pc \in Holding \cup {"lock", "ended", "panicked"}

\* What EventKept needs to be kept: a chain nothing was moved for.
GivesUp ==
  pc = "use" /\ cur = 0 => failed \/ (IsInput /\ (file = 0 \/ edge))

\* GET_VRING_BASE comes back although the tx thread waits for its output with
\* the queue locked: somebody reads the output.  If the thread panicked with the
\* queue locked the connection thread panics in its turn.
RingStops == hreq = "waiting" ~> hreq \in {"done", "panicked"}

\* stopfd ends the thread, from wherever it is.
ThreadEnds == stopfd ~> pc \in {"ended", "panicked"}
=============================================================================
