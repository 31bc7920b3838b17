------------------------------- MODULE Vring -------------------------------
(***************************************************************************)
(* The life cycle of the vrings of a vhost-user device: vhost-user's       *)
(* Vring (vring.rs) driven by the front-end's requests (handler.rs) and    *)
(* used at the same time by the device's worker threads.                   *)
(*                                                                         *)
(* The handler is one thread that serves one request at a time; hpc says   *)
(* where in a request it is.  A worker owns an epoll instance, registers   *)
(* the kick of every ring it serves in it (VhostKickEvent::register_self), *)
(* and then loops: wait, read_kick, try_lock_queue, pop chains, signal.    *)
(* A completer returns chains popped earlier: the fence handler of the     *)
(* gpu.  It has the fence_state mutex from its call to its return and      *)
(* takes the queue under it; a worker takes fence_state with the queue     *)
(* locked (process_fence).  Rutabaga calls it on a thread of its own, or   *)
(* on the worker from event_poll.  A worker ends when it cannot process a  *)
(* chain: with an error, or with a panic that poisons the queue mutex.     *)
(* A step is what happens between two points where another thread can      *)
(* observe the ring: one atomic load or store, one epoll_ctl loop under    *)
(* the epolls mutex, or one critical section of the queue mutex.           *)
(***************************************************************************)
EXTENDS Naturals, FiniteSets

CONSTANTS
  Rings,        \* the vrings of the device
  Workers,      \* device threads with an epoll of their own
  Completers,   \* device threads that complete chains out of order
  Serves,       \* Serves[w]: the rings whose kick worker w waits for
  Fds,          \* the kick eventfds the front-end passes
  NoFd,         \* ArcSwapOption holding None
  Free,         \* the queue mutex is not held
  Poisoned,     \* a thread panicked with the queue mutex held
  NoBase,       \* GET_VRING_BASE was not answered since the ring last moved
  Sync,         \* device.activate returns after the workers registered (gpu)
  Polled,       \* the fence handler is called on the worker, from event_poll
  EventIdx,     \* VIRTIO_RING_F_EVENT_IDX is negotiated
  Ports,        \* workers that are console ports: their I/O wakes them up too,
                \* and they signal after releasing the queue
  MaxAvail      \* bound: chains the driver publishes per ring

Threads == Workers \cup Completers

ASSUME ConstantsAssumption ==
  /\ Rings # {}
  /\ Serves \in [Workers -> SUBSET Rings]
  /\ Workers \cap Completers = {}
  /\ Free \notin Threads
  /\ Poisoned \notin Threads \cup {Free}
  /\ NoFd \notin Fds
  /\ NoBase \notin Nat
  /\ Sync \in BOOLEAN /\ Polled \in BOOLEAN /\ EventIdx \in BOOLEAN
  /\ Ports \subseteq Workers
  /\ MaxAvail \in Nat

VARIABLES
  enabled,      \* VringState::enabled
  kick,         \* VringState::kick
  call,         \* VringState::call: is there an eventfd to signal
  epolls,       \* VringState::epolls: the workers to update on a kick change
  ready,        \* Queue::ready, guarded by the queue mutex
  next_avail,   \* Queue::next_avail, guarded by the queue mutex
  lock,         \* holder of the queue mutex
  avail,        \* chains the driver published (avail ring index)
  pending,      \* eventfd counter of a kick is not zero
  reg,          \* reg[r]: pairs <<w, f>>, f is in w's epoll with r's token
  unsig,        \* used chains the driver was not told about
  base,         \* last answer to GET_VRING_BASE
  hpc,          \* where the handler thread is
  hring,        \* the ring of the request it serves
  hreq,         \* the request
  hold,         \* set_kick: old_kick_efd
  activated,    \* VhostUserHandler::device_activated
  memory_updated,
  wpc,          \* where each device thread is
  wring,        \* the ring it works on
  wfd,          \* register_self, read_kick: the kick it loaded and keeps alive
  todo,         \* rings to register, or events of the batch left to handle
  irq           \* the thread used a chain and owes a signal

ringVars   == <<enabled, kick, call, epolls, ready, next_avail, lock>>
envVars    == <<avail, pending, reg, unsig, base>>
handlerVars == <<hpc, hring, hreq, hold, activated, memory_updated>>
threadVars == <<wpc, wring, wfd, todo, irq>>
vars == <<ringVars, envVars, handlerVars, threadVars>>

RegPc  == {"load", "ctl", "add"}
SessionPc == {"process", "fence", "broken", "signal"}
LockPc == {"check"} \cup SessionPc
EndedPc == {"dying", "dead"}
WorkerPc == {"unborn", "wait", "scan", "read", "enabled", "try", "lock", "late"}
              \cup RegPc \cup LockPc \cup EndedPc
HandlerPc == {"idle", "swapped", "rebind", "init", "start", "watch", "activate",
              "activating", "stop", "halt", "base", "drop", "uncall",
              "panicked", "ebadf", "poisoned"}

AnyRing == CHOOSE r \in Rings : TRUE

Init ==
  /\ enabled = [r \in Rings |-> FALSE]
  /\ kick = [r \in Rings |-> NoFd]
  /\ call = [r \in Rings |-> FALSE]
  /\ epolls = [r \in Rings |-> {}]
  /\ ready = [r \in Rings |-> FALSE]
  /\ next_avail = [r \in Rings |-> 0]
  /\ lock = [r \in Rings |-> Free]
  /\ avail = [r \in Rings |-> 0]
  /\ pending = [f \in Fds |-> FALSE]
  /\ reg = [r \in Rings |-> {}]
  /\ unsig = [r \in Rings |-> FALSE]
  /\ base = [r \in Rings |-> NoBase]
  /\ hpc = "idle" /\ hring = AnyRing /\ hreq = "none" /\ hold = NoFd
  /\ activated = FALSE /\ memory_updated = FALSE
  /\ wpc = [t \in Threads |-> IF t \in Workers THEN "unborn" ELSE "wait"]
  /\ wring = [t \in Threads |-> AnyRing]
  /\ wfd = [t \in Threads |-> NoFd]
  /\ todo = [t \in Threads |-> {}]
  /\ irq = [t \in Threads |-> FALSE]

-----------------------------------------------------------------------------
(* The handler thread. *)

\* The request goes on at pc, or it is answered and its locals are gone.
Goto(pc) == hpc' = pc /\ UNCHANGED <<hring, hreq, hold>>
Reply == hpc' = "idle" /\ hring' = AnyRing /\ hreq' = "none" /\ hold' = NoFd
ReplyIf(done, pc) == (done /\ Reply) \/ (~ done /\ Goto(pc))

\* The pairs register_kick / unregister_kick work on, for the epolls ws.
Watch(ws, f) == IF f = NoFd THEN {} ELSE ws \X {f}

\* EPOLL_CTL_DEL of an fd that is not there is ENOENT, EPOLL_CTL_ADD of one
\* that is there is EEXIST.
CtlFails(r, w, old, new) ==
  \/ ~ (Watch({w}, old) \subseteq reg[r])
  \/ Watch({w}, new) \cap reg[r] # {}

\* update_epolls, every epoll_ctl succeeds.
UpdateEpolls(r, old, new) ==
  /\ \A w \in epolls[r] : ~ CtlFails(r, w, old, new)
  /\ reg' = [reg EXCEPT ![r] = (@ \ Watch(epolls[r], old)) \cup Watch(epolls[r], new)]

\* update_epolls stops at the first epoll_ctl that fails, with some epolls
\* updated before it; every caller unwraps the error.
UpdatePanics(r, old, new) ==
  /\ \E w \in epolls[r] :
       /\ CtlFails(r, w, old, new)
       /\ \E done \in SUBSET {v \in epolls[r] : ~ CtlFails(r, v, old, new)} :
            reg' = [reg EXCEPT ![r] =
                      (@ \ Watch(done \cup {w}, old)) \cup Watch(done, new)]
  /\ Goto("panicked")

\* An eventfd the front-end has just created: nobody knows it yet.
Fresh(f) ==
  /\ \A r \in Rings : kick[r] # f /\ \A w \in Workers : <<w, f>> \notin reg[r]
  /\ \A t \in Threads : wfd[t] # f

\* set_vring_kick -> Vring::set_kick: the swap.
SetVringKick(r, f) ==
  /\ hpc = "idle"
  /\ f = NoFd \/ Fresh(f)
  /\ hold' = kick[r]
  /\ kick' = [kick EXCEPT ![r] = f]
  /\ pending' = [g \in Fds |-> pending[g] /\ g # f]
  /\ hpc' = "swapped" /\ hring' = r /\ hreq' = "kick"
  /\ UNCHANGED <<enabled, call, epolls, ready, next_avail, lock, avail, reg,
                 unsig, base, activated, memory_updated, threadVars>>

\* Where set_kick returns to.
AfterSetKick == IF hreq = "base" THEN "uncall" ELSE "init"

M_IsStartedAlways ==
  /\ hpc = "swapped"
  /\ lock[hring] = Free
  /\ Goto("rebind")
  /\ UNCHANGED <<ringVars, envVars, activated, memory_updated, threadVars>>

M_IsStartedNever ==
  /\ hpc = "swapped"
  /\ lock[hring] = Free
  /\ Goto(AfterSetKick)
  /\ UNCHANGED <<ringVars, envVars, activated, memory_updated, threadVars>>

\* set_kick: is_started takes the queue mutex, and waits for it.
IsStarted ==
  /\ hpc = "swapped"
  /\ lock[hring] = Free
  /\ Goto(IF ready[hring] THEN "rebind" ELSE AfterSetKick)
  /\ UNCHANGED <<ringVars, envVars, activated, memory_updated, threadVars>>

\* queue_mut: lock().unwrap() of a poisoned mutex panics.
QueueMut ==
  /\ hpc \in {"swapped", "init", "start", "halt", "base"}
  /\ lock[hring] = Poisoned
  /\ Goto("poisoned")
  /\ UNCHANGED <<ringVars, envVars, activated, memory_updated, threadVars>>

\* set_kick: old_kick_efd.map(|fd| fd.as_raw_fd()) consumes the Arc that the
\* swap returned.  It is the last one, and the eventfd is closed here, unless a
\* thread still holds the kick it loaded.
Closed(f) == f # NoFd /\ \A t \in Threads : wfd[t] # f

\* set_kick: update_epolls(old_kick_efd, new_kick_efd).  EPOLL_CTL_DEL of a
\* closed descriptor is EBADF.
Rebind ==
  /\ hpc = "rebind"
  /\ \/ /\ epolls[hring] = {} \/ ~ Closed(hold)
        /\ UpdateEpolls(hring, hold, kick[hring])
        /\ Goto(AfterSetKick)
     \/ ~ Closed(hold) /\ UpdatePanics(hring, hold, kick[hring])
     \/ epolls[hring] # {} /\ Closed(hold) /\ Goto("ebadf") /\ UNCHANGED reg
  /\ UNCHANGED <<ringVars, avail, pending, unsig, base, activated,
                 memory_updated, threadVars>>

\* initialize_vring: a stopped ring that has a kick is started.
InitializeVring ==
  /\ hpc = "init"
  /\ lock[hring] = Free
  /\ ReplyIf(ready[hring] \/ kick[hring] = NoFd, "start")
  /\ UNCHANGED <<ringVars, envVars, activated, memory_updated, threadVars>>

\* Vring::start: set_ready(true) under the queue mutex.
Start ==
  /\ hpc = "start"
  /\ lock[hring] = Free
  /\ ready' = [ready EXCEPT ![hring] = TRUE]
  /\ base' = [base EXCEPT ![hring] = NoBase]
  /\ Goto("watch")
  /\ UNCHANGED <<enabled, kick, call, epolls, next_avail, lock, avail, pending,
                 reg, unsig, activated, memory_updated, threadVars>>

\* Vring::start: update_epolls(None, kick).
WatchKick ==
  /\ hpc = "watch"
  /\ \/ UpdateEpolls(hring, NoFd, kick[hring]) /\ Goto("activate")
     \/ UpdatePanics(hring, NoFd, kick[hring])
  /\ UNCHANGED <<ringVars, avail, pending, unsig, base, activated,
                 memory_updated, threadVars>>

\* initialize_vring: device.activate spawns the workers, once.  The gpu waits
\* on a channel until its worker registered (Sync); the console does not.
Activate ==
  /\ hpc = "activate"
  /\ IF ~ activated /\ memory_updated
     THEN /\ activated' = TRUE
          /\ wpc' = [t \in Threads |-> IF t \in Workers THEN "load" ELSE wpc[t]]
          /\ todo' = [t \in Threads |-> IF t \in Workers THEN Serves[t] ELSE todo[t]]
          /\ ReplyIf(~ Sync, "activating")
     ELSE Reply /\ UNCHANGED <<activated, wpc, todo>>
  /\ UNCHANGED <<ringVars, envVars, memory_updated, wring, wfd, irq>>

\* GpuDevice::activate: rx.recv() returns when GpuWorker::new did.
ActivateReturns ==
  /\ hpc = "activating"
  /\ \A w \in Workers : wpc[w] \notin RegPc
  /\ Reply
  /\ UNCHANGED <<ringVars, envVars, activated, memory_updated, threadVars>>

\* set_vring_call: set_call, then initialize_vring.  A front-end that takes
\* the call away polls the used ring from then on.
SetVringCall(r, c) ==
  /\ hpc = "idle"
  /\ call' = [call EXCEPT ![r] = c]
  /\ unsig' = [unsig EXCEPT ![r] = @ /\ c]
  /\ hpc' = "init" /\ hring' = r /\ hreq' = "call" /\ UNCHANGED hold
  /\ UNCHANGED <<enabled, kick, epolls, ready, next_avail, lock, avail, pending,
                 reg, base, activated, memory_updated, threadVars>>

\* set_vring_enable: one atomic store; the queue mutex is not taken.
SetVringEnable(r, e) ==
  /\ hpc = "idle"
  /\ enabled' = [enabled EXCEPT ![r] = e]
  /\ UNCHANGED <<kick, call, epolls, ready, next_avail, lock, envVars,
                 handlerVars, threadVars>>

\* set_mem_table.
SetMemTable ==
  /\ hpc = "idle"
  /\ memory_updated' = TRUE
  /\ UNCHANGED <<ringVars, envVars, hpc, hring, hreq, hold, activated, threadVars>>

\* set_vring_base: the queue mutex is taken, or found poisoned.
SetVringBase(r, b) ==
  /\ hpc = "idle"
  /\ \/ /\ lock[r] = Free
        /\ next_avail' = [next_avail EXCEPT ![r] = b]
        /\ base' = [base EXCEPT ![r] = NoBase]
        /\ Goto("idle")
     \/ lock[r] = Poisoned /\ Goto("poisoned") /\ UNCHANGED <<next_avail, base>>
  /\ UNCHANGED <<enabled, kick, call, epolls, ready, lock, avail, pending, reg,
                 unsig, activated, memory_updated, threadVars>>

M_DropCallFirst(r) ==
  /\ hpc = "idle"
  /\ hring' = r /\ hreq' = "base" /\ hpc' = "stop" /\ UNCHANGED hold
  /\ call' = [call EXCEPT ![r] = FALSE]
  /\ UNCHANGED <<enabled, kick, epolls, ready, next_avail, lock, envVars,
                 activated, memory_updated, threadVars>>

\* get_vring_base -> Vring::stop.
GetVringBase(r) ==
  /\ hpc = "idle"
  /\ hring' = r /\ hreq' = "base" /\ hpc' = "stop" /\ UNCHANGED hold
  /\ UNCHANGED <<ringVars, envVars, activated, memory_updated, threadVars>>

\* Vring::stop: update_epolls(kick, None) comes first.
Stop ==
  /\ hpc = "stop"
  /\ \/ UpdateEpolls(hring, kick[hring], NoFd) /\ Goto("halt")
     \/ UpdatePanics(hring, kick[hring], NoFd)
  /\ UNCHANGED <<ringVars, avail, pending, unsig, base, activated,
                 memory_updated, threadVars>>

M_HaltWithoutLock ==
  /\ hpc = "halt"
  /\ ready' = [ready EXCEPT ![hring] = FALSE]
  /\ Goto("base")
  /\ UNCHANGED <<enabled, kick, call, epolls, next_avail, lock, envVars,
                 activated, memory_updated, threadVars>>

\* Vring::stop: set_ready(false) under the queue mutex.
Halt ==
  /\ hpc = "halt"
  /\ lock[hring] = Free
  /\ ready' = [ready EXCEPT ![hring] = FALSE]
  /\ Goto("base")
  /\ UNCHANGED <<enabled, kick, call, epolls, next_avail, lock, envVars,
                 activated, memory_updated, threadVars>>

M_ReadBaseOffByOne ==
  /\ hpc = "base"
  /\ lock[hring] = Free
  /\ base' = [base EXCEPT ![hring] = next_avail[hring] - 1]
  /\ Goto("drop")
  /\ UNCHANGED <<ringVars, avail, pending, reg, unsig, activated,
                 memory_updated, threadVars>>

\* get_vring_base: next_avail() is the answer.
ReadBase ==
  /\ hpc = "base"
  /\ lock[hring] = Free
  /\ base' = [base EXCEPT ![hring] = next_avail[hring]]
  /\ Goto("drop")
  /\ UNCHANGED <<ringVars, avail, pending, reg, unsig, activated,
                 memory_updated, threadVars>>

\* get_vring_base: set_kick(None).
DropKick ==
  /\ hpc = "drop"
  /\ kick' = [kick EXCEPT ![hring] = NoFd]
  /\ hpc' = "swapped" /\ hold' = kick[hring] /\ UNCHANGED <<hring, hreq>>
  /\ UNCHANGED <<enabled, call, epolls, ready, next_avail, lock, envVars,
                 activated, memory_updated, threadVars>>

\* get_vring_base: set_call(None), and the reply.
DropCall ==
  /\ hpc = "uncall"
  /\ call' = [call EXCEPT ![hring] = FALSE]
  /\ Reply
  /\ UNCHANGED <<enabled, kick, epolls, ready, next_avail, lock, envVars,
                 activated, memory_updated, threadVars>>

-----------------------------------------------------------------------------
(* The device threads. *)

\* Thread t goes on at pc, or is done with its ring: a worker waits for the next
\* event, a fence handler looks at the next descriptor.
Step(t, pc) == wpc' = [wpc EXCEPT ![t] = pc] /\ UNCHANGED wring
Exit(t, pc) ==
  /\ wpc' = [wpc EXCEPT ![t] = pc]
  /\ wring' = [wring EXCEPT ![t] = AnyRing]
Return(t) == Exit(t, IF t \in Workers THEN "wait" ELSE "scan")
StepIf(cond, t, pc) == (cond /\ Step(t, pc)) \/ (~ cond /\ Return(t))

\* The fence_state mutex: a fence handler has it while it runs.  One that
\* panicked leaves it poisoned; nobody gets it any more.
FenceFree == \A c \in Completers : wpc[c] = "wait"

\* The worker is not inside a fence handler that it polled.
AtLarge == Polled => FenceFree

\* register_self: kick.load() of the next ring (GpuWorker::new, MainWorker::run).
RegisterLoad(w) ==
  /\ wpc[w] = "load"
  /\ IF todo[w] = {}
     THEN Return(w) /\ UNCHANGED <<todo, wfd>>
     ELSE \E r \in todo[w] :
            /\ todo' = [todo EXCEPT ![w] = @ \ {r}]
            /\ wring' = [wring EXCEPT ![w] = r]
            /\ wfd' = [wfd EXCEPT ![w] = kick[r]]
            /\ wpc' = [wpc EXCEPT ![w] = "ctl"]
  /\ UNCHANGED <<ringVars, envVars, handlerVars, irq>>

\* register_self: register_kick, whatever the ring's state.
RegisterCtl(w) ==
  /\ wpc[w] = "ctl"
  /\ reg' = [reg EXCEPT ![wring[w]] = @ \cup Watch({w}, wfd[w])]
  /\ wfd' = [wfd EXCEPT ![w] = NoFd]
  /\ Step(w, "add")
  /\ UNCHANGED <<ringVars, avail, pending, unsig, base, handlerVars, todo, irq>>

\* register_self: add_epoll, from now on the handler updates this epoll.
AddEpoll(w) ==
  /\ wpc[w] = "add"
  /\ epolls' = [epolls EXCEPT ![wring[w]] = @ \cup {w}]
  /\ Step(w, "load")
  /\ UNCHANGED <<enabled, kick, call, ready, next_avail, lock, envVars,
                 handlerVars, wfd, todo, irq>>

\* EventManager::wait: the kicks that are readable now, in one batch.  The
\* registration is level-triggered.
Readable(w) == {r \in Rings : \E f \in Fds : <<w, f>> \in reg[r] /\ pending[f]}

Wait(w) ==
  /\ wpc[w] = "wait" /\ todo[w] = {} /\ AtLarge
  /\ Readable(w) # {}
  /\ todo' = [todo EXCEPT ![w] = Readable(w)]
  /\ UNCHANGED <<ringVars, envVars, handlerVars, wpc, wring, wfd, irq>>

\* The next event of the batch; its ring may have changed since epoll_wait.
NextEvent(w) ==
  /\ wpc[w] = "wait" /\ AtLarge
  /\ \E r \in todo[w] :
       /\ todo' = [todo EXCEPT ![w] = @ \ {r}]
       /\ wring' = [wring EXCEPT ![w] = r]
  /\ wpc' = [wpc EXCEPT ![w] = "read"]
  /\ UNCHANGED <<ringVars, envVars, handlerVars, wfd, irq>>

\* The I/O of a port is ready: it looks at its queue without a kick.
IoReady(w, r) ==
  /\ wpc[w] = "wait" /\ todo[w] = {} /\ AtLarge
  /\ wring' = [wring EXCEPT ![w] = r]
  /\ wpc' = [wpc EXCEPT ![w] = "read"]
  /\ UNCHANGED <<ringVars, envVars, handlerVars, wfd, todo, irq>>

\* read_kick: the counter of the current kick is read, and so reset.
ReadKick(w) ==
  /\ wpc[w] = "read"
  /\ wfd' = [wfd EXCEPT ![w] = kick[wring[w]]]
  /\ pending' = [f \in Fds |-> pending[f] /\ f # kick[wring[w]]]
  /\ Step(w, "enabled")
  /\ UNCHANGED <<ringVars, avail, reg, unsig, base, handlerVars, todo, irq>>

\* read_kick: the is_enabled() it returns; the loaded kick is let go.
KickEnabled(w) ==
  /\ wpc[w] = "enabled"
  /\ StepIf(enabled[wring[w]], w, "try")
  /\ wfd' = [wfd EXCEPT ![w] = NoFd]
  /\ UNCHANGED <<ringVars, envVars, handlerVars, todo, irq>>

\* Rutabaga calls the fence handler: fence_state.lock().
FenceHandler(c) ==
  /\ activated
  /\ wpc[c] = "wait" /\ FenceFree
  /\ Polled => \A w \in Workers : wpc[w] = "wait"
  /\ Step(c, "scan")
  /\ UNCHANGED <<ringVars, envVars, handlerVars, wfd, todo, irq>>

\* A descriptor matches the completed fence: on to try_lock_queue.
Complete(c, r) ==
  /\ wpc[c] = "scan"
  /\ wring' = [wring EXCEPT ![c] = r]
  /\ wpc' = [wpc EXCEPT ![c] = "try"]
  /\ UNCHANGED <<ringVars, envVars, handlerVars, wfd, todo, irq>>

\* No descriptor is left: completed_fences is updated, fence_state released.
FenceReturns(c) ==
  /\ wpc[c] = "scan"
  /\ Step(c, "wait")
  /\ UNCHANGED <<ringVars, envVars, handlerVars, wfd, todo, irq>>

\* try_lock_queue: the first is_enabled().
TryLock(t) ==
  /\ wpc[t] = "try"
  /\ StepIf(enabled[wring[t]], t, "lock")
  /\ UNCHANGED <<ringVars, envVars, handlerVars, wfd, todo, irq>>

M_LockWouldBlock(t) ==
  /\ wpc[t] = "lock"
  /\ \/ /\ lock[wring[t]] = Free
        /\ lock' = [lock EXCEPT ![wring[t]] = t]
        /\ Step(t, "check")
     \/ lock[wring[t]] # Free /\ Return(t) /\ UNCHANGED lock
  /\ UNCHANGED <<enabled, kick, call, epolls, ready, next_avail, envVars,
                 handlerVars, wfd, todo, irq>>

\* try_lock_queue: queue.lock() blocks.
Lock(t) ==
  /\ wpc[t] = "lock"
  /\ lock[wring[t]] = Free
  /\ lock' = [lock EXCEPT ![wring[t]] = t]
  /\ Step(t, "check")
  /\ UNCHANGED <<enabled, kick, call, epolls, ready, next_avail, envVars,
                 handlerVars, wfd, todo, irq>>

\* try_lock_queue: queue.lock().unwrap() of a poisoned mutex panics.
LockPoisoned(t) ==
  /\ wpc[t] = "lock"
  /\ lock[wring[t]] = Poisoned
  /\ Exit(t, IF t \in Workers THEN "dying" ELSE "dead")
  /\ UNCHANGED <<ringVars, envVars, handlerVars, wfd, todo, irq>>

\* The queue guard is dropped.
Unlock(t) == lock' = [lock EXCEPT ![wring[t]] = Free]

M_CheckLeaksGuard(t) ==
  /\ wpc[t] = "check"
  /\ StepIf(enabled[wring[t]] /\ ready[wring[t]], t, "process")
  /\ UNCHANGED <<ringVars, envVars, handlerVars, wfd, todo, irq>>

M_CheckOnlyEnabled(t) ==
  /\ wpc[t] = "check"
  /\ \/ enabled[wring[t]] /\ Step(t, "process") /\ UNCHANGED lock
     \/ ~ enabled[wring[t]] /\ Return(t) /\ Unlock(t)
  /\ UNCHANGED <<enabled, kick, call, epolls, ready, next_avail, envVars,
                 handlerVars, wfd, todo, irq>>

\* try_lock_queue: is_enabled() && ready() decides; None drops the guard.
Check(t) ==
  LET ok == enabled[wring[t]] /\ ready[wring[t]] IN
  /\ wpc[t] = "check"
  /\ \/ ok /\ Step(t, "process") /\ UNCHANGED lock
     \/ ~ ok /\ Return(t) /\ Unlock(t)
  /\ UNCHANGED <<enabled, kick, call, epolls, ready, next_avail, envVars,
                 handlerVars, wfd, todo, irq>>

\* add_used: the driver has to be told if it wants to be.
Used(t) ==
  /\ unsig' = [unsig EXCEPT ![wring[t]] = @ \/ call[wring[t]]]
  /\ irq' = [irq EXCEPT ![t] = TRUE]

\* signal_used_queue: without a call eventfd nothing happens.
SignalUsed(t) ==
  /\ unsig' = [unsig EXCEPT ![wring[t]] = @ /\ ~ call[wring[t]]]
  /\ irq' = [irq EXCEPT ![t] = FALSE]

\* process_queue: pop a chain and execute it.  It is answered with add_used, or
\* waits for its fence, or cannot be processed.
Pop(w) ==
  /\ wpc[w] = "process"
  /\ next_avail[wring[w]] < avail[wring[w]]
  /\ next_avail' = [next_avail EXCEPT ![wring[w]] = @ + 1]
  /\ \/ Used(w) /\ Step(w, "process")
     \/ w \notin Ports /\ Step(w, "fence") /\ UNCHANGED <<unsig, irq>>
     \/ Step(w, "broken") /\ UNCHANGED <<unsig, irq>>
  /\ UNCHANGED <<enabled, kick, call, epolls, ready, lock, avail, pending, reg,
                 base, handlerVars, wfd, todo>>

\* process_fence waits for fence_state.  The fence is complete and the chain is
\* used, or its descriptor is left to the fence handler.
ProcessFence(w) ==
  /\ wpc[w] = "fence" /\ FenceFree
  /\ Used(w) \/ UNCHANGED <<unsig, irq>>
  /\ Step(w, "process")
  /\ UNCHANGED <<ringVars, avail, pending, reg, base, handlerVars, wfd, todo>>

\* The chain cannot be read, answered or used, and `?` returns from run without
\* the signal for the chains used before it; or its command (or a port's
\* assert_eq) panics.
Fail(w) ==
  /\ wpc[w] = "broken"
  /\ \/ w \notin Ports /\ Unlock(w)
     \/ lock' = [lock EXCEPT ![wring[w]] = Poisoned]
  /\ irq' = [irq EXCEPT ![w] = FALSE]
  /\ Exit(w, "dying")
  /\ UNCHANGED <<enabled, kick, call, epolls, ready, next_avail, envVars,
                 handlerVars, wfd, todo>>

\* The worker is dropped and its epoll with it: update_epolls upgrades the Weak
\* of it in vain.
Die(w) ==
  /\ wpc[w] = "dying"
  /\ epolls' = [r \in Rings |-> epolls[r] \ {w}]
  /\ reg' = [r \in Rings |-> reg[r] \ ({w} \X Fds)]
  /\ todo' = [todo EXCEPT ![w] = {}]
  /\ Step(w, "dead")
  /\ UNCHANGED <<enabled, kick, call, ready, next_avail, lock, avail, pending, unsig,
                 base, handlerVars, wfd, irq>>

\* No chain left, or a port's I/O is not ready for the next one, which goes back
\* (go_to_previous_position): on to the signal, or out of the critical section.
\* Without EVENT_IDX handle_queue_event drops what process_queue returns.
Drained(w) ==
  /\ wpc[w] = "process"
  /\ next_avail[wring[w]] >= avail[wring[w]] \/ w \in Ports
  /\ \/ irq[w] /\ w \notin Ports /\ EventIdx /\ Step(w, "signal") /\ UNCHANGED <<lock, irq>>
     \/ irq[w] /\ w \in Ports /\ Step(w, "late") /\ Unlock(w) /\ UNCHANGED irq
     \/ /\ ~ irq[w] \/ (w \notin Ports /\ ~ EventIdx)
        /\ Return(w) /\ Unlock(w) /\ irq' = [irq EXCEPT ![w] = FALSE]
  /\ UNCHANGED <<enabled, kick, call, epolls, ready, next_avail, envVars,
                 handlerVars, wfd, todo>>

\* create_fence_handler: add_used of a chain popped earlier, which does not fail:
\* the queue gave out its head.
CompleteUsed(c) ==
  /\ wpc[c] = "process"
  /\ Used(c)
  /\ Step(c, "signal")
  /\ UNCHANGED <<ringVars, avail, pending, reg, base, handlerVars, wfd, todo>>

\* signal_used_queue with the queue guard alive.  A fence handler drops the
\* guard; the worker goes on while enable_notification finds chains.
Signal(t) ==
  /\ wpc[t] = "signal"
  /\ SignalUsed(t)
  /\ \/ t \in Workers /\ Step(t, "process") /\ UNCHANGED lock
     \/ t \in Completers /\ Return(t) /\ Unlock(t)
  /\ UNCHANGED <<enabled, kick, call, epolls, ready, next_avail, avail, pending,
                 reg, base, handlerVars, wfd, todo>>

\* signal_used_queue after the guard is gone.
LateSignalUsed(w) ==
  /\ wpc[w] = "late"
  /\ SignalUsed(w)
  /\ Return(w)
  /\ UNCHANGED <<ringVars, avail, pending, reg, base, handlerVars, wfd, todo>>

-----------------------------------------------------------------------------
(* The driver and the front-end (external). *)

\* The driver publishes a chain.
Publish(r) ==
  /\ avail[r] < MaxAvail
  /\ avail' = [avail EXCEPT ![r] = @ + 1]
  /\ UNCHANGED <<ringVars, pending, reg, unsig, base, handlerVars, threadVars>>

\* The driver kicks the eventfd the front-end passed last.
Kick(r) ==
  /\ kick[r] \in Fds
  /\ pending' = [pending EXCEPT ![kick[r]] = TRUE]
  /\ UNCHANGED <<ringVars, avail, reg, unsig, base, handlerVars, threadVars>>

Request ==
  \/ \E r \in Rings, f \in Fds \cup {NoFd} : SetVringKick(r, f)
  \/ \E r \in Rings, c \in BOOLEAN : SetVringCall(r, c)
  \/ \E r \in Rings, e \in BOOLEAN : SetVringEnable(r, e)
  \/ \E r \in Rings : \E b \in 0 .. avail[r] : SetVringBase(r, b)
  \/ \E r \in Rings : GetVringBase(r)
  \/ SetMemTable

Handler ==
  \/ QueueMut \/ IsStarted \/ Rebind \/ InitializeVring \/ Start \/ WatchKick
  \/ Activate \/ ActivateReturns \/ Stop \/ Halt \/ ReadBase \/ DropKick \/ DropCall

Guarded(t) == TryLock(t) \/ Lock(t) \/ LockPoisoned(t) \/ Check(t) \/ Signal(t)

Worker(w) ==
  \/ RegisterLoad(w) \/ RegisterCtl(w) \/ AddEpoll(w)
  \/ Wait(w) \/ NextEvent(w) \/ ReadKick(w) \/ KickEnabled(w)
  \/ Pop(w) \/ ProcessFence(w) \/ Fail(w) \/ Die(w) \/ Drained(w) \/ LateSignalUsed(w)

Completer(c) ==
  \/ FenceHandler(c) \/ FenceReturns(c) \/ CompleteUsed(c)
  \/ \E r \in Rings : Complete(c, r)

Next ==
  \/ Request \/ Handler
  \/ \E w \in Workers : Worker(w)
  \/ \E w \in Ports : \E r \in Serves[w] : IoReady(w, r)
  \/ \E t \in Threads : Guarded(t)
  \/ \E c \in Completers : Completer(c)
  \/ \E r \in Rings : Publish(r) \/ Kick(r)

Spec == Init /\ [][Next]_vars

\* The operating system runs every thread that can run, and a thread that
\* waits for a mutex gets it if the mutex is released again and again; a fence
\* handler comes to the end of descs.  No fairness for the front-end, the driver,
\* a port's I/O or the gpu's fences.
Fairness ==
  /\ SF_vars(Handler)
  /\ \A w \in Workers : SF_vars(Worker(w) \/ Guarded(w))
  /\ \A c \in Completers :
       SF_vars(CompleteUsed(c) \/ Guarded(c)) /\ SF_vars(FenceReturns(c))

FairSpec == Spec /\ Fairness

-----------------------------------------------------------------------------
(* Properties. *)

\* The type of the ring, handler and thread state (VringState, Queue, the
\* fields of VhostUserHandler the rings depend on).
TypeOK ==
  /\ enabled \in [Rings -> BOOLEAN]
  /\ kick \in [Rings -> Fds \cup {NoFd}]
  /\ call \in [Rings -> BOOLEAN]
  /\ epolls \in [Rings -> SUBSET Workers]
  /\ ready \in [Rings -> BOOLEAN]
  /\ next_avail \in [Rings -> Nat]
  /\ lock \in [Rings -> Threads \cup {Free, Poisoned}]
  /\ avail \in [Rings -> Nat]
  /\ pending \in [Fds -> BOOLEAN]
  /\ reg \in [Rings -> SUBSET (Workers \X Fds)]
  /\ unsig \in [Rings -> BOOLEAN]
  /\ base \in [Rings -> Nat \cup {NoBase}]
  /\ hpc \in HandlerPc /\ hring \in Rings
  /\ hreq \in {"none", "kick", "call", "base"} /\ hold \in Fds \cup {NoFd}
  /\ activated \in BOOLEAN /\ memory_updated \in BOOLEAN
  /\ wpc \in [Threads -> WorkerPc]
  /\ wring \in [Threads -> Rings]
  /\ wfd \in [Threads -> Fds \cup {NoFd}]
  /\ todo \in [Threads -> SUBSET Rings]
  /\ irq \in [Threads -> BOOLEAN]

\* A thread is using the queue of ring r: it is between a successful
\* try_lock_queue and the release of the guard.
Processing(t, r) == wpc[t] \in SessionPc /\ wring[t] = r

\* The promise of the comment in Vring::stop: once it has marked the ring not
\* ready, no thread is processing the ring, and none does until Vring::start.
StoppedRingIsQuiet ==
  \A r \in Rings, t \in Threads : Processing(t, r) => ready[r]

\* The index get_vring_base answers stays the ring's next_avail until the ring
\* is started or SET_VRING_BASE moves it: no chain is popped behind the
\* front-end's back (a chain popped later would be lost after a restart).
BaseIsFinal ==
  \A r \in Rings : base[r] # NoBase => ~ ready[r] /\ base[r] = next_avail[r]

\* A device thread ended: the chains it had used were not signalled.
Failed == \E t \in Threads : wpc[t] \in EndedPc

\* get_vring_base takes the call eventfd away only when the driver was told of
\* every used chain: a stopped ring owes no interrupt.  The two ways in which it
\* does are excepted: a worker that ended on a chain, after it had used others,
\* and a driver without EVENT_IDX, which handle_queue_event never signals.
StoppedRingIsSignalled ==
  EventIdx /\ ~ Failed => \A r \in Rings : ~ ready[r] => ~ unsig[r]

\* The inductive invariant behind the three properties above.  LockHeld: a
\* thread in the critical section owns the queue mutex.  StopHeld: from
\* Vring::stop to the end of get_vring_base the ring is not ready.  SignalOwed:
\* an interrupt is owed only by a thread that still owns the queue.  Dormant: the
\* workers exist only once the device is activated.
LockHeld == \A t \in Threads : wpc[t] \in LockPc => lock[wring[t]] = t

StopHeld ==
  /\ hpc \in {"base", "drop", "uncall"} => ~ ready[hring]
  /\ hpc = "swapped" /\ hreq = "base" => ~ ready[hring]
  /\ hpc = "rebind" => hreq # "base"

SignalOwed ==
  EventIdx /\ ~ Failed =>
    \A r \in Rings :
      unsig[r] => call[r] /\ \E t \in Threads : Processing(t, r) /\ irq[t]

Dormant == ~ activated => \A w \in Workers : wpc[w] = "unborn"

StopInv == LockHeld /\ StopHeld /\ StoppedRingIsQuiet /\ BaseIsFinal

\* The vrings keep the contract of Ring: locks, epolls, eventfds and threads are
\* a way to start, stop and rewind rings between the sessions of the device.  A
\* session of a ring is a thread that has its queue.
Sessions == [r \in Rings |-> \E t \in Threads : Processing(t, r)]
Contract == INSTANCE Ring WITH running <- ready, session <- Sessions,
                               index <- next_avail, published <- avail, answer <- base
ImplementsRing == Contract!RingSpec

\* What the refinement needs besides: Vring::start finds the ring stopped.
StartHeld == hpc = "start" => ~ ready[hring]

\* The queue mutex is held by a thread that is in its critical section and by
\* nobody else, unless a thread panicked there: every return of try_lock_queue and
\* of its callers drops the guard.
QueueReleased ==
  \A r \in Rings :
    lock[r] \notin {Free, Poisoned} => wpc[lock[r]] \in LockPc /\ wring[lock[r]] = r

\* The worker has the queue and waits for fence_state, the fence handler has
\* fence_state and waits for the queue.
FenceDeadlock ==
  \E w \in Workers, c \in Completers :
    wpc[w] = "fence" /\ wpc[c] = "lock" /\ wring[w] = wring[c]

\* With polled fences a thread that has the queue never waits for fence_state: a
\* fence handler runs only while the worker is in event_poll, with no queue.
HolderGoesOn ==
  Polled => /\ \A w \in Workers : wpc[w] # "wait" => FenceFree
            /\ ~ FenceDeadlock

\* update_epolls and register_self agree: between two requests the epolls that
\* monitor a ring hold its kick when the ring is started, and no kick of the
\* ring when it is stopped.
WatchedIffStarted ==
  hpc = "idle" =>
    \A r \in Rings :
      reg[r] = IF ready[r] THEN Watch(epolls[r], kick[r]) ELSE {}

\* The handler never deletes a kick that is not in an epoll (ENOENT) nor adds one
\* that is (EEXIST): the epolls it keeps track of and the registrations of the
\* workers agree at every start, stop and set_kick, whose unwrap() would end the
\* connection thread.
EpollCtlNeverFails == hpc # "panicked"

\* The inductive invariant behind the two properties above, for an activation that
\* waits for the workers.  Watchers: the epolls in which a kick of the ring is
\* registered.  Registered: the kick that is, at every place of a request.
\* StoppedHasNoKick: a stopped ring has no kick that a worker could register, but
\* for the ring of a request that is about to start or has just stopped it.
\* NewKick: a kick is replaced by another one, and set_kick is called by
\* SET_VRING_KICK and GET_VRING_BASE.  RegisterHeld: workers register only while
\* activate waits for them, the kicks the rings have.
Watchers(r) == epolls[r] \cup {w \in Workers : wpc[w] = "add" /\ wring[w] = r}

Registered(r) ==
  IF r # hring THEN kick[r]
  ELSE CASE hpc \in {"swapped", "rebind"} /\ hreq = "kick" -> hold
         [] hpc = "swapped" /\ hreq # "kick" -> NoFd
         [] hpc \in {"start", "watch", "halt", "base", "drop", "uncall"} -> NoFd
         [] hpc = "init" -> IF ready[r] THEN kick[r] ELSE NoFd
         [] OTHER -> kick[r]

StoppedHasNoKick ==
  /\ \A r \in Rings :
       ~ ready[r] => \/ kick[r] = NoFd
                     \/ r = hring /\ hpc \in {"swapped", "init", "start", "base", "drop"}
  /\ hpc = "swapped" /\ hreq = "kick" /\ ~ ready[hring] => hold = NoFd
  /\ hpc \in {"rebind", "watch", "activate"} => ready[hring]
  /\ hpc = "start" => ~ ready[hring]
  /\ hpc = "uncall" => kick[hring] = NoFd

NewKick ==
  /\ hpc \in {"swapped", "rebind"} => hreq \in {"kick", "base"}
  /\ hpc \in {"swapped", "rebind"} /\ hreq = "kick" =>
       kick[hring] = NoFd \/ kick[hring] # hold
  /\ hpc = "swapped" /\ hreq = "base" => kick[hring] = NoFd
  /\ hpc \in {"stop", "halt", "base", "drop", "uncall"} => hreq = "base"

RegisterHeld ==
  \A w \in Workers :
    /\ wpc[w] \in RegPc => hpc = "activating"
    /\ wpc[w] = "ctl" => wfd[w] = kick[wring[w]]

RegInv == \A r \in Rings : reg[r] = Watch(Watchers(r), Registered(r))

WatchInv ==
  /\ EpollCtlNeverFails
  /\ \/ hpc \in {"ebadf", "poisoned"}
     \/ RegInv /\ StoppedHasNoKick /\ NewKick
  /\ RegisterHeld

\* The ring can be served: it is enabled and started and its kick is in the
\* epoll of a worker.
Serving(r) ==
  /\ enabled[r] /\ ready[r] /\ kick[r] # NoFd
  /\ \E w \in Workers : <<w, kick[r]>> \in reg[r]

\* A kick of a ring that stays enabled, started and watched is not lost: the
\* worker wakes up and pops every chain, whatever else its batch of events,
\* the handler and the fence handlers do.  A worker that ended watches nothing;
\* what is left is the deadlock of the two mutexes, which polled fences exclude
\* (HolderGoesOn).
PendingKickServed ==
  \A r \in Rings :
    (Serving(r) /\ kick[r] \in Fds /\ pending[kick[r]])
      ~> (next_avail[r] >= avail[r] \/ ~ Serving(r) \/ FenceDeadlock)

\* Every request of the front-end is answered: Vring::stop and is_started do
\* not wait for the queue mutex for ever, and activation returns.  The requests
\* that are not: the SET_VRING_KICK of KickCanChange below, one that finds the
\* queue poisoned by a worker's panic, and one that meets the deadlock of the
\* queue and fence_state, which needs fences that are not polled.
RequestsReturn ==
  hpc # "idle" ~> hpc \in {"idle", "ebadf", "poisoned"} \/ FenceDeadlock

\* What the comment on VringState::epolls asks for: the epolls that monitor the
\* kick are updated when it changes, so that set_kick of a started ring works.
KickCanChange == hpc # "ebadf"
=============================================================================
