------------------------------ MODULE GpuFence ------------------------------
(***************************************************************************)
(* The gpu's control queue and its fences (virtio-gpu's worker.rs and      *)
(* virtio_gpu.rs).                                                         *)
(*                                                                         *)
(* The worker holds the queue mutex of the control queue while it pops and *)
(* executes commands.  The response of a fenced command goes back to the   *)
(* driver when rutabaga calls the fence handler: the handler takes the     *)
(* fence_state mutex, and under it the queue mutex for every descriptor it *)
(* returns.  The worker, with the queue mutex held, takes the fence_state  *)
(* mutex in process_fence.  Rutabaga calls the handler on a thread of its  *)
(* own (one per fence ring), or on the worker from event_poll.             *)
(*                                                                         *)
(* Commands are numbered by their place in the avail ring; the number is   *)
(* the head descriptor and, as drivers count fences up, the fence id too.  *)
(***************************************************************************)
EXTENDS Naturals, Sequences

CONSTANTS
  FenceRings,   \* VirtioGpuRing: Global and the context specific rings
  Plain,        \* the command has no fence, or no room for a response
  Free,         \* a mutex that is not held
  Worker,       \* the gpu worker thread, as the holder of a mutex
  MaxCmds       \* bound: commands the driver submits

ASSUME ConstantsAssumption ==
  /\ Plain \notin FenceRings
  /\ Worker \notin FenceRings
  /\ Free \notin FenceRings \cup {Worker}
  /\ MaxCmds \in Nat

VARIABLES
  threaded,     \* the fence handler runs on threads of its own
  event_idx,    \* VIRTIO_RING_F_EVENT_IDX is negotiated
  cmds,         \* avail ring: the fence ring of every command, or Plain
  owes,         \* the driver has yet to decide whether to kick
  avail_event,  \* used ring: the index whose publication needs a kick
  kicked,       \* the kick eventfd is readable
  available,    \* the vring is enabled and started
  next_avail,   \* Queue::next_avail
  used,         \* heads in the used ring
  unsig,        \* used heads the driver was not interrupted for
  queue_lock,   \* holder of the control queue's mutex
  fence_lock,   \* holder of the fence_state mutex
  descs,        \* FenceState::descs
  completed_fences,
  created,      \* fences rutabaga is working on
  signalled,    \* fences rutabaga has called back for
  dropped,      \* heads the fence handler gave up
  wpc,          \* where the worker is
  notify,       \* process_queue: signal_used_queue
  fpc,          \* where the fence handler of a ring is
  fence,        \* its completed_fence
  desc          \* its completed_desc

driverVars == <<cmds, owes>>
lockVars   == <<queue_lock, fence_lock>>
fenceVars  == <<descs, completed_fences, created, signalled, dropped, fpc, fence, desc>>
queueVars  == <<avail_event, kicked, next_avail, used, unsig>>
vars == <<threaded, event_idx, available, driverVars, lockVars, fenceVars,
          queueVars, wpc, notify>>

Ids == 1 .. MaxCmds

Init ==
  /\ threaded \in BOOLEAN /\ event_idx \in BOOLEAN
  /\ cmds = <<>> /\ owes = FALSE
  /\ avail_event = 0 /\ kicked = FALSE /\ available = TRUE
  /\ next_avail = 0 /\ used = {} /\ unsig = {}
  /\ queue_lock = Free /\ fence_lock = Free
  /\ descs = {} /\ completed_fences = [q \in FenceRings |-> 0]
  /\ created = {} /\ signalled = {} /\ dropped = {}
  /\ wpc = "wait" /\ notify = FALSE
  /\ fpc = [q \in FenceRings |-> "none"]
  /\ fence = [q \in FenceRings |-> 0]
  /\ desc = [q \in FenceRings |-> 0]

-----------------------------------------------------------------------------
(* The driver and the front-end (external). *)

\* A command is published; the driver looks at avail_event afterwards.
Publish(c) ==
  /\ Len(cmds) < MaxCmds /\ ~ owes
  /\ cmds' = Append(cmds, c)
  /\ owes' = TRUE
  /\ UNCHANGED <<threaded, event_idx, available, lockVars, fenceVars, queueVars,
                 wpc, notify>>

Kick ==
  /\ owes
  /\ owes' = FALSE
  /\ kicked' = (kicked \/ ~ event_idx \/ avail_event = Len(cmds) - 1)
  /\ UNCHANGED <<threaded, event_idx, available, cmds, lockVars, fenceVars,
                 avail_event, next_avail, used, unsig, wpc, notify>>

\* SET_VRING_ENABLE, GET_VRING_BASE, SET_VRING_KICK: see Vring.
SetAvailable(a) ==
  /\ available' = a
  /\ UNCHANGED <<threaded, event_idx, driverVars, lockVars, fenceVars, queueVars,
                 wpc, notify>>

-----------------------------------------------------------------------------
(* The worker. *)

\* add_used in the worker: the interrupt waits for signal_used_queue.
AddUsed(n) == used' = used \cup {n} /\ unsig' = unsig \cup {n}

\* run, handle_queue_event: read_kick consumes the kick, and goes on only if
\* the ring is enabled.
ReadKick ==
  /\ wpc = "wait" /\ kicked
  /\ kicked' = FALSE
  /\ wpc' = IF available THEN "lock" ELSE "wait"
  /\ UNCHANGED <<threaded, event_idx, available, driverVars, lockVars, fenceVars,
                 avail_event, next_avail, used, unsig, notify>>

\* handle_queue_event: try_lock_queue waits for the mutex, then looks at the
\* ring again.
TryLockQueue ==
  /\ wpc = "lock" /\ queue_lock = Free
  /\ IF available
     THEN wpc' = "pop" /\ queue_lock' = Worker
     ELSE wpc' = "wait" /\ UNCHANGED queue_lock
  /\ notify' = FALSE
  /\ UNCHANGED <<threaded, event_idx, available, driverVars, fence_lock, fenceVars,
                 queueVars>>

\* process_queue: pop_descriptor_chain returns the next command.
Pop ==
  /\ wpc = "pop" /\ next_avail < Len(cmds)
  /\ next_avail' = next_avail + 1

\* process_queue_chain without a fence: execute, respond, add_used.
ExecutePlain ==
  /\ Pop
  /\ cmds[next_avail'] = Plain
  /\ AddUsed(next_avail')
  /\ notify' = TRUE
  /\ UNCHANGED <<threaded, event_idx, available, driverVars, lockVars, fenceVars,
                 avail_event, kicked, wpc>>

\* process_queue_chain with VIRTIO_GPU_FLAG_FENCE: execute, create_fence and
\* encode the response.  When create_fence fails the response is the error, and
\* nothing else changes.
CreateFence(ok) ==
  /\ Pop
  /\ cmds[next_avail'] # Plain
  /\ created' = created \cup (IF ok THEN {next_avail'} ELSE {})
  /\ wpc' = "process"
  /\ UNCHANGED <<threaded, event_idx, available, driverVars, lockVars, descs,
                 completed_fences, signalled, dropped, fpc, fence, desc,
                 avail_event, kicked, used, unsig, notify>>

M_ProcessFenceAlwaysWaits ==
  /\ wpc = "process" /\ fence_lock = Free
  /\ descs' = descs \cup {next_avail}
  /\ wpc' = "pop"
  /\ UNCHANGED <<threaded, event_idx, available, driverVars, lockVars,
                 completed_fences, created, signalled, dropped, fpc, fence, desc,
                 queueVars, notify>>

\* process_fence, one critical section of fence_state: remember the descriptor,
\* or return it at once when its fence is complete already.
ProcessFence ==
  /\ wpc = "process" /\ fence_lock = Free
  /\ IF next_avail > completed_fences[cmds[next_avail]]
     THEN descs' = descs \cup {next_avail} /\ UNCHANGED <<used, unsig, notify>>
     ELSE AddUsed(next_avail) /\ notify' = TRUE /\ UNCHANGED descs
  /\ wpc' = "pop"
  /\ UNCHANGED <<threaded, event_idx, available, driverVars, lockVars,
                 completed_fences, created, signalled, dropped, fpc, fence, desc,
                 avail_event, kicked, next_avail>>

\* process_queue_chain returns an error (the response does not fit, a bad used
\* ring): run().unwrap() ends the worker, which drops the queue guard.
Fail ==
  /\ (wpc = "process" /\ UNCHANGED next_avail) \/ Pop
  /\ wpc' = "dead"
  /\ queue_lock' = Free
  /\ UNCHANGED <<threaded, event_idx, available, driverVars, fence_lock, fenceVars,
                 avail_event, kicked, used, unsig, notify>>

\* handle_queue_event without EVENT_IDX: the result of process_queue is
\* discarded and the guard dropped.
Drained ==
  /\ wpc = "pop" /\ next_avail = Len(cmds) /\ ~ event_idx
  /\ wpc' = "wait" /\ queue_lock' = Free
  /\ UNCHANGED <<threaded, event_idx, available, driverVars, fence_lock, fenceVars,
                 queueVars, notify>>

\* handle_queue_event with EVENT_IDX: signal_used_queue.
SignalUsed ==
  /\ wpc = "pop" /\ next_avail = Len(cmds) /\ event_idx
  /\ unsig' = IF notify THEN {} ELSE unsig
  /\ wpc' = "arm"
  /\ UNCHANGED <<threaded, event_idx, available, driverVars, lockVars, fenceVars,
                 avail_event, kicked, next_avail, used, notify>>

M_ArmOneLate ==
  /\ wpc = "arm"
  /\ avail_event' = next_avail + 1
  /\ wpc' = "recheck"
  /\ UNCHANGED <<threaded, event_idx, available, driverVars, lockVars, fenceVars,
                 kicked, next_avail, used, unsig, notify>>

\* enable_notification: write avail_event ...
Arm ==
  /\ wpc = "arm"
  /\ avail_event' = next_avail
  /\ wpc' = "recheck"
  /\ UNCHANGED <<threaded, event_idx, available, driverVars, lockVars, fenceVars,
                 kicked, next_avail, used, unsig, notify>>

M_RecheckNever ==
  /\ wpc = "recheck"
  /\ wpc' = "wait" /\ queue_lock' = Free /\ notify' = FALSE
  /\ UNCHANGED <<threaded, event_idx, available, driverVars, fence_lock, fenceVars,
                 queueVars>>

M_RecheckKeepsGuard ==
  /\ wpc = "recheck"
  /\ wpc' = IF next_avail # Len(cmds) THEN "pop" ELSE "wait"
  /\ notify' = FALSE
  /\ UNCHANGED <<threaded, event_idx, available, driverVars, lockVars, fenceVars,
                 queueVars>>

\* ... and then look at the avail index: another round if it has moved.
Recheck ==
  /\ wpc = "recheck"
  /\ IF next_avail # Len(cmds)
     THEN wpc' = "pop" /\ UNCHANGED queue_lock
     ELSE wpc' = "wait" /\ queue_lock' = Free
  /\ notify' = FALSE
  /\ UNCHANGED <<threaded, event_idx, available, driverVars, fence_lock, fenceVars,
                 queueVars>>

-----------------------------------------------------------------------------
(* The fence handler (create_fence_handler). *)

\* Rutabaga (external): fence n is complete, and with it the earlier ones of
\* its ring.  A ring has one handler at a time; event_poll runs it on the worker.
FenceSignalled(q, n) ==
  /\ n \in created /\ cmds[n] = q
  /\ wpc # "dead"
  /\ fpc[q] = "none"
  /\ LET now == {m \in created : cmds[m] = q /\ m <= n} IN
       /\ created' = created \ now
       /\ signalled' = signalled \cup now
  /\ fpc' = [fpc EXCEPT ![q] = "enter"]
  /\ fence' = [fence EXCEPT ![q] = n]
  /\ IF threaded THEN UNCHANGED wpc ELSE wpc = "wait" /\ wpc' = "poll"
  /\ UNCHANGED <<threaded, event_idx, available, driverVars, lockVars, descs,
                 completed_fences, dropped, desc, queueVars, notify>>

\* fence_state.lock()
Enter(q) ==
  /\ fpc[q] = "enter" /\ fence_lock = Free
  /\ fence_lock' = q
  /\ fpc' = [fpc EXCEPT ![q] = "scan"]
  /\ UNCHANGED <<threaded, event_idx, available, driverVars, queue_lock, descs,
                 completed_fences, created, signalled, dropped, fence, desc,
                 queueVars, wpc, notify>>

M_MatchingAnyRing(q) == {n \in descs : n <= fence[q]}

M_MatchingStrict(q) == {n \in descs : cmds[n] = q /\ n < fence[q]}

\* The descriptors this completion returns.
Matching(q) == {n \in descs : cmds[n] = q /\ n <= fence[q]}

M_ScanKeeps(q) ==
  /\ fpc[q] = "scan"
  /\ \E n \in Matching(q) :
       /\ \A m \in Matching(q) : n <= m
       /\ UNCHANGED descs
       /\ \/ /\ available
             /\ desc' = [desc EXCEPT ![q] = n]
             /\ fpc' = [fpc EXCEPT ![q] = "queue"]
             /\ UNCHANGED dropped
          \/ /\ ~ available
             /\ dropped' = dropped \cup {n}
             /\ UNCHANGED <<desc, fpc>>
  /\ UNCHANGED <<threaded, event_idx, available, driverVars, lockVars,
                 completed_fences, created, signalled, fence, queueVars, wpc, notify>>

\* The next one (descs is in submission order) is removed; the first test of
\* try_lock_queue fails and it is given up, or the queue mutex comes next.
Scan(q) ==
  /\ fpc[q] = "scan"
  /\ \E n \in Matching(q) :
       /\ \A m \in Matching(q) : n <= m
       /\ descs' = descs \ {n}
       /\ \/ /\ available
             /\ desc' = [desc EXCEPT ![q] = n]
             /\ fpc' = [fpc EXCEPT ![q] = "queue"]
             /\ UNCHANGED dropped
          \/ /\ ~ available
             /\ dropped' = dropped \cup {n}
             /\ UNCHANGED <<desc, fpc>>
  /\ UNCHANGED <<threaded, event_idx, available, driverVars, lockVars,
                 completed_fences, created, signalled, fence, queueVars, wpc, notify>>

\* try_lock_queue has the mutex: add_used and signal_used_queue, unless the ring
\* has become unavailable.
ReturnDesc(q) ==
  /\ fpc[q] = "queue" /\ queue_lock = Free
  /\ \/ /\ available
        /\ used' = used \cup {desc[q]}
        /\ unsig' = {}
        /\ UNCHANGED dropped
     \/ /\ ~ available
        /\ dropped' = dropped \cup {desc[q]}
        /\ UNCHANGED <<used, unsig>>
  /\ desc' = [desc EXCEPT ![q] = 0]
  /\ fpc' = [fpc EXCEPT ![q] = "scan"]
  /\ UNCHANGED <<threaded, event_idx, available, driverVars, lockVars, descs,
                 completed_fences, created, signalled, fence, avail_event, kicked,
                 next_avail, wpc, notify>>

\* Nothing is left: the last completed fence is noted, fence_state unlocked.
Leave(q) ==
  /\ fpc[q] = "scan" /\ Matching(q) = {}
  /\ completed_fences' = [completed_fences EXCEPT ![q] = fence[q]]
  /\ fence_lock' = Free
  /\ fpc' = [fpc EXCEPT ![q] = "none"]
  /\ wpc' = IF wpc = "poll" THEN "wait" ELSE wpc
  /\ UNCHANGED <<threaded, event_idx, available, driverVars, queue_lock, descs,
                 created, signalled, dropped, fence, desc, queueVars, notify>>

-----------------------------------------------------------------------------
WorkerStep ==
  \/ ReadKick \/ TryLockQueue \/ ExecutePlain
  \/ \E ok \in BOOLEAN : CreateFence(ok)
  \/ ProcessFence \/ Drained \/ SignalUsed \/ Arm \/ Recheck

FenceStep(q) == Enter(q) \/ Scan(q) \/ ReturnDesc(q) \/ Leave(q)

Next ==
  \/ \E c \in FenceRings \cup {Plain} : Publish(c)
  \/ Kick
  \/ \E a \in BOOLEAN : SetAvailable(a)
  \/ WorkerStep \/ Fail
  \/ \E q \in FenceRings, n \in Ids : FenceSignalled(q, n)
  \/ \E q \in FenceRings : FenceStep(q)

Spec == Init /\ [][Next]_vars

\* The threads run; the driver decides about the kick after it published.  No
\* fence has to complete, no command to fail, and the front-end does what it
\* likes.
Fairness ==
  /\ WF_vars(WorkerStep)
  /\ WF_vars(Kick)
  /\ \A q \in FenceRings : WF_vars(FenceStep(q))

FairSpec == Spec /\ Fairness

-----------------------------------------------------------------------------
(* Properties. *)

\* The type of the queue, fence and thread state.
TypeOK ==
  /\ threaded \in BOOLEAN /\ event_idx \in BOOLEAN /\ available \in BOOLEAN
  /\ cmds \in Seq(FenceRings \cup {Plain}) /\ owes \in BOOLEAN
  /\ avail_event \in Nat /\ kicked \in BOOLEAN
  /\ next_avail \in 0 .. Len(cmds)
  /\ used \subseteq 1 .. next_avail /\ unsig \subseteq used
  /\ queue_lock \in {Free, Worker} /\ fence_lock \in FenceRings \cup {Free}
  /\ descs \subseteq 1 .. next_avail
  /\ completed_fences \in [FenceRings -> Nat]
  /\ created \subseteq 1 .. next_avail /\ signalled \subseteq 1 .. next_avail
  /\ dropped \subseteq 1 .. next_avail
  /\ wpc \in {"wait", "lock", "pop", "process", "arm", "recheck", "poll", "dead"}
  /\ notify \in BOOLEAN
  /\ fpc \in [FenceRings -> {"none", "enter", "scan", "queue"}]
  /\ fence \in [FenceRings -> Nat] /\ desc \in [FenceRings -> Nat]

\* The descriptor the worker holds, and those the fence handlers hold.
InHand    == IF wpc \in {"process", "dead"} THEN {next_avail} ELSE {}
Returning == {desc[q] : q \in {p \in FenceRings : fpc[p] = "queue"}}

\* A descriptor the worker popped is in exactly one place: it is never returned
\* twice, by process_queue_chain and the fence handler or by two handlers, and
\* never forgotten.
DescriptorConserved ==
  /\ used \cup dropped \cup descs \cup Returning \cup InHand = 1 .. next_avail
  /\ used \cap dropped = {}
  /\ descs \cap (used \cup dropped) = {}
  /\ Returning \cap (used \cup dropped \cup descs) = {}
  /\ InHand \cap (used \cup dropped \cup descs \cup Returning) = {}

\* The response of a fenced command is not returned before rutabaga completed
\* the fence, whatever the fences of other rings do.
NeverBeforeFence ==
  \A n \in used : n \notin created

\* A fence that is signalled between create_fence and process_fence is not
\* missed: when a descriptor waits for a completed fence, the handler that will
\* find it is still running.
FenceNotMissed ==
  \A n \in descs \cap signalled :
    fpc[cmds[n]] \in {"enter", "scan", "queue"} /\ n <= fence[cmds[n]]

\* The inductive invariant behind the three properties above.  A handler that
\* looks at descs holds fence_state (FenceHeld) and completes a later fence than
\* its ring's last one (HandlerAhead); a fence is still open only if it is later
\* than what its ring has completed or is completing (OpenAhead); a signalled
\* one has been noted or is being handled (SignalledSeen).
FenceHeld == \A q \in FenceRings : fpc[q] \in {"scan", "queue"} => fence_lock = q

HandlerAhead ==
  \A q \in FenceRings :
    /\ completed_fences[q] <= next_avail /\ fence[q] <= next_avail
    /\ fpc[q] # "none" => completed_fences[q] <= fence[q]
    /\ fpc[q] = "queue" => /\ desc[q] \in 1 .. fence[q]
                           /\ cmds[desc[q]] = q

Fenced ==
  /\ \A n \in created \cup signalled \cup descs : cmds[n] \in FenceRings
  /\ wpc = "process" => next_avail > 0 /\ cmds[next_avail] \in FenceRings

OpenAhead ==
  \A n \in created :
    /\ n > completed_fences[cmds[n]]
    /\ fpc[cmds[n]] # "none" => n > fence[cmds[n]]

SignalledSeen ==
  \A n \in signalled :
    \/ n <= completed_fences[cmds[n]]
    \/ fpc[cmds[n]] # "none" /\ n <= fence[cmds[n]]

FenceInv ==
  /\ FenceHeld /\ HandlerAhead /\ Fenced /\ OpenAhead /\ SignalledSeen
  /\ DescriptorConserved /\ NeverBeforeFence /\ FenceNotMissed

\* Under event_poll nobody waits for a mutex: the handler runs on the worker when
\* that has let go of the queue, so that fence_state and the queue mutex, which
\* are taken in both orders, are always free when they are asked for.
NoLockWait ==
  ~ threaded =>
    /\ wpc = "process" => fence_lock = Free
    /\ wpc = "lock" => queue_lock = Free
    /\ \A q \in FenceRings : /\ fpc[q] = "enter" => fence_lock = Free
                             /\ fpc[q] = "queue" => queue_lock = Free

\* The inductive invariant behind NoLockWait.  GuardsHeld: a mutex is held where the
\* code has its guard and nowhere else, on errors too.  OnePoll: event_poll runs
\* one handler, and the worker does nothing else meanwhile.
GuardsHeld ==
  /\ queue_lock # Free => wpc \in {"pop", "process", "arm", "recheck"}
  /\ \A q \in FenceRings : fence_lock = q => fpc[q] \in {"scan", "queue"}

OnePoll ==
  ~ threaded =>
    /\ \A q \in FenceRings : fpc[q] # "none" => wpc = "poll"
    /\ \A p, q \in FenceRings : fpc[p] # "none" /\ fpc[q] # "none" => p = q

\* The worker goes on as long as the ring is available and no command fails.
Undisturbed == available /\ wpc # "dead"

\* Where the worker will look at the avail ring again without a kick.
Looking == {"lock", "pop", "process", "arm", "recheck"}

\* A command the worker has not seen: it is about to look, a kick is in the
\* eventfd, or the driver has yet to decide and will find that it has to kick.
CommandSeen ==
  next_avail < Len(cmds) =>
    \/ wpc \in Looking \/ kicked
    \/ owes /\ (event_idx => avail_event = Len(cmds) - 1)

\* What CommandSeen needs to be kept: a worker that sleeps, or has just written
\* avail_event, asked for a kick at the index it looks at next.
Armed ==
  event_idx /\ wpc \in {"wait", "poll", "lock", "recheck"} => avail_event = next_avail

\* Notification suppression never leaves the worker asleep over a command: while
\* it writes avail_event and looks again (enable_notification) the driver may
\* publish and look at avail_event in any order, and either the driver kicks or
\* the worker finds the command itself.  A kick is consumed in vain only while
\* the ring is unavailable.
KickNotSuppressed ==
  [][CommandSeen /\ Undisturbed /\ Undisturbed' => CommandSeen']_vars

\* Notification suppression loses no command: with EVENT_IDX a kick is sent only
\* for avail_event, and still every published command is executed.
CommandsExecuted ==
  (~ threaded /\ []Undisturbed) =>
    (next_avail < Len(cmds) ~> next_avail = Len(cmds))

\* The response waits until the fence is complete, and no longer: under
\* event_poll every completed fence leads to its descriptor being returned (or
\* given up when the ring is unavailable).
FencedReturned ==
  \A n \in Ids :
    ~ threaded => (n \in signalled ~> (n \in used \cup dropped \/ wpc = "dead"))

\* The same when rutabaga completes fences on threads of its own.
FencedReturnedThreaded ==
  \A n \in Ids : n \in signalled ~> (n \in used \cup dropped \/ wpc = "dead")
=============================================================================
