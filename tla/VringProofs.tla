---------------------------- MODULE VringProofs ----------------------------
(***************************************************************************)
(* Proofs about Vring, for every number of rings, workers and completers,  *)
(* every eventfd supply, both ways of activating the device and of calling *)
(* the fence handler, with and without EVENT_IDX.                          *)
(***************************************************************************)
EXTENDS Vring, TLAPS

USE DEF Threads, RegPc, SessionPc, LockPc, EndedPc, WorkerPc, HandlerPc

LEMMA AnyRingType == AnyRing \in Rings
  BY ConstantsAssumption DEF AnyRing

-----------------------------------------------------------------------------
(* Type correctness. *)

LEMMA WatchType ==
  ASSUME NEW ws \in SUBSET Workers, NEW f \in Fds \cup {NoFd}
  PROVE  Watch(ws, f) \subseteq Workers \X Fds
  BY DEF Watch

LEMMA UpdateEpollsType ==
  ASSUME TypeOK, NEW r \in Rings,
         NEW old \in Fds \cup {NoFd}, NEW new \in Fds \cup {NoFd},
         UpdateEpolls(r, old, new)
  PROVE  reg' \in [Rings -> SUBSET (Workers \X Fds)]
  <1>1. Watch(epolls[r], new) \subseteq Workers \X Fds
    BY WatchType DEF TypeOK
  <1>2. QED
    BY <1>1 DEF TypeOK, UpdateEpolls

LEMMA UpdatePanicsType ==
  ASSUME TypeOK, NEW r \in Rings,
         NEW old \in Fds \cup {NoFd}, NEW new \in Fds \cup {NoFd},
         UpdatePanics(r, old, new)
  PROVE  reg' \in [Rings -> SUBSET (Workers \X Fds)]
  <1>1. PICK w \in epolls[r],
             done \in SUBSET {v \in epolls[r] : ~ CtlFails(r, v, old, new)} :
          reg' = [reg EXCEPT ![r] =
                    (reg[r] \ Watch(done \cup {w}, old)) \cup Watch(done, new)]
    BY DEF UpdatePanics
  <1>2. done \in SUBSET Workers
    BY <1>1 DEF TypeOK
  <1>3. Watch(done, new) \subseteq Workers \X Fds
    BY <1>2, WatchType
  <1>4. QED
    BY <1>1, <1>3 DEF TypeOK

LEMMA UsedType ==
  ASSUME TypeOK, NEW t \in Threads, Used(t) \/ SignalUsed(t)
  PROVE  unsig' \in [Rings -> BOOLEAN] /\ irq' \in [Threads -> BOOLEAN]
  BY Zenon DEF TypeOK, Used, SignalUsed

LEMMA StepType ==
  ASSUME TypeOK, NEW t \in Threads, NEW pc \in WorkerPc,
         Step(t, pc) \/ Exit(t, pc) \/ Return(t)
  PROVE  wpc' \in [Threads -> WorkerPc] /\ wring' \in [Threads -> Rings]
  <1>1. wpc \in [Threads -> WorkerPc] /\ wring \in [Threads -> Rings]
    BY DEF TypeOK
  <1>2. CASE Step(t, pc)
    BY <1>1, <1>2 DEF Step
  <1>3. CASE Exit(t, pc) \/ Return(t)
    <2>1. wpc' \in [Threads -> WorkerPc]
      BY <1>1, <1>3 DEF Return, Exit
    <2>2. wring' \in [Threads -> Rings]
      BY <1>1, <1>3, AnyRingType DEF Return, Exit
    <2>3. QED  BY <2>1, <2>2
  <1>4. QED  BY <1>2, <1>3

LEMMA RequestType == TypeOK /\ Request => TypeOK'
  <1> SUFFICES ASSUME TypeOK, Request PROVE TypeOK'
    OBVIOUS
  <1> USE DEF TypeOK, ringVars, envVars, handlerVars, threadVars
  <1>1. ASSUME NEW r \in Rings, NEW f \in Fds \cup {NoFd}, SetVringKick(r, f)
        PROVE  TypeOK'
    BY <1>1 DEF SetVringKick
  <1>2. ASSUME NEW r \in Rings, NEW c \in BOOLEAN, SetVringCall(r, c)
        PROVE  TypeOK'
    BY <1>2 DEF SetVringCall
  <1>3. ASSUME NEW r \in Rings, NEW e \in BOOLEAN, SetVringEnable(r, e)
        PROVE  TypeOK'
    BY <1>3 DEF SetVringEnable
  <1>4. ASSUME NEW r \in Rings, NEW b \in 0 .. avail[r], SetVringBase(r, b)
        PROVE  TypeOK'
    BY <1>4 DEF SetVringBase, Goto
  <1>5. ASSUME NEW r \in Rings, GetVringBase(r)
        PROVE  TypeOK'
    BY <1>5 DEF GetVringBase
  <1>6. CASE SetMemTable
    BY <1>6 DEF SetMemTable
  <1>7. QED
    BY <1>1, <1>2, <1>3, <1>4, <1>5, <1>6 DEF Request

LEMMA HandlerType == TypeOK /\ Handler => TypeOK'
  <1> SUFFICES ASSUME TypeOK, Handler PROVE TypeOK'
    OBVIOUS
  <1>0. kick[hring] \in Fds \cup {NoFd} /\ hold \in Fds \cup {NoFd}
        /\ NoFd \in Fds \cup {NoFd} /\ hring \in Rings
    BY DEF TypeOK
  <1> USE AnyRingType DEF Goto, Reply, ReplyIf, ringVars, envVars, threadVars
  <1>1. CASE IsStarted
    BY <1>1 DEF TypeOK, IsStarted, AfterSetKick
  <1>2. CASE Rebind
    <2>1. reg' \in [Rings -> SUBSET (Workers \X Fds)]
      <3>1. CASE UNCHANGED reg
        BY <3>1 DEF TypeOK
      <3>2. CASE UpdateEpolls(hring, hold, kick[hring])
                 \/ UpdatePanics(hring, hold, kick[hring])
        BY <1>0, <3>2, UpdateEpollsType, UpdatePanicsType
      <3>3. QED
        BY <1>2, <3>1, <3>2 DEF Rebind
    <2>2. hpc' \in HandlerPc /\ UNCHANGED <<hring, hreq, hold>>
      BY <1>2 DEF Rebind, AfterSetKick, UpdatePanics
    <2>3. QED
      BY <2>1, <2>2, <1>2 DEF TypeOK, Rebind
  <1>3. CASE InitializeVring
    BY <1>3 DEF TypeOK, InitializeVring
  <1>4. CASE Start
    BY <1>4 DEF TypeOK, Start
  <1>5. CASE WatchKick
    <2>1. reg' \in [Rings -> SUBSET (Workers \X Fds)]
      BY <1>0, <1>5, UpdateEpollsType, UpdatePanicsType DEF WatchKick
    <2>2. hpc' \in HandlerPc /\ UNCHANGED <<hring, hreq, hold>>
      BY <1>5 DEF WatchKick, UpdatePanics
    <2>3. QED
      BY <2>1, <2>2, <1>5 DEF TypeOK, WatchKick
  <1>6. CASE Activate
    <2>1. wpc' \in [Threads -> WorkerPc] /\ todo' \in [Threads -> SUBSET Rings]
      BY <1>6, ConstantsAssumption DEF TypeOK, Activate
    <2>2. /\ hpc' \in HandlerPc /\ hring' \in Rings
          /\ hreq' \in {"none", "kick", "call", "base"} /\ hold' \in Fds \cup {NoFd}
          /\ activated' \in BOOLEAN
      BY <1>6 DEF TypeOK, Activate
    <2>3. QED
      BY <1>6, <2>1, <2>2 DEF TypeOK, Activate
  <1>7. CASE ActivateReturns
    BY <1>7 DEF TypeOK, ActivateReturns
  <1>8. CASE Stop
    <2>1. reg' \in [Rings -> SUBSET (Workers \X Fds)]
      BY <1>0, <1>8, UpdateEpollsType, UpdatePanicsType DEF Stop
    <2>2. hpc' \in HandlerPc /\ UNCHANGED <<hring, hreq, hold>>
      BY <1>8 DEF Stop, UpdatePanics
    <2>3. QED
      BY <2>1, <2>2, <1>8 DEF TypeOK, Stop
  <1>9. CASE Halt
    BY <1>9 DEF TypeOK, Halt
  <1>10. CASE ReadBase
    BY <1>10 DEF TypeOK, ReadBase
  <1>11. CASE DropKick
    BY <1>11 DEF TypeOK, DropKick
  <1>12. CASE DropCall
    BY <1>12 DEF TypeOK, DropCall
  <1>13. CASE QueueMut
    BY <1>13 DEF TypeOK, QueueMut
  <1>14. QED
    BY <1>1, <1>2, <1>3, <1>4, <1>5, <1>6, <1>7, <1>8, <1>9, <1>10, <1>11,
       <1>12, <1>13 DEF Handler

LEMMA WorkerType ==
  ASSUME TypeOK, NEW w \in Workers, Worker(w)
  PROVE  TypeOK'
  <1> USE AnyRingType DEF TypeOK, Step, Exit, Return, StepIf, ringVars, envVars,
                          handlerVars, threadVars
  <1>1. CASE RegisterLoad(w)
    <2>1. CASE todo[w] = {}
      BY <1>1, <2>1 DEF RegisterLoad
    <2>2. CASE todo[w] # {}
      <3>1. PICK r \in todo[w] :
              /\ todo' = [todo EXCEPT ![w] = @ \ {r}]
              /\ wring' = [wring EXCEPT ![w] = r]
              /\ wfd' = [wfd EXCEPT ![w] = kick[r]]
              /\ wpc' = [wpc EXCEPT ![w] = "ctl"]
        BY <1>1, <2>2 DEF RegisterLoad
      <3>2. QED
        BY <1>1, <3>1 DEF RegisterLoad
    <2>3. QED
      BY <2>1, <2>2
  <1>2. CASE RegisterCtl(w)
    <2>1. Watch({w}, wfd[w]) \subseteq Workers \X Fds
      BY WatchType
    <2>2. reg' \in [Rings -> SUBSET (Workers \X Fds)]
      BY <1>2, <2>1 DEF RegisterCtl
    <2>3. QED
      BY <1>2, <2>2, ZenonT(40) DEF RegisterCtl
  <1>3. CASE AddEpoll(w)
    BY <1>3 DEF AddEpoll
  <1>4. CASE Wait(w)
    BY <1>4 DEF Wait, Readable
  <1>5. CASE NextEvent(w)
    BY <1>5 DEF NextEvent
  <1>6. CASE ReadKick(w)
    BY <1>6 DEF ReadKick
  <1>7. CASE KickEnabled(w)
    <2>1. Step(w, "try") \/ Return(w)
      BY <1>7, Zenon DEF KickEnabled
    <2>2. wpc' \in [Threads -> WorkerPc] /\ wring' \in [Threads -> Rings]
      BY <2>1, StepType
    <2>3. QED
      BY <1>7, <2>2 DEF KickEnabled
  <1>8. CASE Pop(w)
    <2>1. unsig' \in [Rings -> BOOLEAN] /\ irq' \in [Threads -> BOOLEAN]
      BY <1>8, UsedType DEF Pop
    <2>2. next_avail' \in [Rings -> Nat]
      BY <1>8 DEF Pop
    <2>3. PICK pc \in {"process", "fence", "broken"} : Step(w, pc)
      BY <1>8, Zenon DEF Pop
    <2>4. wpc' \in [Threads -> WorkerPc] /\ wring' \in [Threads -> Rings]
      BY <2>3, StepType
    <2>5. QED
      BY <1>8, <2>1, <2>2, <2>4 DEF Pop
  <1>9. CASE Drained(w)
    <2>1. lock' \in [Rings -> Threads \cup {Free, Poisoned}]
      BY <1>9 DEF Drained, Unlock
    <2>2. PICK pc \in WorkerPc : Step(w, pc) \/ Return(w)
      BY <1>9, Zenon DEF Drained
    <2>3. wpc' \in [Threads -> WorkerPc] /\ wring' \in [Threads -> Rings]
      BY <2>2, StepType
    <2>4. irq' \in [Threads -> BOOLEAN]
      BY <1>9, Zenon DEF Drained
    <2>5. QED
      BY <1>9, <2>1, <2>3, <2>4, SMTT(20) DEF Drained
  <1>10. CASE LateSignalUsed(w)
    <2>1. unsig' \in [Rings -> BOOLEAN] /\ irq' \in [Threads -> BOOLEAN]
      BY <1>10, UsedType DEF LateSignalUsed
    <2>2. QED
      BY <1>10, <2>1 DEF LateSignalUsed
  <1>11. CASE ProcessFence(w)
    <2>1. unsig' \in [Rings -> BOOLEAN] /\ irq' \in [Threads -> BOOLEAN]
      BY <1>11, UsedType DEF ProcessFence
    <2>2. wpc' \in [Threads -> WorkerPc] /\ wring' \in [Threads -> Rings]
      BY <1>11, StepType DEF ProcessFence
    <2>3. QED
      BY <1>11, <2>1, <2>2 DEF ProcessFence
  <1>12. CASE Fail(w)
    <2>1. lock' \in [Rings -> Threads \cup {Free, Poisoned}]
      BY <1>12 DEF Fail, Unlock
    <2>2. wpc' \in [Threads -> WorkerPc] /\ wring' \in [Threads -> Rings]
      BY <1>12, StepType DEF Fail
    <2>3. irq' \in [Threads -> BOOLEAN]
      BY <1>12, Zenon DEF Fail
    <2>4. QED
      BY <1>12, <2>1, <2>2, <2>3 DEF Fail
  <1>13. CASE Die(w)
    <2>1. wpc' \in [Threads -> WorkerPc] /\ wring' \in [Threads -> Rings]
      BY <1>13, StepType DEF Die
    <2>2. reg' \in [Rings -> SUBSET (Workers \X Fds)] /\ epolls' \in [Rings -> SUBSET Workers]
      BY <1>13 DEF Die
    <2>3. QED
      BY <1>13, <2>1, <2>2 DEF Die
  <1>14. QED
    BY <1>1, <1>2, <1>3, <1>4, <1>5, <1>6, <1>7, <1>8, <1>9, <1>10, <1>11, <1>12, <1>13
       DEF Worker

LEMMA CompleterType ==
  ASSUME TypeOK, NEW c \in Completers, Completer(c)
  PROVE  TypeOK'
  <1> USE DEF TypeOK, Step, ringVars, envVars, handlerVars
  <1>1. CASE CompleteUsed(c)
    <2>1. unsig' \in [Rings -> BOOLEAN] /\ irq' \in [Threads -> BOOLEAN]
      BY <1>1, UsedType DEF CompleteUsed
    <2>2. QED
      BY <1>1, <2>1 DEF CompleteUsed
  <1>2. CASE FenceHandler(c) \/ FenceReturns(c)
    BY <1>2 DEF FenceHandler, FenceReturns
  <1>3. CASE \E r \in Rings : Complete(c, r)
    BY <1>3 DEF Complete
  <1>4. QED
    BY <1>1, <1>2, <1>3 DEF Completer

LEMMA GuardedType ==
  ASSUME TypeOK, NEW t \in Threads, Guarded(t)
  PROVE  TypeOK'
  <1> USE AnyRingType DEF TypeOK, Step, Exit, Return, StepIf, Unlock, ringVars,
                          envVars, handlerVars, threadVars
  <1>1. CASE TryLock(t)
    <2>1. Step(t, "lock") \/ Return(t)
      BY <1>1, Zenon DEF TryLock
    <2>2. wpc' \in [Threads -> WorkerPc] /\ wring' \in [Threads -> Rings]
      BY <2>1, StepType
    <2>3. QED
      BY <1>1, <2>2 DEF TryLock
  <1>2. CASE Lock(t)
    BY <1>2 DEF Lock
  <1>3. CASE Check(t)
    <2>1. Step(t, "process") \/ Return(t)
      BY <1>3, Zenon DEF Check
    <2>2. wpc' \in [Threads -> WorkerPc] /\ wring' \in [Threads -> Rings]
      BY <2>1, StepType
    <2>3. lock' \in [Rings -> Threads \cup {Free, Poisoned}]
      BY <1>3 DEF Check
    <2>4. QED
      BY <1>3, <2>2, <2>3 DEF Check
  <1>4. CASE Signal(t)
    <2>1. unsig' \in [Rings -> BOOLEAN] /\ irq' \in [Threads -> BOOLEAN]
      BY <1>4, UsedType DEF Signal
    <2>2. wpc' \in [Threads -> WorkerPc] /\ wring' \in [Threads -> Rings]
      BY <1>4, StepType DEF Signal
    <2>3. lock' \in [Rings -> Threads \cup {Free, Poisoned}]
      BY <1>4 DEF Signal
    <2>4. QED
      BY <1>4, <2>1, <2>2, <2>3 DEF Signal
  <1>5. CASE LockPoisoned(t)
    <2>1. wpc' \in [Threads -> WorkerPc] /\ wring' \in [Threads -> Rings]
      BY <1>5, StepType DEF LockPoisoned
    <2>2. QED
      BY <1>5, <2>1 DEF LockPoisoned
  <1>6. QED
    BY <1>1, <1>2, <1>3, <1>4, <1>5 DEF Guarded

\* The state of the rings, of the handler and of the threads keeps its type.
THEOREM TypeCorrect == Spec => []TypeOK
  <1>1. Init => TypeOK
    <2> SUFFICES ASSUME Init PROVE TypeOK
      OBVIOUS
    <2>1. wpc \in [Threads -> WorkerPc] /\ wring \in [Threads -> Rings]
      BY AnyRingType DEF Init
    <2>2. reg \in [Rings -> SUBSET (Workers \X Fds)]
      BY DEF Init
    <2>3. /\ enabled \in [Rings -> BOOLEAN] /\ call \in [Rings -> BOOLEAN]
          /\ ready \in [Rings -> BOOLEAN] /\ unsig \in [Rings -> BOOLEAN]
          /\ pending \in [Fds -> BOOLEAN] /\ irq \in [Threads -> BOOLEAN]
      BY Zenon DEF Init
    <2>4. QED
      BY <2>1, <2>2, <2>3, AnyRingType DEF Init, TypeOK
  <1>2. TypeOK /\ [Next]_vars => TypeOK'
    <2> SUFFICES ASSUME TypeOK, [Next]_vars PROVE TypeOK'
      OBVIOUS
    <2>1. CASE Request
      BY <2>1, RequestType
    <2>2. CASE Handler
      BY <2>2, HandlerType
    <2>3. ASSUME NEW w \in Workers, Worker(w) PROVE TypeOK'
      BY <2>3, WorkerType
    <2>4. ASSUME NEW t \in Threads, Guarded(t) PROVE TypeOK'
      BY <2>4, GuardedType
    <2>5. ASSUME NEW c \in Completers, Completer(c) PROVE TypeOK'
      BY <2>5, CompleterType
    <2>6. ASSUME NEW r \in Rings, Publish(r) PROVE TypeOK'
      BY <2>6 DEF TypeOK, Publish, ringVars, handlerVars, threadVars
    <2>7. ASSUME NEW r \in Rings, Kick(r) PROVE TypeOK'
      BY <2>7 DEF TypeOK, Kick, ringVars, handlerVars, threadVars
    <2>8. ASSUME NEW w \in Ports, NEW r \in Serves[w], IoReady(w, r) PROVE TypeOK'
      <3>1. w \in Threads /\ r \in Rings
        BY ConstantsAssumption DEF Threads
      <3>2. QED
        BY <2>8, <3>1 DEF TypeOK, IoReady, ringVars, envVars, handlerVars
    <2>9. CASE UNCHANGED vars
      BY <2>9 DEF TypeOK, vars, ringVars, envVars, handlerVars, threadVars
    <2>10. QED
      BY <2>1, <2>2, <2>3, <2>4, <2>5, <2>6, <2>7, <2>8, <2>9 DEF Next
  <1>3. QED
    BY <1>1, <1>2, PTL DEF Spec

-----------------------------------------------------------------------------
(* Vring::stop keeps its promise. *)

\* What StopInv says of the rings and threads, apart from the handler's place.
stopVars == <<lock, ready, next_avail, base, wpc, wring>>

LEMMA StopFrame ==
  ASSUME StopInv, UNCHANGED stopVars, StopHeld'
  PROVE  StopInv'
  BY DEF StopInv, stopVars, LockHeld, StoppedRingIsQuiet, Processing, BaseIsFinal

LEMMA RequestStop == TypeOK /\ StopInv /\ Request => StopInv'
  <1> SUFFICES ASSUME TypeOK, StopInv, Request PROVE StopInv'
    OBVIOUS
  <1> USE DEF ringVars, envVars, handlerVars, threadVars, stopVars, StopHeld
  <1>1. ASSUME NEW r \in Rings, NEW f \in Fds \cup {NoFd}, SetVringKick(r, f)
        PROVE  StopInv'
    BY <1>1, StopFrame DEF SetVringKick
  <1>2. ASSUME NEW r \in Rings, NEW c \in BOOLEAN, SetVringCall(r, c)
        PROVE  StopInv'
    BY <1>2, StopFrame DEF SetVringCall
  <1>3. ASSUME NEW r \in Rings, NEW e \in BOOLEAN, SetVringEnable(r, e)
        PROVE  StopInv'
    BY <1>3, StopFrame DEF SetVringEnable
  <1>4. ASSUME NEW r \in Rings, NEW b \in 0 .. avail[r], SetVringBase(r, b)
        PROVE  StopInv'
    <2>1. BaseIsFinal'
      BY <1>4 DEF StopInv, BaseIsFinal, SetVringBase, TypeOK
    <2>2. StopHeld'
      BY <1>4 DEF StopInv, SetVringBase, Goto
    <2>3. QED
      BY <1>4, <2>1, <2>2
         DEF StopInv, SetVringBase, LockHeld, StoppedRingIsQuiet, Processing
  <1>5. ASSUME NEW r \in Rings, GetVringBase(r)
        PROVE  StopInv'
    BY <1>5, StopFrame DEF GetVringBase
  <1>6. CASE SetMemTable
    BY <1>6, StopFrame DEF SetMemTable, StopInv
  <1>7. QED
    BY <1>1, <1>2, <1>3, <1>4, <1>5, <1>6 DEF Request

LEMMA HandlerStop == TypeOK /\ StopInv /\ Handler => StopInv'
  <1> SUFFICES ASSUME TypeOK, StopInv, Handler PROVE StopInv'
    OBVIOUS
  <1> USE DEF Goto, Reply, ReplyIf, ringVars, envVars, threadVars, stopVars
  <1>1. CASE IsStarted
    BY <1>1, StopFrame DEF IsStarted, AfterSetKick, StopInv, StopHeld
  <1>2. CASE Rebind
    BY <1>2, StopFrame DEF Rebind, AfterSetKick, UpdatePanics, StopInv, StopHeld
  <1>3. CASE InitializeVring
    BY <1>3, StopFrame DEF InitializeVring, StopHeld
  <1>4. CASE Start
    <2>1. LockHeld' /\ StopHeld' /\ StoppedRingIsQuiet'
      BY <1>4 DEF Start, StopInv, LockHeld, StopHeld, StoppedRingIsQuiet,
                  Processing, TypeOK
    <2>2. BaseIsFinal'
      BY <1>4 DEF Start, StopInv, BaseIsFinal, TypeOK
    <2>3. QED
      BY <2>1, <2>2 DEF StopInv
  <1>5. CASE WatchKick
    BY <1>5, StopFrame DEF WatchKick, UpdatePanics, StopHeld
  <1>6. CASE Activate
    <2>1. \A t \in Threads : wpc'[t] \in LockPc => wpc'[t] = wpc[t]
      BY <1>6 DEF Activate, TypeOK
    <2>2. StopHeld'
      BY <1>6 DEF Activate, StopHeld
    <2>3. QED
      BY <1>6, <2>1, <2>2 DEF Activate, StopInv, LockHeld, StoppedRingIsQuiet,
                              Processing, BaseIsFinal
  <1>7. CASE ActivateReturns
    BY <1>7, StopFrame DEF ActivateReturns, StopHeld
  <1>8. CASE Stop
    BY <1>8, StopFrame DEF Stop, UpdatePanics, StopHeld
  <1>9. CASE Halt
    <2>1. \A t \in Threads : ~ Processing(t, hring)
      BY <1>9, ConstantsAssumption DEF Halt, StopInv, LockHeld, Processing
    <2>2. LockHeld' /\ StopHeld'
      BY <1>9 DEF Halt, StopInv, LockHeld, StopHeld, TypeOK
    <2>3. StoppedRingIsQuiet'
      BY <1>9, <2>1 DEF Halt, StopInv, StoppedRingIsQuiet, Processing, TypeOK
    <2>4. BaseIsFinal'
      BY <1>9 DEF Halt, StopInv, BaseIsFinal, TypeOK
    <2>5. QED
      BY <2>2, <2>3, <2>4 DEF StopInv
  <1>10. CASE ReadBase
    <2>1. BaseIsFinal'
      BY <1>10 DEF ReadBase, StopInv, StopHeld, BaseIsFinal, TypeOK
    <2>2. QED
      BY <1>10, <2>1 DEF ReadBase, StopInv, LockHeld, StopHeld,
                         StoppedRingIsQuiet, Processing
  <1>11. CASE DropKick
    BY <1>11, StopFrame DEF DropKick, StopInv, StopHeld
  <1>12. CASE DropCall
    BY <1>12, StopFrame DEF DropCall, StopHeld
  <1>13. CASE QueueMut
    BY <1>13, StopFrame DEF QueueMut, StopHeld
  <1>14. QED
    BY <1>1, <1>2, <1>3, <1>4, <1>5, <1>6, <1>7, <1>8, <1>9, <1>10, <1>11,
       <1>12, <1>13 DEF Handler

\* A thread that moves outside the critical section, touching no ring.
LEMMA OutsideStop ==
  ASSUME TypeOK, StopInv, NEW t \in Threads, NEW pc \in WorkerPc \ LockPc,
         wpc' = [wpc EXCEPT ![t] = pc],
         \E r \in Rings : wring' = [wring EXCEPT ![t] = r],
         UNCHANGED <<lock, ready, next_avail, base, hpc, hring, hreq>>,
         wpc[t] \notin LockPc
  PROVE  StopInv'
  <1>1. \A u \in Threads : wpc'[u] \in LockPc
                             => u # t /\ wpc'[u] = wpc[u] /\ wring'[u] = wring[u]
    BY DEF TypeOK
  <1>2. QED
    BY <1>1 DEF StopInv, LockHeld, StopHeld, StoppedRingIsQuiet, Processing,
                BaseIsFinal

\* A thread that releases the queue mutex, or leaves it poisoned.
LEMMA ReleaseStop ==
  ASSUME TypeOK, StopInv, NEW t \in Threads, NEW pc \in WorkerPc \ LockPc,
         wpc[t] \in LockPc,
         Unlock(t) \/ lock' = [lock EXCEPT ![wring[t]] = Poisoned],
         wpc' = [wpc EXCEPT ![t] = pc],
         \E r \in Rings : wring' = [wring EXCEPT ![t] = r],
         UNCHANGED <<ready, next_avail, base, hpc, hring, hreq>>
  PROVE  StopInv'
  <1>1. \A u \in Threads : wpc'[u] \in LockPc
                             => u # t /\ wpc'[u] = wpc[u] /\ wring'[u] = wring[u]
    BY DEF TypeOK
  <1>2. LockHeld'
    <2> SUFFICES ASSUME NEW u \in Threads, wpc'[u] \in LockPc
                 PROVE  lock'[wring'[u]] = u
      BY DEF LockHeld
    <2>1. u # t /\ wpc[u] \in LockPc /\ wring'[u] = wring[u]
      BY <1>1
    <2>2. lock[wring[u]] = u /\ lock[wring[t]] = t
      BY <2>1 DEF StopInv, LockHeld
    <2>3. QED
      BY <2>1, <2>2 DEF Unlock, TypeOK
  <1>3. QED
    BY <1>1, <1>2 DEF StopInv, StopHeld, StoppedRingIsQuiet, Processing,
                      BaseIsFinal

\* A thread that moves in the critical section.
LEMMA InsideStop ==
  ASSUME TypeOK, StopInv, NEW t \in Threads, NEW pc \in LockPc,
         wpc[t] \in SessionPc, Step(t, pc),
         UNCHANGED <<lock, ready, next_avail, base, hpc, hring, hreq>>
  PROVE  StopInv'
  <1>1. LockHeld' /\ StoppedRingIsQuiet'
    BY DEF Step, StopInv, LockHeld, StoppedRingIsQuiet, Processing, TypeOK
  <1>2. QED
    BY <1>1 DEF StopInv, StopHeld, BaseIsFinal

\* The forms in which the actions move a thread.
LEMMA MoveForms ==
  ASSUME TypeOK, NEW t \in Threads, NEW pc \in WorkerPc
  PROVE  /\ Step(t, pc) => /\ wpc' = [wpc EXCEPT ![t] = pc]
                           /\ \E r \in Rings : wring' = [wring EXCEPT ![t] = r]
         /\ Exit(t, pc) => /\ wpc' = [wpc EXCEPT ![t] = pc]
                           /\ \E r \in Rings : wring' = [wring EXCEPT ![t] = r]
         /\ Return(t) => \E q \in {"wait", "scan"} :
                           /\ wpc' = [wpc EXCEPT ![t] = q]
                           /\ \E r \in Rings : wring' = [wring EXCEPT ![t] = r]
  <1>1. wring = [wring EXCEPT ![t] = wring[t]] /\ wring[t] \in Rings
    BY DEF TypeOK
  <1>2. QED
    BY <1>1, AnyRingType DEF Step, Exit, Return

LEMMA WorkerStop ==
  ASSUME TypeOK, StopInv, NEW w \in Workers, Worker(w)
  PROVE  StopInv'
  <1> USE DEF ringVars, envVars, handlerVars, threadVars
  <1>1. CASE RegisterLoad(w)
    <2>1. \E pc \in {"wait", "ctl"} :
            /\ wpc' = [wpc EXCEPT ![w] = pc]
            /\ \E r \in Rings : wring' = [wring EXCEPT ![w] = r]
      BY <1>1, AnyRingType DEF RegisterLoad, Return, Exit, TypeOK
    <2>2. QED
      BY <1>1, <2>1, OutsideStop DEF RegisterLoad
  <1>2. CASE RegisterCtl(w)
    BY <1>2, OutsideStop, MoveForms DEF RegisterCtl
  <1>3. CASE AddEpoll(w)
    BY <1>3, OutsideStop, MoveForms DEF AddEpoll
  <1>4. CASE Wait(w)
    BY <1>4, StopFrame DEF Wait, stopVars, StopInv, StopHeld
  <1>5. CASE NextEvent(w)
    <2>1. \E r \in Rings : wring' = [wring EXCEPT ![w] = r]
      BY <1>5 DEF NextEvent, TypeOK
    <2>2. QED
      BY <1>5, <2>1, OutsideStop DEF NextEvent
  <1>6. CASE ReadKick(w)
    BY <1>6, OutsideStop, MoveForms DEF ReadKick
  <1>7. CASE KickEnabled(w)
    <2>1. Step(w, "try") \/ Return(w)
      BY <1>7, Zenon DEF KickEnabled, StepIf
    <2>2. QED
      BY <1>7, <2>1, OutsideStop, MoveForms DEF KickEnabled
  <1>8. CASE Pop(w)
    <2>1. ready[wring[w]] /\ wring[w] \in Rings
      BY <1>8 DEF Pop, StopInv, StoppedRingIsQuiet, Processing, TypeOK
    <2>2. BaseIsFinal'
      BY <1>8, <2>1 DEF Pop, StopInv, BaseIsFinal, TypeOK
    <2>3. PICK pc \in SessionPc : Step(w, pc)
      BY <1>8, Zenon DEF Pop
    <2>4. LockHeld' /\ StoppedRingIsQuiet'
      BY <1>8, <2>3 DEF Pop, Step, StopInv, LockHeld, StoppedRingIsQuiet, Processing,
                        TypeOK
    <2>5. QED
      BY <1>8, <2>2, <2>4 DEF Pop, StopInv, StopHeld
  <1>9. CASE Drained(w)
    <2>1. CASE Step(w, "signal") /\ UNCHANGED lock
      BY <1>9, <2>1, InsideStop DEF Drained
    <2>2. CASE (Step(w, "late") \/ Return(w)) /\ Unlock(w)
      BY <1>9, <2>2, ReleaseStop, MoveForms DEF Drained
    <2>3. QED
      BY <1>9, <2>1, <2>2, Zenon DEF Drained
  <1>10. CASE LateSignalUsed(w)
    BY <1>10, OutsideStop, MoveForms DEF LateSignalUsed
  <1>11. CASE ProcessFence(w)
    BY <1>11, InsideStop DEF ProcessFence
  <1>12. CASE Fail(w)
    BY <1>12, ReleaseStop, MoveForms DEF Fail
  <1>13. CASE Die(w)
    BY <1>13, OutsideStop, MoveForms DEF Die
  <1>14. QED
    BY <1>1, <1>2, <1>3, <1>4, <1>5, <1>6, <1>7, <1>8, <1>9, <1>10, <1>11, <1>12, <1>13
       DEF Worker

LEMMA CompleterStop ==
  ASSUME TypeOK, StopInv, NEW c \in Completers, Completer(c)
  PROVE  StopInv'
  <1> USE DEF ringVars, envVars, handlerVars
  <1>1. CASE CompleteUsed(c)
    BY <1>1, InsideStop DEF CompleteUsed
  <1>2. CASE FenceHandler(c) \/ FenceReturns(c)
    BY <1>2, OutsideStop, MoveForms DEF FenceHandler, FenceReturns
  <1>3. CASE \E r \in Rings : Complete(c, r)
    BY <1>3, OutsideStop DEF Complete
  <1>4. QED
    BY <1>1, <1>2, <1>3 DEF Completer

LEMMA GuardedStop ==
  ASSUME TypeOK, StopInv, NEW t \in Threads, Guarded(t)
  PROVE  StopInv'
  <1> USE DEF ringVars, envVars, handlerVars, threadVars
  <1>1. CASE TryLock(t)
    <2>1. Step(t, "lock") \/ Return(t)
      BY <1>1, Zenon DEF TryLock, StepIf
    <2>2. QED
      BY <1>1, <2>1, OutsideStop, MoveForms DEF TryLock
  <1>2. CASE Lock(t)
    <2>1. LockHeld'
      <3> SUFFICES ASSUME NEW u \in Threads, wpc'[u] \in LockPc
                   PROVE  lock'[wring'[u]] = u
        BY DEF LockHeld
      <3>1. wring' = wring /\ wring[t] \in Rings /\ wring[u] \in Rings
        BY <1>2 DEF Lock, Step, TypeOK
      <3>2. CASE u = t
        BY <1>2, <3>1, <3>2 DEF Lock, TypeOK
      <3>3. CASE u # t
        <4>1. lock[wring[u]] = u
          BY <1>2, <3>3 DEF Lock, Step, StopInv, LockHeld, TypeOK
        <4>2. wring[u] # wring[t]
          BY <1>2, <4>1, ConstantsAssumption DEF Lock
        <4>3. QED
          BY <1>2, <3>1, <4>1, <4>2 DEF Lock, TypeOK
      <3>4. QED
        BY <3>2, <3>3
    <2>2. StoppedRingIsQuiet'
      BY <1>2 DEF Lock, Step, StopInv, StoppedRingIsQuiet, Processing, TypeOK
    <2>3. QED
      BY <1>2, <2>1, <2>2 DEF Lock, StopInv, StopHeld, BaseIsFinal
  <1>3. CASE Check(t)
    <2>1. CASE enabled[wring[t]] /\ ready[wring[t]] /\ Step(t, "process") /\ UNCHANGED lock
      <3>1. LockHeld' /\ StoppedRingIsQuiet'
        BY <1>3, <2>1 DEF Check, Step, StopInv, LockHeld, StoppedRingIsQuiet,
                          Processing, TypeOK
      <3>2. QED
        BY <1>3, <3>1 DEF Check, StopInv, StopHeld, BaseIsFinal
    <2>2. CASE Return(t) /\ Unlock(t)
      BY <1>3, <2>2, ReleaseStop, MoveForms DEF Check
    <2>3. QED
      BY <1>3, <2>1, <2>2, Zenon DEF Check
  <1>4. CASE Signal(t)
    <2>1. CASE Step(t, "process") /\ UNCHANGED lock
      BY <1>4, <2>1, InsideStop DEF Signal
    <2>2. CASE Return(t) /\ Unlock(t)
      BY <1>4, <2>2, ReleaseStop, MoveForms DEF Signal
    <2>3. QED
      BY <1>4, <2>1, <2>2, Zenon DEF Signal
  <1>5. CASE LockPoisoned(t)
    <2>1. PICK pc \in EndedPc : Exit(t, pc)
      BY <1>5 DEF LockPoisoned
    <2>2. QED
      BY <1>5, <2>1, OutsideStop, MoveForms DEF LockPoisoned
  <1>6. QED
    BY <1>1, <1>2, <1>3, <1>4, <1>5 DEF Guarded

LEMMA StopInductive == TypeOK /\ StopInv /\ [Next]_vars => StopInv'
  <1> SUFFICES ASSUME TypeOK, StopInv, [Next]_vars PROVE StopInv'
    OBVIOUS
  <1> USE DEF ringVars, envVars, handlerVars, threadVars
  <1>1. CASE Request
    BY <1>1, RequestStop
  <1>2. CASE Handler
    BY <1>2, HandlerStop
  <1>3. ASSUME NEW w \in Workers, Worker(w) PROVE StopInv'
    BY <1>3, WorkerStop
  <1>4. ASSUME NEW t \in Threads, Guarded(t) PROVE StopInv'
    BY <1>4, GuardedStop
  <1>5. ASSUME NEW c \in Completers, Completer(c) PROVE StopInv'
    BY <1>5, CompleterStop
  <1>6. ASSUME NEW r \in Rings, Publish(r) PROVE StopInv'
    BY <1>6, StopFrame DEF Publish, stopVars, StopInv, StopHeld
  <1>7. ASSUME NEW r \in Rings, Kick(r) PROVE StopInv'
    BY <1>7, StopFrame DEF Kick, stopVars, StopInv, StopHeld
  <1>8. ASSUME NEW w \in Ports, NEW r \in Serves[w], IoReady(w, r) PROVE StopInv'
    <2>1. w \in Threads /\ r \in Rings
      BY ConstantsAssumption DEF Threads
    <2>2. QED
      BY <1>8, <2>1, OutsideStop DEF IoReady
  <1>9. CASE UNCHANGED vars
    BY <1>9, StopFrame DEF vars, stopVars, StopInv, StopHeld
  <1>10. QED
    BY <1>1, <1>2, <1>3, <1>4, <1>5, <1>6, <1>7, <1>8, <1>9 DEF Next

LEMMA StopInvariant == Spec => []StopInv
  <1>1. Init => StopInv
    BY DEF Init, StopInv, LockHeld, StopHeld, StoppedRingIsQuiet, Processing,
           BaseIsFinal
  <1>2. QED
    BY <1>1, StopInductive, TypeCorrect, PTL DEF Spec

\* The comment in Vring::stop, for any number of threads and rings: between
\* set_ready(false) and the next Vring::start no thread processes the ring.
THEOREM StopIsQuiet == Spec => []StoppedRingIsQuiet
  BY StopInvariant, PTL DEF StopInv

\* The index GET_VRING_BASE answers is final: no chain is popped after it.
THEOREM BaseAnswerIsFinal == Spec => []BaseIsFinal
  BY StopInvariant, PTL DEF StopInv

-----------------------------------------------------------------------------
(* A stopped ring owes no interrupt. *)

SignalInv == SignalOwed /\ Dormant

\* The step leaves what SignalInv says as it is, or better.
LEMMA SignalFrame ==
  ASSUME SignalInv, UNCHANGED <<call, wpc, wring, irq, activated>>,
         \A r \in Rings : unsig'[r] => unsig[r]
  PROVE  SignalInv'
  BY DEF SignalInv, SignalOwed, Failed, Dormant, Processing

\* Nobody comes back from the end.
LEMMA FailedForEver ==
  ASSUME TypeOK, NEW t \in Threads, NEW pc \in WorkerPc,
         wpc[t] \notin EndedPc \/ pc \in EndedPc, wpc' = [wpc EXCEPT ![t] = pc]
  PROVE  /\ Failed => Failed'
         /\ pc \in EndedPc => Failed'
  BY DEF Failed, TypeOK

\* A step of a thread outside the critical section, or that leaves it without
\* having used a chain, or one with which the thread ends.
LEMMA SignalMove ==
  ASSUME TypeOK, SignalInv, NEW t \in Threads, NEW pc \in WorkerPc,
         wpc' = [wpc EXCEPT ![t] = pc], wpc[t] # "unborn",
         wpc[t] \notin EndedPc \/ pc \in EndedPc,
         \E r \in Rings : wring' = [wring EXCEPT ![t] = r],
         \E b \in BOOLEAN : irq' = [irq EXCEPT ![t] = b],
         wpc[t] \notin SessionPc \/ ~ irq[t] \/ ~ EventIdx \/ pc \in EndedPc,
         UNCHANGED <<call, activated>>,
         \A r \in Rings : unsig'[r] => unsig[r]
  PROVE  SignalInv'
  <1>1. \A u \in Threads \ {t} :
          wpc'[u] = wpc[u] /\ wring'[u] = wring[u] /\ irq'[u] = irq[u]
    BY DEF TypeOK
  <1>2. SignalOwed'
    <2> SUFFICES ASSUME EventIdx, ~ Failed', NEW r \in Rings, unsig'[r]
                 PROVE  call[r] /\ \E u \in Threads : Processing(u, r)' /\ irq'[u]
      BY DEF SignalOwed
    <2>1. ~ Failed /\ pc \notin EndedPc
      BY FailedForEver
    <2>2. PICK u \in Threads : Processing(u, r) /\ irq[u] /\ call[r]
      BY <2>1 DEF SignalInv, SignalOwed
    <2>3. u # t
      BY <2>1, <2>2 DEF Processing
    <2>4. QED
      BY <1>1, <2>2, <2>3 DEF Processing
  <1>3. Dormant'
    BY <1>1 DEF SignalInv, Dormant, TypeOK
  <1>4. QED
    BY <1>2, <1>3 DEF SignalInv

\* A step inside the critical section.
LEMMA SignalInside ==
  ASSUME TypeOK, SignalInv, NEW t \in Threads, NEW pc \in SessionPc,
         wpc[t] \in SessionPc, Step(t, pc), UNCHANGED <<irq, unsig, call, activated>>
  PROVE  SignalInv'
  <1>1. wpc' = [wpc EXCEPT ![t] = pc] /\ UNCHANGED wring
    BY DEF Step
  <1>2. Failed => Failed'
    BY <1>1, FailedForEver
  <1>3. \A u \in Threads, r \in Rings : Processing(u, r) => Processing(u, r)'
    BY <1>1 DEF Processing, TypeOK
  <1>4. QED
    BY <1>1, <1>2, <1>3 DEF SignalInv, SignalOwed, Dormant, TypeOK

LEMMA IrqKept ==
  ASSUME TypeOK, NEW t \in Threads
  PROVE  UNCHANGED irq => \E b \in BOOLEAN : irq' = [irq EXCEPT ![t] = b]
  <1>1. irq = [irq EXCEPT ![t] = irq[t]] /\ irq[t] \in BOOLEAN
    BY Zenon DEF TypeOK
  <1>2. QED
    BY <1>1

LEMMA RequestSignal == TypeOK /\ SignalInv /\ Request => SignalInv'
  <1> SUFFICES ASSUME TypeOK, SignalInv, Request PROVE SignalInv'
    OBVIOUS
  <1> USE DEF ringVars, envVars, handlerVars, threadVars
  <1>1. ASSUME NEW r \in Rings, NEW f \in Fds \cup {NoFd}, SetVringKick(r, f)
        PROVE  SignalInv'
    BY <1>1, SignalFrame DEF SetVringKick
  <1>2. ASSUME NEW r \in Rings, NEW c \in BOOLEAN, SetVringCall(r, c)
        PROVE  SignalInv'
    BY <1>2 DEF SetVringCall, SignalInv, SignalOwed, Failed, Dormant, Processing, TypeOK
  <1>3. ASSUME NEW r \in Rings, NEW e \in BOOLEAN, SetVringEnable(r, e)
        PROVE  SignalInv'
    BY <1>3, SignalFrame DEF SetVringEnable
  <1>4. ASSUME NEW r \in Rings, NEW b \in 0 .. avail[r], SetVringBase(r, b)
        PROVE  SignalInv'
    BY <1>4, SignalFrame DEF SetVringBase
  <1>5. ASSUME NEW r \in Rings, GetVringBase(r)
        PROVE  SignalInv'
    BY <1>5, SignalFrame DEF GetVringBase
  <1>6. CASE SetMemTable
    BY <1>6, SignalFrame DEF SetMemTable
  <1>7. QED
    BY <1>1, <1>2, <1>3, <1>4, <1>5, <1>6 DEF Request

LEMMA HandlerSignal == TypeOK /\ StopInv /\ SignalInv /\ Handler => SignalInv'
  <1> SUFFICES ASSUME TypeOK, StopInv, SignalInv, Handler PROVE SignalInv'
    OBVIOUS
  <1> USE DEF ringVars, envVars, threadVars
  <1>1. CASE QueueMut \/ IsStarted \/ Rebind \/ InitializeVring \/ Start \/ WatchKick
             \/ ActivateReturns \/ Stop \/ Halt \/ ReadBase \/ DropKick
    BY <1>1, SignalFrame
       DEF QueueMut, IsStarted, Rebind, InitializeVring, Start, WatchKick, ActivateReturns,
           Stop, Halt, ReadBase, DropKick
  <1>2. CASE Activate
    <2>1. CASE activated'  = activated /\ UNCHANGED wpc
      BY <1>2, <2>1, SignalFrame DEF Activate
    <2>2. CASE ~ activated /\ activated'
      <3>1. \A t \in Threads : Processing(t, wring[t]) => t \notin Workers
        BY <2>2 DEF SignalInv, Dormant, Processing
      <3>2. \A t \in Threads \ Workers : wpc'[t] = wpc[t]
        BY <1>2 DEF Activate, TypeOK
      <3>3. Failed => Failed'
        BY <2>2, <3>2 DEF SignalInv, Dormant, Failed
      <3>4. QED
        BY <1>2, <2>2, <3>1, <3>2, <3>3
           DEF Activate, SignalInv, SignalOwed, Dormant, Processing
    <2>3. QED
      BY <1>2, <2>1, <2>2 DEF Activate
  <1>3. CASE DropCall
    <2>1. (EventIdx /\ ~ Failed => ~ unsig[hring]) /\ hring \in Rings
      BY <1>3 DEF DropCall, StopInv, StopHeld, StoppedRingIsQuiet, SignalInv,
                  SignalOwed, TypeOK
    <2>2. QED
      BY <1>3, <2>1 DEF DropCall, SignalInv, SignalOwed, Failed, Dormant, Processing, TypeOK
  <1>4. QED
    BY <1>1, <1>2, <1>3 DEF Handler

\* add_used in the critical section.
LEMMA UsedSignal ==
  ASSUME TypeOK, SignalInv, NEW t \in Threads, wpc[t] \in SessionPc, Used(t),
         NEW pc \in SessionPc, Step(t, pc), UNCHANGED <<call, activated>>
  PROVE  SignalInv'
  <1>0. wpc' = [wpc EXCEPT ![t] = pc] /\ UNCHANGED wring
    BY DEF Step
  <1>1. SignalOwed'
    <2> SUFFICES ASSUME EventIdx, ~ Failed', NEW r \in Rings, unsig'[r]
                 PROVE  call[r] /\ \E u \in Threads : Processing(u, r)' /\ irq'[u]
      BY DEF SignalOwed
    <2>0. ~ Failed
      BY <1>0, FailedForEver
    <2>1. CASE r = wring[t]
      <3>1. irq'[t] /\ Processing(t, r)'
        BY <1>0, <2>1 DEF Used, Processing, TypeOK
      <3>2. call[r]
        BY <2>0, <2>1 DEF Used, SignalInv, SignalOwed, TypeOK
      <3>3. QED
        BY <3>1, <3>2
    <2>2. CASE r # wring[t]
      <3>1. PICK u \in Threads : Processing(u, r) /\ irq[u] /\ call[r]
        BY <2>0, <2>2 DEF Used, SignalInv, SignalOwed, TypeOK
      <3>2. u # t
        BY <2>2, <3>1 DEF Processing
      <3>3. Processing(u, r)' /\ irq'[u]
        BY <1>0, <3>1, <3>2 DEF Used, Processing, TypeOK
      <3>4. QED
        BY <3>1, <3>3
    <2>3. QED
      BY <2>1, <2>2
  <1>2. Dormant'
    BY <1>0 DEF SignalInv, Dormant, TypeOK
  <1>3. QED
    BY <1>1, <1>2 DEF SignalInv

LEMMA SignalUsedClears ==
  ASSUME TypeOK, NEW t \in Threads, SignalUsed(t)
  PROVE  /\ \A r \in Rings : unsig'[r] => unsig[r]
         /\ call[wring[t]] => ~ unsig'[wring[t]]
         /\ irq' = [irq EXCEPT ![t] = FALSE]
  BY DEF SignalUsed, TypeOK

LEMMA WorkerSignal ==
  ASSUME TypeOK, SignalInv, Ports = {}, NEW w \in Workers, Worker(w)
  PROVE  SignalInv'
  <1> USE DEF ringVars, envVars, handlerVars
  <1>1. CASE RegisterLoad(w)
    <2>1. \E pc \in {"wait", "ctl"} :
            /\ wpc' = [wpc EXCEPT ![w] = pc]
            /\ \E r \in Rings : wring' = [wring EXCEPT ![w] = r]
      BY <1>1, AnyRingType DEF RegisterLoad, Return, Exit, TypeOK
    <2>2. \E b \in BOOLEAN : irq' = [irq EXCEPT ![w] = b]
      BY <1>1, IrqKept DEF RegisterLoad
    <2>3. UNCHANGED <<call, unsig, activated>> /\ wpc[w] = "load"
      BY <1>1 DEF RegisterLoad
    <2>4. QED
      BY <2>1, <2>2, <2>3, SignalMove
  <1>2. CASE RegisterCtl(w) \/ AddEpoll(w) \/ ReadKick(w)
    BY <1>2, SignalMove, MoveForms, IrqKept DEF RegisterCtl, AddEpoll, ReadKick
  <1>3. CASE Wait(w)
    BY <1>3, SignalFrame DEF Wait
  <1>4. CASE NextEvent(w)
    <2>1. \E r \in Rings : wring' = [wring EXCEPT ![w] = r]
      BY <1>4 DEF NextEvent, TypeOK
    <2>2. QED
      BY <1>4, <2>1, SignalMove, IrqKept DEF NextEvent
  <1>5. CASE KickEnabled(w)
    <2>1. Step(w, "try") \/ Return(w)
      BY <1>5, Zenon DEF KickEnabled, StepIf
    <2>2. QED
      BY <1>5, <2>1, SignalMove, MoveForms, IrqKept DEF KickEnabled
  <1>6. CASE Pop(w)
    <2>1. CASE Used(w) /\ Step(w, "process")
      BY <1>6, <2>1, UsedSignal DEF Pop
    <2>2. CASE (Step(w, "fence") \/ Step(w, "broken")) /\ UNCHANGED <<unsig, irq>>
      BY <1>6, <2>2, SignalInside DEF Pop
    <2>3. QED
      BY <1>6, <2>1, <2>2, Zenon DEF Pop
  <1>7. CASE Drained(w)
    <2>1. CASE Step(w, "signal") /\ UNCHANGED irq
      BY <1>7, <2>1, SignalInside DEF Drained
    <2>2. CASE /\ ~ irq[w] \/ ~ EventIdx
               /\ Return(w) /\ irq' = [irq EXCEPT ![w] = FALSE]
      BY <1>7, <2>2, SignalMove, MoveForms DEF Drained
    <2>3. QED
      BY <1>7, <2>1, <2>2, Zenon DEF Drained
  <1>8. CASE LateSignalUsed(w)
    <2>1. \E b \in BOOLEAN : irq' = [irq EXCEPT ![w] = b]
      BY <1>8, SignalUsedClears DEF LateSignalUsed
    <2>2. \A r \in Rings : unsig'[r] => unsig[r]
      BY <1>8, SignalUsedClears DEF LateSignalUsed
    <2>3. \E q \in {"wait", "scan"} :
            /\ wpc' = [wpc EXCEPT ![w] = q]
            /\ \E r \in Rings : wring' = [wring EXCEPT ![w] = r]
      BY <1>8, MoveForms DEF LateSignalUsed
    <2>4. QED
      BY <1>8, <2>1, <2>2, <2>3, SignalMove DEF LateSignalUsed
  <1>9. CASE ProcessFence(w)
    <2>1. CASE Used(w)
      BY <1>9, <2>1, UsedSignal DEF ProcessFence
    <2>2. CASE UNCHANGED <<unsig, irq>>
      BY <1>9, <2>2, SignalInside DEF ProcessFence
    <2>3. QED
      BY <1>9, <2>1, <2>2 DEF ProcessFence
  <1>10. CASE Fail(w)
    BY <1>10, SignalMove, MoveForms DEF Fail
  <1>11. CASE Die(w)
    BY <1>11, SignalMove, MoveForms, IrqKept DEF Die
  <1>12. QED
    BY <1>1, <1>2, <1>3, <1>4, <1>5, <1>6, <1>7, <1>8, <1>9, <1>10, <1>11 DEF Worker

LEMMA GuardedSignal ==
  ASSUME TypeOK, SignalInv, NEW t \in Threads, Guarded(t)
  PROVE  SignalInv'
  <1> USE DEF ringVars, envVars, handlerVars
  <1>1. CASE TryLock(t)
    <2>1. Step(t, "lock") \/ Return(t)
      BY <1>1, Zenon DEF TryLock, StepIf
    <2>2. QED
      BY <1>1, <2>1, SignalMove, MoveForms, IrqKept DEF TryLock
  <1>2. CASE Lock(t)
    BY <1>2, SignalMove, MoveForms, IrqKept DEF Lock
  <1>3. CASE Check(t)
    <2>1. Step(t, "process") \/ Return(t)
      BY <1>3, Zenon DEF Check
    <2>2. QED
      BY <1>3, <2>1, SignalMove, MoveForms, IrqKept DEF Check
  <1>4. CASE Signal(t)
    <2>0. PICK q \in {"wait", "scan", "process"} :
            /\ wpc' = [wpc EXCEPT ![t] = q]
            /\ \E r \in Rings : wring' = [wring EXCEPT ![t] = r]
      BY <1>4, MoveForms DEF Signal
    <2>1. SignalOwed'
      <3> SUFFICES ASSUME EventIdx, ~ Failed', NEW r \in Rings, unsig'[r]
                   PROVE  call[r] /\ \E u \in Threads : Processing(u, r)' /\ irq'[u]
        BY <1>4 DEF SignalOwed, Signal
      <3>0. ~ Failed
        BY <1>4, <2>0, FailedForEver DEF Signal
      <3>1. unsig[r] /\ r # wring[t]
        BY <1>4, <3>0, SignalUsedClears DEF Signal, SignalInv, SignalOwed
      <3>2. PICK u \in Threads : Processing(u, r) /\ irq[u] /\ call[r]
        BY <3>0, <3>1 DEF SignalInv, SignalOwed
      <3>3. u # t
        BY <3>1, <3>2 DEF Processing
      <3>4. Processing(u, r)' /\ irq'[u]
        BY <1>4, <2>0, <3>2, <3>3, SignalUsedClears DEF Signal, Processing, TypeOK
      <3>5. QED
        BY <3>2, <3>4
    <2>2. Dormant'
      BY <1>4, <2>0 DEF Signal, SignalInv, Dormant, TypeOK
    <2>3. QED
      BY <2>1, <2>2 DEF SignalInv
  <1>5. CASE LockPoisoned(t)
    <2>1. PICK pc \in EndedPc : Exit(t, pc)
      BY <1>5 DEF LockPoisoned
    <2>2. QED
      BY <1>5, <2>1, SignalMove, MoveForms, IrqKept DEF LockPoisoned
  <1>6. QED
    BY <1>1, <1>2, <1>3, <1>4, <1>5 DEF Guarded

LEMMA CompleterSignal ==
  ASSUME TypeOK, SignalInv, NEW c \in Completers, Completer(c)
  PROVE  SignalInv'
  <1> USE DEF ringVars, envVars, handlerVars
  <1>1. CASE CompleteUsed(c)
    BY <1>1, UsedSignal DEF CompleteUsed
  <1>2. CASE FenceHandler(c) \/ FenceReturns(c)
    BY <1>2, SignalMove, MoveForms, IrqKept DEF FenceHandler, FenceReturns
  <1>3. ASSUME NEW r \in Rings, Complete(c, r)  PROVE SignalInv'
    <2>1. wpc' = [wpc EXCEPT ![c] = "try"] /\ wring' = [wring EXCEPT ![c] = r]
      BY <1>3 DEF Complete
    <2>2. wpc[c] = "scan" /\ UNCHANGED <<call, activated, unsig, irq>>
      BY <1>3 DEF Complete
    <2>3. QED
      BY <2>1, <2>2, SignalMove, IrqKept
  <1>4. QED
    BY <1>1, <1>2, <1>3 DEF Completer

LEMMA SignalInductive ==
  ASSUME Ports = {}
  PROVE  TypeOK /\ StopInv /\ SignalInv /\ [Next]_vars => SignalInv'
  <1> SUFFICES ASSUME TypeOK, StopInv, SignalInv, [Next]_vars PROVE SignalInv'
    OBVIOUS
  <1> USE DEF ringVars, envVars, handlerVars, threadVars
  <1>1. CASE Request
    BY <1>1, RequestSignal
  <1>2. CASE Handler
    BY <1>2, HandlerSignal
  <1>3. ASSUME NEW w \in Workers, Worker(w) PROVE SignalInv'
    BY <1>3, WorkerSignal
  <1>4. ASSUME NEW t \in Threads, Guarded(t) PROVE SignalInv'
    BY <1>4, GuardedSignal
  <1>5. ASSUME NEW c \in Completers, Completer(c) PROVE SignalInv'
    BY <1>5, CompleterSignal
  <1>6. ASSUME NEW r \in Rings, Publish(r) \/ Kick(r) PROVE SignalInv'
    BY <1>6, SignalFrame DEF Publish, Kick
  <1>7. CASE UNCHANGED vars
    BY <1>7, SignalFrame DEF vars
  <1>8. QED
    BY <1>1, <1>2, <1>3, <1>4, <1>5, <1>6, <1>7 DEF Next

\* With EVENT_IDX, and as long as no device thread ended on a chain, GET_VRING_BASE
\* never takes the call eventfd away from a used chain the driver was not told
\* about, if there are no ports, which signal after they released the queue.
THEOREM StopOwesNoSignal ==
  ASSUME Ports = {}
  PROVE  Spec => []StoppedRingIsSignalled
  <1>1. Init => SignalInv
    BY DEF Init, SignalInv, SignalOwed, Dormant
  <1>2. TypeOK /\ StopInv /\ SignalInv /\ [Next]_vars => SignalInv'
    BY SignalInductive
  <1>3. StopInv /\ SignalInv => StoppedRingIsSignalled
    BY DEF StopInv, StoppedRingIsQuiet, SignalInv, SignalOwed, StoppedRingIsSignalled
  <1>4. QED
    BY <1>1, <1>2, <1>3, TypeCorrect, StopInvariant, PTL DEF Spec
-----------------------------------------------------------------------------
(* The epolls and the kicks agree when activation waits for the workers. *)

LEMMA WatchNone == \A ws : Watch(ws, NoFd) = {}
  BY DEF Watch

LEMMA WatchUnion ==
  ASSUME NEW ws, NEW vs, NEW f
  PROVE  Watch(ws \cup vs, f) = Watch(ws, f) \cup Watch(vs, f)
  BY DEF Watch

LEMMA WatchMember ==
  ASSUME NEW ws, NEW w \in ws, NEW f
  PROVE  Watch({w}, f) \subseteq Watch(ws, f)
  BY DEF Watch

LEMMA WatchApart ==
  ASSUME NEW ws, NEW vs, NEW f, NEW g, f = NoFd \/ f # g
  PROVE  Watch(ws, f) \cap Watch(vs, g) = {}
  BY DEF Watch

\* update_epolls finds the old kick, and no other, in the epolls it knows: every
\* epoll_ctl succeeds and the new kick is there afterwards.
LEMMA UpdateSucceeds ==
  ASSUME NEW r \in Rings, NEW old, NEW new, new = NoFd \/ new # old,
         reg[r] = Watch(epolls[r], old)
  PROVE  ~ UpdatePanics(r, old, new)
  <1> SUFFICES ASSUME NEW w \in epolls[r] PROVE ~ CtlFails(r, w, old, new)
    BY DEF UpdatePanics
  <1>1. Watch({w}, old) \subseteq reg[r]
    BY WatchMember
  <1>2. Watch({w}, new) \cap reg[r] = {}
    BY WatchApart
  <1>3. QED
    BY <1>1, <1>2 DEF CtlFails

LEMMA UpdateExact ==
  ASSUME TypeOK, NEW r \in Rings, NEW old, NEW new,
         reg[r] = Watch(epolls[r], old), UpdateEpolls(r, old, new)
  PROVE  reg' = [reg EXCEPT ![r] = Watch(epolls[r], new)]
  <1>1. (reg[r] \ Watch(epolls[r], old)) \cup Watch(epolls[r], new)
          = Watch(epolls[r], new)
    OBVIOUS
  <1>2. QED
    BY <1>1, Zenon DEF UpdateEpolls

\* While no worker registers, the epolls the ring knows are the ones that hold its
\* kick.
LEMMA QuietWatchers ==
  ASSUME RegisterHeld, hpc # "activating"
  PROVE  \A r \in Rings : Watchers(r) = epolls[r]
  BY DEF RegisterHeld, Watchers

\* A step of a thread that is not registering, of the driver, or of a request that
\* touches neither kicks nor epolls.
LEMMA WatchFrame ==
  ASSUME WatchInv,
         UNCHANGED <<epolls, kick, reg, ready, hpc, hring, hreq, hold>>,
         \A w \in Workers :
            \/ wpc'[w] = wpc[w] /\ wring'[w] = wring[w] /\ wfd'[w] = wfd[w]
            \/ wpc[w] \notin RegPc /\ wpc'[w] \notin RegPc
  PROVE  WatchInv'
  <1>1. \A r : Watchers(r)' = Watchers(r)
    BY DEF Watchers
  <1>2. \A r : Registered(r)' = Registered(r)
    BY DEF Registered
  <1>3. RegisterHeld'
    BY DEF WatchInv, RegisterHeld
  <1>4. RegInv => RegInv'
    BY <1>1, <1>2 DEF RegInv
  <1>5. QED
    BY <1>3, <1>4 DEF WatchInv, EpollCtlNeverFails, StoppedHasNoKick, NewKick

\* What a request's step has to show: no worker is registering before or after it.
LEMMA WatchRequest ==
  ASSUME WatchInv, hpc \notin {"activating", "ebadf", "poisoned"},
         UNCHANGED <<epolls, wpc, wring, wfd>>,
         hpc' # "panicked",
         \A r \in Rings : reg'[r] = Watch(epolls[r], Registered(r)'),
         StoppedHasNoKick', NewKick'
  PROVE  WatchInv'
  <1>1. \A w \in Workers : wpc[w] \notin RegPc
    BY DEF WatchInv, RegisterHeld
  <1>2. RegisterHeld'
    BY <1>1 DEF RegisterHeld
  <1>3. \A r \in Rings : Watchers(r)' = epolls[r]
    BY <1>1 DEF Watchers
  <1>4. RegInv'
    BY <1>3 DEF RegInv
  <1>5. QED
    BY <1>2, <1>4 DEF WatchInv, EpollCtlNeverFails

\* The handler panics on a poisoned queue mutex.
LEMMA WatchPoisoned ==
  ASSUME WatchInv, hpc # "activating", hpc' = "poisoned", UNCHANGED <<wpc, wfd, kick, wring>>
  PROVE  WatchInv'
  BY DEF WatchInv, EpollCtlNeverFails, RegisterHeld

\* What WatchInv says between two steps of a request.
LEMMA WatchFacts ==
  ASSUME WatchInv, hpc \notin {"activating", "ebadf", "poisoned"}
  PROVE  /\ \A r \in Rings : reg[r] = Watch(epolls[r], Registered(r))
         /\ StoppedHasNoKick /\ NewKick
  BY QuietWatchers DEF WatchInv, RegInv

LEMMA RequestWatch == TypeOK /\ WatchInv /\ Request => WatchInv'
  <1> SUFFICES ASSUME TypeOK, WatchInv, Request PROVE WatchInv'
    OBVIOUS
  <1> USE DEF ringVars, envVars, handlerVars, threadVars
  <1>1. ASSUME NEW r \in Rings, NEW f \in Fds \cup {NoFd}, SetVringKick(r, f)
        PROVE  WatchInv'
    <2>1. hpc = "idle" /\ hpc' = "swapped" /\ hring' = r /\ hreq' = "kick"
          /\ hold' = kick[r] /\ kick' = [kick EXCEPT ![r] = f]
          /\ UNCHANGED <<epolls, wpc, wring, wfd, reg, ready>>
      BY <1>1 DEF SetVringKick
    <2>2. \A q \in Rings : Registered(q) = kick[q] /\ Registered(q)' = kick[q]
      BY <2>1 DEF Registered, TypeOK
    <2>3. StoppedHasNoKick'
      BY <2>1, WatchFacts DEF StoppedHasNoKick, TypeOK
    <2>4. NewKick'
      BY <1>1, <2>1 DEF SetVringKick, NewKick, Fresh, TypeOK
    <2>5. QED
      BY <2>1, <2>2, <2>3, <2>4, WatchFacts, WatchRequest
  <1>2. ASSUME NEW r \in Rings, NEW c \in BOOLEAN, SetVringCall(r, c)
        PROVE  WatchInv'
    <2>1. hpc = "idle" /\ hpc' = "init" /\ hring' = r /\ hreq' = "call"
          /\ UNCHANGED <<epolls, wpc, wring, wfd, reg, ready, kick, hold>>
      BY <1>2 DEF SetVringCall
    <2>2. StoppedHasNoKick
      BY <2>1, WatchFacts
    <2>3. \A q \in Rings : Registered(q) = kick[q] /\ Registered(q)' = kick[q]
      BY <2>1, <2>2 DEF Registered, StoppedHasNoKick
    <2>4. StoppedHasNoKick' /\ NewKick'
      BY <2>1, <2>2 DEF StoppedHasNoKick, NewKick
    <2>5. QED
      BY <2>1, <2>3, <2>4, WatchFacts, WatchRequest
  <1>3. ASSUME NEW r \in Rings, NEW e \in BOOLEAN, SetVringEnable(r, e)
        PROVE  WatchInv'
    BY <1>3, WatchFrame DEF SetVringEnable
  <1>4. ASSUME NEW r \in Rings, NEW b \in 0 .. avail[r], SetVringBase(r, b)
        PROVE  WatchInv'
    <2>1. CASE hpc' = hpc
      BY <1>4, <2>1, WatchFrame DEF SetVringBase, Goto
    <2>2. CASE hpc' = "poisoned"
      BY <1>4, <2>2, WatchPoisoned DEF SetVringBase
    <2>3. QED
      BY <1>4, <2>1, <2>2 DEF SetVringBase, Goto
  <1>5. ASSUME NEW r \in Rings, GetVringBase(r)
        PROVE  WatchInv'
    <2>1. hpc = "idle" /\ hpc' = "stop" /\ hring' = r /\ hreq' = "base"
          /\ UNCHANGED <<epolls, wpc, wring, wfd, reg, ready, kick, hold>>
      BY <1>5 DEF GetVringBase
    <2>2. \A q \in Rings : Registered(q) = kick[q] /\ Registered(q)' = kick[q]
      BY <2>1 DEF Registered
    <2>3. StoppedHasNoKick' /\ NewKick'
      BY <2>1, WatchFacts DEF StoppedHasNoKick, NewKick
    <2>4. QED
      BY <2>1, <2>2, <2>3, WatchFacts, WatchRequest
  <1>6. CASE SetMemTable
    BY <1>6, WatchFrame DEF SetMemTable
  <1>7. QED
    BY <1>1, <1>2, <1>3, <1>4, <1>5, <1>6 DEF Request

LEMMA HandlerWatch == Sync /\ TypeOK /\ StopInv /\ Dormant /\ WatchInv /\ Handler => WatchInv'
  <1> SUFFICES ASSUME Sync, TypeOK, StopInv, Dormant, WatchInv, Handler PROVE WatchInv'
    OBVIOUS
  <1>0. hring \in Rings /\ AnyRing \in Rings /\ hpc # "panicked"
    BY AnyRingType DEF TypeOK, WatchInv, EpollCtlNeverFails
  <1> USE DEF Goto, Reply, ReplyIf, ringVars, envVars, threadVars
  <1>1. CASE IsStarted
    <2>1. /\ hpc = "swapped" /\ hpc' = IF ready[hring] THEN "rebind" ELSE AfterSetKick
          /\ UNCHANGED <<epolls, wpc, wring, wfd, reg, ready, kick, hring, hreq, hold>>
      BY <1>1 DEF IsStarted
    <2>2. StoppedHasNoKick /\ NewKick /\ StopHeld
      BY <2>1, WatchFacts DEF StopInv
    <2>3. \A r \in Rings : Registered(r)' = Registered(r)
      BY <2>1, <2>2 DEF Registered, AfterSetKick, StoppedHasNoKick, NewKick, StopHeld
    <2>4. StoppedHasNoKick' /\ NewKick'
      BY <2>1, <2>2 DEF AfterSetKick, StoppedHasNoKick, NewKick, StopHeld
    <2>5. hpc' \in {"rebind", "uncall", "init"}
      BY <2>1 DEF AfterSetKick
    <2>6. QED
      BY <2>1, <2>3, <2>4, <2>5, WatchFacts, WatchRequest
  <1>2. CASE Rebind
    <2>1. /\ hpc = "rebind"
          /\ UNCHANGED <<epolls, wpc, wring, wfd, ready, kick, hring, hreq, hold>>
      BY <1>2 DEF Rebind, UpdatePanics
    <2>2. StoppedHasNoKick /\ NewKick /\ hreq = "kick"
      BY <2>1, WatchFacts DEF StopInv, StopHeld, NewKick
    <2>3. reg[hring] = Watch(epolls[hring], hold)
      BY <1>0, <2>1, <2>2, WatchFacts DEF Registered
    <2>4. ~ UpdatePanics(hring, hold, kick[hring])
      BY <1>0, <2>1, <2>2, <2>3, UpdateSucceeds DEF NewKick
    <2>5. CASE UpdateEpolls(hring, hold, kick[hring]) /\ hpc' = AfterSetKick
      <3>1. reg' = [reg EXCEPT ![hring] = Watch(epolls[hring], kick[hring])]
        BY <1>0, <2>3, <2>5, UpdateExact
      <3>2. hpc' = "init" /\ ready[hring]
        BY <2>1, <2>2, <2>5 DEF AfterSetKick, StoppedHasNoKick
      <3>3. \A r \in Rings : Registered(r)' = IF r = hring THEN kick[r] ELSE Registered(r)
        BY <2>1, <3>2 DEF Registered
      <3>4. \A r \in Rings : reg'[r] = Watch(epolls[r], Registered(r)')
        BY <1>0, <2>1, <3>1, <3>3, WatchFacts DEF TypeOK
      <3>5. StoppedHasNoKick' /\ NewKick'
        BY <2>1, <2>2, <3>2 DEF StoppedHasNoKick, NewKick
      <3>6. QED
        BY <2>1, <3>2, <3>4, <3>5, WatchRequest
    <2>6. CASE hpc' = "ebadf"
      BY <2>1, <2>6 DEF WatchInv, EpollCtlNeverFails, RegisterHeld
    <2>7. QED
      BY <1>2, <2>4, <2>5, <2>6 DEF Rebind
  <1>3. CASE InitializeVring
    <2>1. /\ hpc = "init"
          /\ UNCHANGED <<epolls, wpc, wring, wfd, reg, ready, kick>>
      BY <1>3 DEF InitializeVring
    <2>2. StoppedHasNoKick /\ NewKick
      BY <2>1, WatchFacts
    <2>3. CASE (ready[hring] \/ kick[hring] = NoFd) /\ Reply
      <3>1. \A r \in Rings : Registered(r) = kick[r] /\ Registered(r)' = kick[r]
        BY <2>1, <2>3 DEF Registered
      <3>2. StoppedHasNoKick' /\ NewKick'
        BY <2>1, <2>2, <2>3 DEF StoppedHasNoKick, NewKick
      <3>3. QED
        BY <2>1, <2>3, <3>1, <3>2, WatchFacts, WatchRequest
    <2>4. CASE ~ ready[hring] /\ Goto("start")
      <3>1. \A r \in Rings : Registered(r)' = Registered(r)
        BY <2>1, <2>4 DEF Registered
      <3>2. StoppedHasNoKick' /\ NewKick'
        BY <2>1, <2>2, <2>4 DEF StoppedHasNoKick, NewKick
      <3>3. QED
        BY <2>1, <2>4, <3>1, <3>2, WatchFacts, WatchRequest
    <2>5. QED
      BY <1>3, <2>3, <2>4, Zenon DEF InitializeVring
  <1>4. CASE Start
    <2>1. /\ hpc = "start" /\ hpc' = "watch" /\ ready' = [ready EXCEPT ![hring] = TRUE]
          /\ UNCHANGED <<epolls, wpc, wring, wfd, reg, kick, hring, hreq, hold>>
      BY <1>4 DEF Start
    <2>2. \A r \in Rings : Registered(r)' = Registered(r)
      BY <2>1 DEF Registered
    <2>3. StoppedHasNoKick' /\ NewKick'
      BY <1>0, <2>1, WatchFacts DEF StoppedHasNoKick, NewKick, TypeOK
    <2>4. QED
      BY <2>1, <2>2, <2>3, WatchFacts, WatchRequest
  <1>5. CASE WatchKick
    <2>1. /\ hpc = "watch"
          /\ UNCHANGED <<epolls, wpc, wring, wfd, ready, kick, hring, hreq, hold>>
      BY <1>5 DEF WatchKick, UpdatePanics
    <2>2. reg[hring] = Watch(epolls[hring], NoFd)
      BY <1>0, <2>1, WatchFacts DEF Registered
    <2>3. ~ UpdatePanics(hring, NoFd, kick[hring])
      BY <1>0, <2>2, UpdateSucceeds
    <2>4. UpdateEpolls(hring, NoFd, kick[hring]) /\ hpc' = "activate"
      BY <1>5, <2>3 DEF WatchKick
    <2>5. reg' = [reg EXCEPT ![hring] = Watch(epolls[hring], kick[hring])]
      BY <1>0, <2>2, <2>4, UpdateExact
    <2>6. \A r \in Rings : Registered(r)' = IF r = hring THEN kick[r] ELSE Registered(r)
      BY <2>1, <2>4 DEF Registered
    <2>7. \A r \in Rings : reg'[r] = Watch(epolls[r], Registered(r)')
      BY <1>0, <2>1, <2>5, <2>6, WatchFacts DEF TypeOK
    <2>8. StoppedHasNoKick' /\ NewKick'
      BY <2>1, <2>4, WatchFacts DEF StoppedHasNoKick, NewKick
    <2>9. QED
      BY <2>1, <2>4, <2>7, <2>8, WatchRequest
  <1>6. CASE Activate
    <2>0. /\ hpc = "activate" /\ UNCHANGED <<epolls, reg, ready, kick, wring, wfd>>
      BY <1>6 DEF Activate
    <2>1. StoppedHasNoKick /\ NewKick /\ ready[hring]
      BY <2>0, WatchFacts DEF StoppedHasNoKick
    <2>2. CASE Reply /\ UNCHANGED wpc
      <3>1. \A r \in Rings : Registered(r) = kick[r] /\ Registered(r)' = kick[r]
        BY <2>0, <2>2 DEF Registered
      <3>2. StoppedHasNoKick' /\ NewKick'
        BY <2>0, <2>1, <2>2 DEF StoppedHasNoKick, NewKick
      <3>3. QED
        BY <2>0, <2>2, <3>1, <3>2, WatchFacts, WatchRequest
    <2>3. CASE /\ ~ activated /\ Goto("activating")
               /\ wpc' = [t \in Threads |-> IF t \in Workers THEN "load" ELSE wpc[t]]
      <3>1. \A r \in Rings : Watchers(r)' = Watchers(r)
        BY <2>0, <2>3 DEF Watchers, Dormant
      <3>2. \A r \in Rings : Registered(r)' = Registered(r)
        BY <2>0, <2>3 DEF Registered
      <3>3. RegInv
        BY <2>0 DEF WatchInv
      <3>4. RegInv'
        BY <2>0, <3>1, <3>2, <3>3 DEF RegInv
      <3>5. StoppedHasNoKick' /\ NewKick' /\ RegisterHeld'
        BY <2>0, <2>1, <2>3 DEF StoppedHasNoKick, NewKick, RegisterHeld
      <3>6. QED
        BY <2>3, <3>4, <3>5 DEF WatchInv, EpollCtlNeverFails
    <2>4. QED
      BY <1>6, <2>2, <2>3 DEF Activate
  <1>7. CASE ActivateReturns
    <2>1. /\ hpc = "activating" /\ Reply /\ \A w \in Workers : wpc[w] \notin RegPc
          /\ UNCHANGED <<epolls, wpc, wring, wfd, reg, ready, kick>>
      BY <1>7 DEF ActivateReturns
    <2>2. RegInv /\ StoppedHasNoKick
      BY <2>1 DEF WatchInv
    <2>3. \A r \in Rings : Registered(r)' = Registered(r) /\ Watchers(r)' = Watchers(r)
      BY <2>1 DEF Registered, Watchers
    <2>4. RegInv' /\ StoppedHasNoKick' /\ NewKick' /\ RegisterHeld'
      BY <2>1, <2>2, <2>3 DEF RegInv, StoppedHasNoKick, NewKick, RegisterHeld
    <2>5. QED
      BY <2>1, <2>4 DEF WatchInv, EpollCtlNeverFails
  <1>8. CASE Stop
    <2>1. /\ hpc = "stop"
          /\ UNCHANGED <<epolls, wpc, wring, wfd, ready, kick, hring, hreq, hold>>
      BY <1>8 DEF Stop, UpdatePanics
    <2>2. reg[hring] = Watch(epolls[hring], kick[hring])
      BY <1>0, <2>1, WatchFacts DEF Registered
    <2>3. ~ UpdatePanics(hring, kick[hring], NoFd)
      BY <1>0, <2>2, UpdateSucceeds
    <2>4. UpdateEpolls(hring, kick[hring], NoFd) /\ hpc' = "halt"
      BY <1>8, <2>3 DEF Stop
    <2>5. reg' = [reg EXCEPT ![hring] = Watch(epolls[hring], NoFd)]
      BY <1>0, <2>2, <2>4, UpdateExact
    <2>6. \A r \in Rings : Registered(r)' = IF r = hring THEN NoFd ELSE Registered(r)
      BY <2>1, <2>4 DEF Registered
    <2>7. \A r \in Rings : reg'[r] = Watch(epolls[r], Registered(r)')
      BY <1>0, <2>1, <2>5, <2>6, WatchFacts DEF TypeOK
    <2>8. StoppedHasNoKick' /\ NewKick'
      BY <2>1, <2>4, WatchFacts DEF StoppedHasNoKick, NewKick
    <2>9. QED
      BY <2>1, <2>4, <2>7, <2>8, WatchRequest
  <1>9. CASE Halt
    <2>1. /\ hpc = "halt" /\ hpc' = "base" /\ ready' = [ready EXCEPT ![hring] = FALSE]
          /\ UNCHANGED <<epolls, wpc, wring, wfd, reg, kick, hring, hreq, hold>>
      BY <1>9 DEF Halt
    <2>2. \A r \in Rings : Registered(r)' = Registered(r)
      BY <2>1 DEF Registered
    <2>3. StoppedHasNoKick' /\ NewKick'
      BY <1>0, <2>1, WatchFacts DEF StoppedHasNoKick, NewKick, TypeOK
    <2>4. QED
      BY <2>1, <2>2, <2>3, WatchFacts, WatchRequest
  <1>10. CASE ReadBase
    <2>1. /\ hpc = "base" /\ hpc' = "drop"
          /\ UNCHANGED <<epolls, wpc, wring, wfd, reg, ready, kick, hring, hreq, hold>>
      BY <1>10 DEF ReadBase
    <2>2. \A r \in Rings : Registered(r)' = Registered(r)
      BY <2>1 DEF Registered
    <2>3. StoppedHasNoKick' /\ NewKick'
      BY <2>1, WatchFacts DEF StoppedHasNoKick, NewKick
    <2>4. QED
      BY <2>1, <2>2, <2>3, WatchFacts, WatchRequest
  <1>11. CASE DropKick
    <2>1. /\ hpc = "drop" /\ hpc' = "swapped" /\ kick' = [kick EXCEPT ![hring] = NoFd]
          /\ UNCHANGED <<epolls, wpc, wring, wfd, reg, ready, hring, hreq>>
      BY <1>11 DEF DropKick
    <2>2. hreq = "base"
      BY <2>1, WatchFacts DEF NewKick
    <2>3. \A r \in Rings : Registered(r)' = Registered(r)
      BY <1>0, <2>1, <2>2 DEF Registered, TypeOK
    <2>4. StoppedHasNoKick' /\ NewKick'
      BY <1>0, <2>1, <2>2, WatchFacts DEF StoppedHasNoKick, NewKick, TypeOK
    <2>5. QED
      BY <2>1, <2>3, <2>4, WatchFacts, WatchRequest
  <1>12. CASE DropCall
    <2>1. /\ hpc = "uncall" /\ Reply
          /\ UNCHANGED <<epolls, wpc, wring, wfd, reg, ready, kick>>
      BY <1>12 DEF DropCall
    <2>2. StoppedHasNoKick /\ NewKick
      BY <2>1, WatchFacts
    <2>3. \A r \in Rings : Registered(r)' = Registered(r)
      BY <2>1, <2>2 DEF Registered, StoppedHasNoKick
    <2>4. StoppedHasNoKick' /\ NewKick'
      BY <2>1, <2>2 DEF StoppedHasNoKick, NewKick
    <2>5. QED
      BY <2>1, <2>3, <2>4, WatchFacts, WatchRequest
  <1>13. CASE QueueMut
    BY <1>13, WatchPoisoned DEF QueueMut
  <1>14. QED
    BY <1>1, <1>2, <1>3, <1>4, <1>5, <1>6, <1>7, <1>8, <1>9, <1>10, <1>11,
       <1>12, <1>13 DEF Handler

\* Only the registration of a worker changes the epolls that hold a kick.
LEMMA RegisterWatch ==
  ASSUME TypeOK, WatchInv, NEW w \in Workers,
         RegisterLoad(w) \/ RegisterCtl(w) \/ AddEpoll(w)
  PROVE  WatchInv'
  <1> USE DEF ringVars, envVars, handlerVars, Return, Exit, Step
  <1>0. w \in Threads /\ wring[w] \in Rings
    BY DEF Threads, TypeOK
  <1>1. hpc = "activating"
    BY DEF RegisterLoad, RegisterCtl, AddEpoll, WatchInv, RegisterHeld, RegPc
  <1>2. /\ UNCHANGED <<kick, ready, hpc, hring, hreq, hold>>
        /\ \A v \in Workers \ {w} : wpc'[v] = wpc[v] /\ wring'[v] = wring[v]
                                    /\ wfd'[v] = wfd[v]
    BY DEF RegisterLoad, RegisterCtl, AddEpoll, TypeOK, Threads
  <1>3. \A r : Registered(r) = kick[r] /\ Registered(r)' = kick[r]
    BY <1>1, <1>2 DEF Registered
  <1>4. RegInv /\ StoppedHasNoKick /\ NewKick /\ RegisterHeld
    BY <1>1 DEF WatchInv
  <1>5. StoppedHasNoKick' /\ NewKick'
    BY <1>2, <1>4 DEF StoppedHasNoKick, NewKick
  <1>6. RegisterHeld'
    <2>1. wpc'[w] = "ctl" => wfd'[w] = kick[wring'[w]]
      BY <1>0 DEF RegisterLoad, RegisterCtl, AddEpoll, TypeOK, Threads
    <2>2. QED
      BY <1>1, <1>2, <1>4, <2>1 DEF RegisterHeld
  <1>7. RegInv'
    <2>1. CASE RegisterLoad(w)
      <3>1. wpc[w] # "add" /\ wpc'[w] # "add" /\ UNCHANGED <<epolls, reg>>
        BY <1>0, <2>1 DEF RegisterLoad, TypeOK, Threads
      <3>2. \A r : Watchers(r)' = Watchers(r)
        BY <1>2, <3>1 DEF Watchers
      <3>3. QED
        BY <1>3, <1>4, <3>1, <3>2 DEF RegInv
    <2>2. CASE RegisterCtl(w)
      <3>1. /\ wpc[w] = "ctl" /\ wpc'[w] = "add" /\ UNCHANGED <<epolls, wring>>
            /\ reg' = [reg EXCEPT ![wring[w]] = @ \cup Watch({w}, wfd[w])]
        BY <1>0, <2>2 DEF RegisterCtl, TypeOK, Threads
      <3>2. \A r : Watchers(r)' = IF r = wring[w] THEN Watchers(r) \cup {w} ELSE Watchers(r)
        BY <1>2, <3>1 DEF Watchers
      <3>3. wfd[w] = kick[wring[w]]
        BY <1>4, <3>1 DEF RegisterHeld
      <3>4. \A r \in Rings : reg'[r] = IF r = wring[w] THEN reg[r] \cup Watch({w}, kick[r])
                                                       ELSE reg[r]
        BY <1>0, <3>1, <3>3 DEF TypeOK
      <3>5. \A r \in Rings : Watch(Watchers(r) \cup {w}, kick[r])
                               = Watch(Watchers(r), kick[r]) \cup Watch({w}, kick[r])
        BY WatchUnion
      <3>6. QED
        BY <1>3, <1>4, <3>2, <3>4, <3>5 DEF RegInv
    <2>3. CASE AddEpoll(w)
      <3>1. /\ wpc[w] = "add" /\ wpc'[w] = "load" /\ UNCHANGED <<reg, wring>>
            /\ \A r \in Rings : epolls'[r] = IF r = wring[w] THEN epolls[r] \cup {w}
                                                             ELSE epolls[r]
        BY <1>0, <2>3 DEF AddEpoll, TypeOK, Threads
      <3>2. ASSUME NEW r \in Rings, NEW v \in Workers
            PROVE  v \in Watchers(r)' <=> v \in Watchers(r)
        <4>1. CASE v = w
          <5>1. v \in Watchers(r) <=> v \in epolls[r] \/ r = wring[w]
            BY <3>1, <4>1 DEF Watchers
          <5>2. v \in Watchers(r)' <=> v \in epolls'[r]
            BY <3>1, <4>1 DEF Watchers
          <5>3. QED
            BY <3>1, <4>1, <5>1, <5>2
        <4>2. CASE v # w
          <5>1. wpc'[v] = wpc[v] /\ wring'[v] = wring[v]
            BY <1>2, <4>2
          <5>2. v \in epolls'[r] <=> v \in epolls[r]
            <6>1. epolls'[r] = epolls[r] \cup {w} \/ epolls'[r] = epolls[r]
              BY <3>1
            <6>2. QED
              BY <4>2, <6>1
          <5>3. QED
            BY <5>1, <5>2 DEF Watchers
        <4>3. QED
          BY <4>1, <4>2
      <3>3. \A r \in Rings : Watchers(r) \subseteq Workers /\ Watchers(r)' \subseteq Workers
        <4>1. ASSUME NEW r \in Rings
              PROVE  epolls[r] \subseteq Workers /\ epolls'[r] \subseteq Workers
          <5>1. epolls[r] \subseteq Workers
            BY DEF TypeOK
          <5>2. QED
            BY <3>1, <5>1
        <4>2. QED
          BY <4>1 DEF Watchers
      <3>4. \A r \in Rings : Watchers(r)' = Watchers(r)
        BY <3>2, <3>3
      <3>5. QED
        BY <1>3, <1>4, <3>1, <3>4 DEF RegInv
    <2>4. QED
      BY <2>1, <2>2, <2>3
  <1>8. QED
    BY <1>1, <1>2, <1>5, <1>6, <1>7 DEF WatchInv, EpollCtlNeverFails

\* The epoll of a worker that ended is gone, and its kicks with it.
LEMMA DieWatch ==
  ASSUME TypeOK, WatchInv, NEW w \in Workers, Die(w)
  PROVE  WatchInv'
  <1>1. /\ UNCHANGED <<kick, ready, hpc, hring, hreq, hold, wring, wfd>>
        /\ wpc' = [wpc EXCEPT ![w] = "dead"] /\ wpc[w] = "dying"
        /\ \A r \in Rings : epolls'[r] = epolls[r] \ {w}
        /\ \A r \in Rings : reg'[r] = reg[r] \ ({w} \X Fds)
    BY DEF Die, Step, handlerVars
  <1>2. \A v \in Workers : wpc'[v] = IF v = w THEN "dead" ELSE wpc[v]
    BY <1>1 DEF TypeOK
  <1>3. RegisterHeld'
    BY <1>1, <1>2 DEF WatchInv, RegisterHeld
  <1>4. \A r : Registered(r)' = Registered(r)
    BY <1>1 DEF Registered
  <1>5. \A r \in Rings : Watchers(r)' = Watchers(r) \ {w}
    BY <1>1, <1>2 DEF Watchers
  <1>6. RegInv => RegInv'
    <2> SUFFICES ASSUME RegInv, NEW r \in Rings
                 PROVE  reg'[r] = Watch(Watchers(r) \ {w}, Registered(r))
      BY <1>4, <1>5 DEF RegInv
    <2>1. Registered(r) \in Fds \cup {NoFd}
      BY DEF Registered, TypeOK
    <2>2. Watch(Watchers(r) \ {w}, Registered(r))
            = Watch(Watchers(r), Registered(r)) \ ({w} \X Fds)
      BY <2>1 DEF Watch
    <2>3. QED
      BY <1>1, <2>2 DEF RegInv
  <1>7. StoppedHasNoKick /\ NewKick => StoppedHasNoKick' /\ NewKick'
    BY <1>1 DEF StoppedHasNoKick, NewKick
  <1>8. QED
    BY <1>1, <1>3, <1>6, <1>7 DEF WatchInv, EpollCtlNeverFails

\* A thread moves on without registering anything.
LEMMA WatchMove ==
  ASSUME TypeOK, WatchInv, NEW t \in Threads, wpc[t] \notin RegPc,
         wpc' = wpc \/ \E pc : pc \notin RegPc /\ wpc' = [wpc EXCEPT ![t] = pc],
         wring' = wring \/ \E r : wring' = [wring EXCEPT ![t] = r],
         wfd' = wfd \/ \E f : wfd' = [wfd EXCEPT ![t] = f],
         UNCHANGED <<epolls, kick, reg, ready, hpc, hring, hreq, hold>>
  PROVE  WatchInv'
  <1>1. \A w \in Workers : w # t => /\ wpc'[w] = wpc[w] /\ wring'[w] = wring[w]
                                    /\ wfd'[w] = wfd[w]
    BY DEF TypeOK, Threads
  <1>2. wpc'[t] \notin RegPc
    BY DEF TypeOK
  <1>3. QED
    BY <1>1, <1>2, WatchFrame

LEMMA WorkerWatch ==
  ASSUME TypeOK, WatchInv, NEW w \in Workers, Worker(w)
  PROVE  WatchInv'
  <1> USE DEF ringVars, envVars, handlerVars, Return, Exit, Step, StepIf, RegPc
  <1>0. w \in Threads
    BY DEF Threads
  <1>1. CASE RegisterLoad(w) \/ RegisterCtl(w) \/ AddEpoll(w)
    BY <1>1, RegisterWatch
  <1>2. CASE Wait(w) \/ NextEvent(w) \/ ReadKick(w)
    BY <1>0, <1>2, WatchMove DEF Wait, NextEvent, ReadKick
  <1>3. CASE KickEnabled(w)
    BY <1>0, <1>3, WatchMove DEF KickEnabled
  <1>4. CASE Pop(w) \/ LateSignalUsed(w)
    BY <1>0, <1>4, WatchMove DEF Pop, LateSignalUsed
  <1>5. CASE Drained(w)
    BY <1>0, <1>5, WatchMove DEF Drained
  <1>6. CASE ProcessFence(w) \/ Fail(w)
    BY <1>0, <1>6, WatchMove DEF ProcessFence, Fail
  <1>7. CASE Die(w)
    BY <1>7, DieWatch
  <1>8. QED
    BY <1>1, <1>2, <1>3, <1>4, <1>5, <1>6, <1>7 DEF Worker

LEMMA GuardedWatch ==
  ASSUME TypeOK, WatchInv, NEW t \in Threads, Guarded(t)
  PROVE  WatchInv'
  <1> USE DEF ringVars, envVars, handlerVars, Return, Exit, Step, StepIf, RegPc
  <1>1. CASE TryLock(t)
    BY <1>1, WatchMove DEF TryLock
  <1>2. CASE Lock(t)
    BY <1>2, WatchMove DEF Lock
  <1>3. CASE Check(t)
    BY <1>3, WatchMove DEF Check
  <1>4. CASE Signal(t)
    BY <1>4, WatchMove DEF Signal
  <1>5. CASE LockPoisoned(t)
    BY <1>5, WatchMove DEF LockPoisoned
  <1>6. QED
    BY <1>1, <1>2, <1>3, <1>4, <1>5 DEF Guarded

\* Without an activation there is no worker, whatever the ports do.
LEMMA DormantInductive == TypeOK /\ Dormant /\ [Next]_vars => Dormant'
  <1> SUFFICES ASSUME TypeOK, Dormant, [Next]_vars, ~ activated' PROVE Dormant'
    BY DEF Dormant
  <1> USE DEF ringVars, envVars, handlerVars, threadVars
  <1>0. ~ activated => \A w \in Workers : wpc[w] = "unborn"
    BY DEF Dormant
  <1>1. CASE Request
    BY <1>1, <1>0 DEF Request, SetVringKick, SetVringCall, SetVringEnable, SetVringBase,
                GetVringBase, SetMemTable, Dormant
  <1>2. CASE Handler
    BY <1>2, <1>0 DEF Handler, QueueMut, IsStarted, Rebind, InitializeVring, Start, WatchKick,
                Activate, ActivateReturns, Stop, Halt, ReadBase, DropKick, DropCall,
                Dormant
  <1>3. ASSUME NEW w \in Workers, Worker(w) PROVE Dormant'
    BY <1>3, <1>0 DEF Worker, RegisterLoad, RegisterCtl, AddEpoll, Wait, NextEvent,
                ReadKick, KickEnabled, Pop, ProcessFence, Fail, Die, Drained,
                LateSignalUsed
  <1>4. ASSUME NEW t \in Threads, Guarded(t) PROVE Dormant'
    <2>1. activated' = activated /\ wpc[t] # "unborn"
      BY <1>4 DEF Guarded, TryLock, Lock, LockPoisoned, Check, Signal
    <2>2. t \notin Workers
      BY <1>0, <2>1
    <2>3. \A w \in Workers : wpc'[w] = wpc[w]
      BY <1>4, <2>2 DEF Guarded, TryLock, Lock, LockPoisoned, Check, Signal, StepIf,
                        Step, Exit, Return, TypeOK, Threads
    <2>4. QED
      BY <1>0, <2>1, <2>3 DEF Dormant
  <1>5. ASSUME NEW w \in Ports, NEW r \in Serves[w], IoReady(w, r) PROVE Dormant'
    BY <1>5, <1>0, ConstantsAssumption DEF IoReady
  <1>6. ASSUME NEW c \in Completers, Completer(c)
        PROVE  Dormant'
    <2>1. c \notin Workers /\ c \in Threads
      BY ConstantsAssumption DEF Threads
    <2>2. activated' = activated /\ \A w \in Workers : wpc'[w] = wpc[w]
      BY <1>6, <2>1 DEF Completer, FenceHandler, FenceReturns, CompleteUsed, Complete,
                        Step, TypeOK, Threads
    <2>3. QED
      BY <1>0, <2>2 DEF Dormant
  <1>7. ASSUME NEW r \in Rings, Publish(r) \/ Kick(r) PROVE Dormant'
    BY <1>7, <1>0 DEF Publish, Kick, Dormant
  <1>8. CASE UNCHANGED vars
    BY <1>8, <1>0 DEF vars, Dormant
  <1>9. QED
    BY <1>1, <1>2, <1>3, <1>4, <1>5, <1>6, <1>7, <1>8 DEF Next

LEMMA WatchInductive ==
  ASSUME Sync
  PROVE  TypeOK /\ StopInv /\ Dormant /\ WatchInv /\ [Next]_vars => WatchInv'
  <1> SUFFICES ASSUME TypeOK, StopInv, Dormant, WatchInv, [Next]_vars PROVE WatchInv'
    OBVIOUS
  <1> USE DEF ringVars, envVars, handlerVars, threadVars
  <1>1. CASE Request
    BY <1>1, RequestWatch
  <1>2. CASE Handler
    BY <1>2, HandlerWatch
  <1>3. ASSUME NEW w \in Workers, Worker(w) PROVE WatchInv'
    BY <1>3, WorkerWatch
  <1>4. ASSUME NEW w \in Ports, NEW r \in Serves[w], IoReady(w, r) PROVE WatchInv'
    BY <1>4, WatchMove, ConstantsAssumption DEF IoReady, RegPc, Threads
  <1>5. ASSUME NEW t \in Threads, Guarded(t) PROVE WatchInv'
    BY <1>5, GuardedWatch
  <1>6. ASSUME NEW c \in Completers, Completer(c) PROVE WatchInv'
    BY <1>6, WatchMove DEF Completer, FenceHandler, FenceReturns, CompleteUsed, Complete,
                           Step, RegPc, Threads
  <1>7. ASSUME NEW r \in Rings, Publish(r) \/ Kick(r) PROVE WatchInv'
    BY <1>7, WatchFrame DEF Publish, Kick
  <1>8. CASE UNCHANGED vars
    BY <1>8, WatchFrame DEF vars
  <1>9. QED
    BY <1>1, <1>2, <1>3, <1>4, <1>5, <1>6, <1>7, <1>8 DEF Next

LEMMA WatchInvariant ==
  ASSUME Sync
  PROVE  Spec => []WatchInv
  <1>1. Init => Dormant /\ WatchInv
    <2> SUFFICES ASSUME Init PROVE Dormant /\ WatchInv
      OBVIOUS
    <2>1. Dormant /\ RegisterHeld /\ EpollCtlNeverFails
      BY DEF Init, Dormant, RegisterHeld, EpollCtlNeverFails, RegPc, Threads
    <2>2. \A r \in Rings : reg[r] = {} /\ Registered(r) = NoFd
      BY DEF Init, Registered
    <2>3. RegInv
      BY <2>2, WatchNone DEF RegInv
    <2>4. StoppedHasNoKick /\ NewKick
      BY DEF Init, StoppedHasNoKick, NewKick
    <2>5. QED
      BY <2>1, <2>3, <2>4 DEF WatchInv
  <1>2. TypeOK /\ Dormant /\ [Next]_vars => Dormant'
    BY DormantInductive
  <1>3. TypeOK /\ StopInv /\ Dormant /\ WatchInv /\ [Next]_vars => WatchInv'
    BY WatchInductive
  <1>4. QED
    BY <1>1, <1>2, <1>3, TypeCorrect, StopInvariant, PTL DEF Spec

\* When activate waits until the workers have registered (the gpu), the epolls that
\* monitor a ring hold its kick between two requests exactly while the ring is
\* started, for any number of rings, workers and eventfds.
THEOREM WatchedAgrees ==
  ASSUME Sync
  PROVE  Spec => []WatchedIffStarted
  <1>1. WatchInv => WatchedIffStarted
    <2> SUFFICES ASSUME WatchInv, hpc = "idle", NEW r \in Rings
                 PROVE  reg[r] = IF ready[r] THEN Watch(epolls[r], kick[r]) ELSE {}
      BY DEF WatchedIffStarted
    <2>1. reg[r] = Watch(epolls[r], kick[r]) /\ (~ ready[r] => kick[r] = NoFd)
      BY WatchFacts DEF Registered, StoppedHasNoKick
    <2>2. QED
      BY <2>1, WatchNone
  <1>2. QED
    BY <1>1, WatchInvariant, PTL

\* Under the same condition no epoll_ctl of update_epolls finds a kick missing or
\* already there: the unwrap() of start, stop and set_kick never sees ENOENT or
\* EEXIST.
THEOREM EpollCtlSucceeds ==
  ASSUME Sync
  PROVE  Spec => []EpollCtlNeverFails
  <1>1. WatchInv => EpollCtlNeverFails
    BY DEF WatchInv
  <1>2. QED
    BY <1>1, WatchInvariant, PTL

-----------------------------------------------------------------------------
(* The contract of Ring. *)

LEMMA StartHeldNext == TypeOK /\ StartHeld /\ [Next]_vars => StartHeld'
  <1> SUFFICES ASSUME TypeOK, StartHeld, [Next]_vars PROVE StartHeld'
    OBVIOUS
  <1> USE DEF StartHeld, ringVars, envVars, handlerVars, threadVars
  <1>1. CASE UNCHANGED <<hpc, hring, ready>>
    BY <1>1
  <1>2. CASE Request
    BY <1>2 DEF Request, SetVringKick, SetVringCall, SetVringEnable, SetVringBase,
                GetVringBase, SetMemTable, Goto
  <1>3. CASE QueueMut \/ IsStarted \/ Rebind \/ WatchKick \/ Stop
    BY <1>3 DEF QueueMut, IsStarted, Rebind, WatchKick, Stop, Goto, AfterSetKick, UpdatePanics
  <1>4. CASE InitializeVring
    BY <1>4 DEF InitializeVring, ReplyIf, Reply, Goto
  <1>5. CASE Start \/ Halt \/ ReadBase \/ DropKick \/ DropCall
    BY <1>5 DEF Start, Halt, ReadBase, DropKick, DropCall, Goto, Reply
  <1>6. CASE Activate \/ ActivateReturns
    BY <1>6 DEF Activate, ActivateReturns, ReplyIf, Reply, Goto
  <1>7. ASSUME NEW w \in Workers, Worker(w)  PROVE StartHeld'
    BY <1>1, <1>7 DEF Worker, RegisterLoad, RegisterCtl, AddEpoll, Wait, NextEvent,
                      ReadKick, KickEnabled, Pop, ProcessFence, Fail, Die, Drained,
                      LateSignalUsed
  <1>8. CASE \E t \in Threads : Guarded(t)
    BY <1>1, <1>8 DEF Guarded, TryLock, Lock, LockPoisoned, Check, Signal
  <1>9. CASE \/ \E w \in Ports : \E r \in Serves[w] : IoReady(w, r)
             \/ \E c \in Completers : Completer(c)
    BY <1>1, <1>9 DEF IoReady, Completer, FenceHandler, FenceReturns, CompleteUsed, Complete
  <1>10. CASE (\E r \in Rings : Publish(r) \/ Kick(r)) \/ UNCHANGED vars
    BY <1>1, <1>10 DEF Publish, Kick, vars
  <1>11. QED
    BY <1>2, <1>3, <1>4, <1>5, <1>6, <1>7, <1>8, <1>9, <1>10 DEF Next, Handler

\* A thread moves, and is in a session of the same ring as before, or in none.
LEMMA SessionsKept ==
  ASSUME TypeOK, NEW t \in Threads, NEW pc \in WorkerPc,
         wpc' = [wpc EXCEPT ![t] = pc],
         \/ wpc[t] \notin SessionPc /\ pc \notin SessionPc
            /\ \E r \in Rings : wring' = [wring EXCEPT ![t] = r]
         \/ wpc[t] \in SessionPc /\ pc \in SessionPc
            /\ UNCHANGED wring
  PROVE  Sessions' = Sessions
  <1>1. \A u \in Threads, r \in Rings : Processing(u, r)' <=> Processing(u, r)
    BY DEF Processing, TypeOK
  <1>2. QED
    BY <1>1 DEF Sessions

\* A queue that nobody holds has no session.
LEMMA FreeHasNoSession ==
  ASSUME TypeOK, StopInv, NEW r \in Rings, lock[r] = Free
  PROVE  ~ Sessions[r]
  BY ConstantsAssumption DEF Sessions, Processing, StopInv, LockHeld

\* The queue mutex allows one session of a ring at a time.
LEMMA OneSession ==
  ASSUME TypeOK, StopInv, NEW t \in Threads, wpc[t] \in LockPc,
         NEW u \in Threads, Processing(u, wring[t])
  PROVE  u = t
  BY DEF Processing, StopInv, LockHeld

LEMMA SessionBegins ==
  ASSUME TypeOK, StopInv, NEW t \in Threads, wpc[t] = "check", Step(t, "process")
  PROVE  /\ ~ Sessions[wring[t]]
         /\ Sessions' = [Sessions EXCEPT ![wring[t]] = TRUE]
  <1>1. \A u \in Threads : ~ Processing(u, wring[t])
    BY OneSession DEF Processing
  <1>2. \A u \in Threads, r \in Rings :
          Processing(u, r)' <=> Processing(u, r) \/ (u = t /\ r = wring[t])
    BY DEF Processing, Step, TypeOK
  <1>3. wring[t] \in Rings
    BY DEF TypeOK
  <1>4. ASSUME NEW r \in Rings
        PROVE  (\E u \in Threads : Processing(u, r)')
                 <=> IF r = wring[t] THEN TRUE ELSE \E u \in Threads : Processing(u, r)
    BY <1>2
  <1>5. QED
    BY <1>1, <1>3, <1>4 DEF Sessions

LEMMA SessionEnds ==
  ASSUME TypeOK, StopInv, NEW t \in Threads, wpc[t] \in SessionPc,
         NEW pc \in WorkerPc \ SessionPc, wpc' = [wpc EXCEPT ![t] = pc],
         \E r \in Rings : wring' = [wring EXCEPT ![t] = r]
  PROVE  /\ wring[t] \in Rings /\ Sessions[wring[t]]
         /\ Sessions' = [Sessions EXCEPT ![wring[t]] = FALSE]
  <1>1. wring[t] \in Rings /\ Processing(t, wring[t])
    BY DEF TypeOK, Processing
  <1>2. \A u \in Threads, r \in Rings :
          Processing(u, r)' <=> Processing(u, r) /\ u # t
    BY DEF Processing, TypeOK
  <1>3. \A u \in Threads : Processing(u, wring[t]) => u = t
    BY OneSession
  <1>4. \A r \in Rings : Processing(t, r) => r = wring[t]
    BY DEF Processing
  <1>5. ASSUME NEW r \in Rings
        PROVE  (\E u \in Threads : Processing(u, r)')
                 <=> IF r = wring[t] THEN FALSE ELSE \E u \in Threads : Processing(u, r)
    BY <1>2, <1>3, <1>4
  <1>6. QED
    BY <1>1, <1>5 DEF Sessions

ContractStep == [Contract!RingNext]_Contract!contractVars

\* A step the contract does not see.
LEMMA Stutters ==
  ASSUME UNCHANGED <<ready, next_avail, avail, base>>, Sessions' = Sessions
  PROVE  ContractStep
  BY DEF ContractStep, Contract!contractVars

LEMMA SameThreads ==
  ASSUME UNCHANGED <<wpc, wring>>
  PROVE  Sessions' = Sessions
  BY DEF Sessions, Processing

LEMMA RequestContract ==
  ASSUME TypeOK, StopInv, Request
  PROVE  ContractStep
  <1> USE DEF ringVars, envVars, handlerVars, threadVars
  <1>1. UNCHANGED <<wpc, wring>>
    BY DEF Request, SetVringKick, SetVringCall, SetVringEnable, SetVringBase,
           GetVringBase, SetMemTable
  <1>2. CASE \E r \in Rings : \E b \in 0 .. avail[r] : SetVringBase(r, b)
    <2>1. PICK r \in Rings : \E b \in 0 .. avail[r] : SetVringBase(r, b)
      BY <1>2
    <2>2. CASE lock[r] = Free
      <3>1. Contract!SetBase(r)
        BY <1>1, <2>1, <2>2, FreeHasNoSession, SameThreads, ConstantsAssumption
           DEF SetVringBase, Contract!SetBase
      <3>2. QED
        BY <3>1 DEF ContractStep, Contract!RingNext
    <2>3. CASE lock[r] # Free
      BY <1>1, <2>1, <2>3, Stutters, SameThreads DEF SetVringBase
    <2>4. QED
      BY <2>2, <2>3
  <1>3. CASE ~ \E r \in Rings : \E b \in 0 .. avail[r] : SetVringBase(r, b)
    BY <1>1, <1>3, Stutters, SameThreads
       DEF Request, SetVringKick, SetVringCall, SetVringEnable, GetVringBase, SetMemTable
  <1>4. QED
    BY <1>2, <1>3

LEMMA HandlerContract ==
  ASSUME TypeOK, StopInv, Dormant, StartHeld, Handler
  PROVE  ContractStep
  <1> USE DEF ringVars, envVars, handlerVars, threadVars
  <1>0. hring \in Rings
    BY DEF TypeOK
  <1>1. CASE Start
    <2>1. Contract!StartRing(hring)
      BY <1>1, SameThreads DEF Start, StartHeld, Contract!StartRing
    <2>2. QED
      BY <1>0, <2>1 DEF ContractStep, Contract!RingNext
  <1>2. CASE Halt
    <2>1. Contract!StopRing(hring)
      BY <1>0, <1>2, FreeHasNoSession, SameThreads DEF Halt, Contract!StopRing
    <2>2. QED
      BY <1>0, <2>1 DEF ContractStep, Contract!RingNext
  <1>3. CASE ReadBase
    <2>1. Contract!AnswerBase(hring)
      BY <1>3, SameThreads DEF ReadBase, StopInv, StopHeld, Contract!AnswerBase
    <2>2. QED
      BY <1>0, <2>1 DEF ContractStep, Contract!RingNext
  <1>4. CASE Activate
    <2>1. \A t \in Threads : /\ UNCHANGED wpc \/ wpc'[t] = "load" \/ wpc'[t] = wpc[t]
                             /\ wpc'[t] # wpc[t] => wpc[t] = "unborn" /\ wpc'[t] = "load"
      BY <1>4 DEF Activate, Dormant, TypeOK
    <2>2. \A t \in Threads, r \in Rings : Processing(t, r)' <=> Processing(t, r)
      BY <1>4, <2>1 DEF Activate, Processing
    <2>3. Sessions' = Sessions
      BY <2>2 DEF Sessions
    <2>4. QED
      BY <1>4, <2>3, Stutters DEF Activate
  <1>5. CASE QueueMut \/ IsStarted \/ Rebind \/ InitializeVring \/ WatchKick
    BY <1>5, Stutters, SameThreads DEF QueueMut, IsStarted, Rebind, InitializeVring, WatchKick
  <1>6. CASE ActivateReturns \/ Stop \/ DropKick \/ DropCall
    BY <1>6, Stutters, SameThreads DEF ActivateReturns, Stop, DropKick, DropCall
  <1>7. QED
    BY <1>1, <1>2, <1>3, <1>4, <1>5, <1>6 DEF Handler

LEMMA WorkerContract ==
  ASSUME TypeOK, StopInv, NEW w \in Workers, Worker(w)
  PROVE  ContractStep
  <1> USE DEF ringVars, envVars, handlerVars, threadVars
  <1>0. w \in Threads
    OBVIOUS
  <1>1. CASE RegisterLoad(w)
    <2>1. \E pc \in {"wait", "ctl"} :
            /\ wpc' = [wpc EXCEPT ![w] = pc]
            /\ \E r \in Rings : wring' = [wring EXCEPT ![w] = r]
      BY <1>1, AnyRingType DEF RegisterLoad, Return, Exit, TypeOK
    <2>2. Sessions' = Sessions
      BY <1>0, <1>1, <2>1, SessionsKept DEF RegisterLoad
    <2>3. QED
      BY <1>1, <2>2, Stutters DEF RegisterLoad
  <1>2. CASE RegisterCtl(w) \/ AddEpoll(w) \/ ReadKick(w)
    <2>1. Sessions' = Sessions
      BY <1>0, <1>2, SessionsKept, MoveForms DEF RegisterCtl, AddEpoll, ReadKick
    <2>2. QED
      BY <1>2, <2>1, Stutters DEF RegisterCtl, AddEpoll, ReadKick
  <1>3. CASE Wait(w)
    BY <1>3, Stutters, SameThreads DEF Wait
  <1>4. CASE NextEvent(w)
    <2>1. \E r \in Rings : wring' = [wring EXCEPT ![w] = r]
      BY <1>4 DEF NextEvent, TypeOK
    <2>2. Sessions' = Sessions
      BY <1>0, <1>4, <2>1, SessionsKept DEF NextEvent
    <2>3. QED
      BY <1>4, <2>2, Stutters DEF NextEvent
  <1>5. CASE KickEnabled(w)
    <2>1. Step(w, "try") \/ Return(w)
      BY <1>5, Zenon DEF KickEnabled, StepIf
    <2>2. Sessions' = Sessions
      BY <1>0, <1>5, <2>1, SessionsKept, MoveForms DEF KickEnabled
    <2>3. QED
      BY <1>5, <2>2, Stutters DEF KickEnabled
  <1>6. CASE Pop(w)
    <2>1. wring[w] \in Rings /\ Sessions[wring[w]]
      BY <1>6 DEF Pop, Sessions, Processing, TypeOK
    <2>2. PICK pc \in SessionPc : Step(w, pc)
      BY <1>6, Zenon DEF Pop
    <2>3. Sessions' = Sessions
      BY <1>0, <1>6, <2>2, SessionsKept DEF Pop, Step
    <2>4. Contract!Take(wring[w])
      BY <1>6, <2>1, <2>3 DEF Pop, Contract!Take
    <2>5. QED
      BY <2>1, <2>4 DEF ContractStep, Contract!RingNext
  <1>7. CASE Drained(w)
    <2>1. CASE Step(w, "signal")
      <3>1. Sessions' = Sessions
        BY <1>0, <1>7, <2>1, SessionsKept DEF Drained, Step
      <3>2. QED
        BY <1>7, <3>1, Stutters DEF Drained
    <2>2. CASE Step(w, "late") \/ Return(w)
      <3>1. /\ wring[w] \in Rings /\ Sessions[wring[w]]
            /\ Sessions' = [Sessions EXCEPT ![wring[w]] = FALSE]
        BY <1>0, <1>7, <2>2, SessionEnds, MoveForms DEF Drained
      <3>2. Contract!End(wring[w])
        BY <1>7, <3>1 DEF Drained, Contract!End
      <3>3. QED
        BY <3>1, <3>2 DEF ContractStep, Contract!RingNext
    <2>3. QED
      BY <1>7, <2>1, <2>2, Zenon DEF Drained
  <1>8. CASE LateSignalUsed(w)
    <2>1. Sessions' = Sessions
      BY <1>0, <1>8, SessionsKept, MoveForms DEF LateSignalUsed
    <2>2. QED
      BY <1>8, <2>1, Stutters DEF LateSignalUsed
  <1>9. CASE ProcessFence(w)
    <2>1. Sessions' = Sessions
      BY <1>0, <1>9, SessionsKept DEF ProcessFence, Step
    <2>2. QED
      BY <1>9, <2>1, Stutters DEF ProcessFence
  <1>10. CASE Fail(w)
    <2>1. /\ wring[w] \in Rings /\ Sessions[wring[w]]
          /\ Sessions' = [Sessions EXCEPT ![wring[w]] = FALSE]
      BY <1>0, <1>10, SessionEnds, MoveForms DEF Fail
    <2>2. Contract!End(wring[w])
      BY <1>10, <2>1 DEF Fail, Contract!End
    <2>3. QED
      BY <2>1, <2>2 DEF ContractStep, Contract!RingNext
  <1>11. CASE Die(w)
    <2>1. Sessions' = Sessions
      BY <1>0, <1>11, SessionsKept, MoveForms DEF Die
    <2>2. QED
      BY <1>11, <2>1, Stutters DEF Die
  <1>12. QED
    BY <1>1, <1>2, <1>3, <1>4, <1>5, <1>6, <1>7, <1>8, <1>9, <1>10, <1>11 DEF Worker

LEMMA CompleterContract ==
  ASSUME TypeOK, StopInv, NEW c \in Completers, Completer(c)
  PROVE  ContractStep
  <1> USE DEF ringVars, envVars, handlerVars
  <1>0. c \in Threads
    OBVIOUS
  <1>1. CASE CompleteUsed(c)
    <2>1. Sessions' = Sessions
      BY <1>0, <1>1, SessionsKept DEF CompleteUsed, Step
    <2>2. QED
      BY <1>1, <2>1, Stutters DEF CompleteUsed
  <1>2. CASE FenceHandler(c) \/ FenceReturns(c)
    <2>1. Sessions' = Sessions
      BY <1>0, <1>2, SessionsKept, MoveForms DEF FenceHandler, FenceReturns
    <2>2. QED
      BY <1>2, <2>1, Stutters DEF FenceHandler, FenceReturns
  <1>3. ASSUME NEW r \in Rings, Complete(c, r)  PROVE ContractStep
    <2>1. Sessions' = Sessions
      BY <1>0, <1>3, SessionsKept DEF Complete
    <2>2. QED
      BY <1>3, <2>1, Stutters DEF Complete
  <1>4. QED
    BY <1>1, <1>2, <1>3 DEF Completer

LEMMA GuardedContract ==
  ASSUME TypeOK, StopInv, NEW t \in Threads, Guarded(t)
  PROVE  ContractStep
  <1> USE DEF ringVars, envVars, handlerVars, threadVars
  <1>0. wring[t] \in Rings
    BY DEF TypeOK
  <1>1. CASE TryLock(t)
    <2>1. Step(t, "lock") \/ Return(t)
      BY <1>1, Zenon DEF TryLock, StepIf
    <2>2. Sessions' = Sessions
      BY <1>1, <2>1, SessionsKept, MoveForms DEF TryLock
    <2>3. QED
      BY <1>1, <2>2, Stutters DEF TryLock
  <1>2. CASE Lock(t)
    <2>1. Sessions' = Sessions
      BY <1>2, SessionsKept, MoveForms DEF Lock
    <2>2. QED
      BY <1>2, <2>1, Stutters DEF Lock
  <1>3. CASE Check(t)
    <2>1. CASE ready[wring[t]] /\ Step(t, "process")
      <3>1. Contract!Begin(wring[t])
        BY <1>3, <2>1, SessionBegins DEF Check, Contract!Begin
      <3>2. QED
        BY <1>0, <3>1 DEF ContractStep, Contract!RingNext
    <2>2. CASE Return(t)
      <3>1. Sessions' = Sessions
        BY <1>3, <2>2, SessionsKept, MoveForms DEF Check
      <3>2. QED
        BY <1>3, <3>1, Stutters DEF Check
    <2>3. QED
      BY <1>3, <2>1, <2>2, Zenon DEF Check
  <1>4. CASE Signal(t)
    <2>1. CASE Step(t, "process")
      <3>1. Sessions' = Sessions
        BY <1>4, <2>1, SessionsKept DEF Signal, Step
      <3>2. QED
        BY <1>4, <3>1, Stutters DEF Signal
    <2>2. CASE Return(t)
      <3>1. /\ Sessions[wring[t]]
            /\ Sessions' = [Sessions EXCEPT ![wring[t]] = FALSE]
        BY <1>4, <2>2, SessionEnds, MoveForms DEF Signal
      <3>2. Contract!End(wring[t])
        BY <1>4, <3>1 DEF Signal, Contract!End
      <3>3. QED
        BY <1>0, <3>2 DEF ContractStep, Contract!RingNext
    <2>3. QED
      BY <1>4, <2>1, <2>2, Zenon DEF Signal
  <1>5. CASE LockPoisoned(t)
    <2>1. PICK pc \in EndedPc : Exit(t, pc)
      BY <1>5 DEF LockPoisoned
    <2>2. Sessions' = Sessions
      BY <1>5, <2>1, SessionsKept, MoveForms DEF LockPoisoned
    <2>3. QED
      BY <1>5, <2>2, Stutters DEF LockPoisoned
  <1>6. QED
    BY <1>1, <1>2, <1>3, <1>4, <1>5 DEF Guarded

LEMMA StepKeepsContract ==
  TypeOK /\ StopInv /\ Dormant /\ StartHeld /\ [Next]_vars => ContractStep
  <1> SUFFICES ASSUME TypeOK, StopInv, Dormant, StartHeld, [Next]_vars
               PROVE  ContractStep
    OBVIOUS
  <1> USE DEF ringVars, envVars, handlerVars, threadVars
  <1>1. CASE Request
    BY <1>1, RequestContract
  <1>2. CASE Handler
    BY <1>2, HandlerContract
  <1>3. CASE \E w \in Workers : Worker(w)
    BY <1>3, WorkerContract
  <1>4. CASE \E t \in Threads : Guarded(t)
    BY <1>4, GuardedContract
  <1>5. ASSUME NEW w \in Ports, NEW r \in Serves[w], IoReady(w, r)  PROVE ContractStep
    <2>1. w \in Threads /\ r \in Rings
      BY ConstantsAssumption
    <2>2. Sessions' = Sessions
      BY <1>5, <2>1, SessionsKept DEF IoReady
    <2>3. QED
      BY <1>5, <2>2, Stutters DEF IoReady
  <1>6. CASE \E c \in Completers : Completer(c)
    BY <1>6, CompleterContract
  <1>7. ASSUME NEW r \in Rings, Publish(r)  PROVE ContractStep
    <2>1. Contract!MakeAvailable(r)
      BY <1>7, SameThreads DEF Publish, Contract!MakeAvailable
    <2>2. QED
      BY <2>1 DEF ContractStep, Contract!RingNext
  <1>8. CASE (\E r \in Rings : Kick(r)) \/ UNCHANGED vars
    BY <1>8, Stutters, SameThreads DEF Kick, vars
  <1>9. QED
    BY <1>1, <1>2, <1>3, <1>4, <1>5, <1>6, <1>7, <1>8 DEF Next

\* The vrings implement Ring, for any number of rings, threads and eventfds, both
\* ways of activation and any order of requests: whatever the device threads and
\* the requests do, a ring is taken from in sessions, which never overlap a stop
\* or a rewind, and GET_VRING_BASE answers the index of a ring that has stopped.
THEOREM VringKeepsContract == Spec => ImplementsRing
  <1>1. Init => Contract!RingInit
    <2>1. Init => Sessions = [r \in Rings |-> FALSE]
      BY DEF Init, Sessions, Processing
    <2>2. QED
      BY <2>1 DEF Init, Contract!RingInit
  <1>2. Init => Dormant /\ StartHeld
    BY DEF Init, Dormant, StartHeld
  <1>3. QED
    BY <1>1, <1>2, StepKeepsContract, StartHeldNext, DormantInductive, TypeCorrect,
       StopInvariant, PTL DEF Spec, ImplementsRing, Contract!RingSpec, ContractStep

-----------------------------------------------------------------------------
(* The queue mutex is not leaked. *)

\* A thread moves and keeps what it holds.
LEMMA ReleasedMove ==
  ASSUME TypeOK, QueueReleased, NEW t \in Threads, NEW pc \in WorkerPc,
         wpc' = [wpc EXCEPT ![t] = pc], UNCHANGED lock,
         \/ wpc[t] \notin LockPc /\ \E r \in Rings : wring' = [wring EXCEPT ![t] = r]
         \/ pc \in LockPc /\ UNCHANGED wring
  PROVE  QueueReleased'
  BY ConstantsAssumption DEF QueueReleased, TypeOK

\* A thread drops the guard of its ring, the only one it has, or panics with it.
LEMMA ReleasedUnlock ==
  ASSUME TypeOK, QueueReleased, NEW t \in Threads, NEW pc \in WorkerPc,
         wpc' = [wpc EXCEPT ![t] = pc],
         Unlock(t) \/ lock' = [lock EXCEPT ![wring[t]] = Poisoned],
         \E r \in Rings : wring' = [wring EXCEPT ![t] = r]
  PROVE  QueueReleased'
  <1> SUFFICES ASSUME NEW r \in Rings, lock'[r] \notin {Free, Poisoned}
               PROVE  wpc'[lock'[r]] \in LockPc /\ wring'[lock'[r]] = r
    BY DEF QueueReleased
  <1>1. wring[t] \in Rings /\ r # wring[t] /\ lock'[r] = lock[r]
    BY DEF Unlock, TypeOK
  <1>2. lock[r] \in Threads /\ wpc[lock[r]] \in LockPc /\ wring[lock[r]] = r
    BY <1>1 DEF QueueReleased, TypeOK
  <1>3. lock[r] # t
    BY <1>1, <1>2
  <1>4. QED
    BY <1>1, <1>2, <1>3 DEF TypeOK

LEMMA ReleasedFrame ==
  ASSUME QueueReleased, UNCHANGED <<lock, wpc, wring>>
  PROVE  QueueReleased'
  BY DEF QueueReleased

LEMMA WorkerReleased ==
  ASSUME TypeOK, QueueReleased, NEW w \in Workers, Worker(w)
  PROVE  QueueReleased'
  <1> USE DEF ringVars, envVars, handlerVars, threadVars
  <1>0. w \in Threads
    OBVIOUS
  <1>1. CASE RegisterLoad(w)
    <2>1. \E pc \in {"wait", "ctl"} :
            /\ wpc' = [wpc EXCEPT ![w] = pc]
            /\ \E r \in Rings : wring' = [wring EXCEPT ![w] = r]
      BY <1>1, AnyRingType DEF RegisterLoad, Return, Exit, TypeOK
    <2>2. QED
      BY <1>0, <1>1, <2>1, ReleasedMove DEF RegisterLoad
  <1>2. CASE RegisterCtl(w) \/ AddEpoll(w) \/ ReadKick(w) \/ LateSignalUsed(w)
    BY <1>0, <1>2, ReleasedMove, MoveForms
       DEF RegisterCtl, AddEpoll, ReadKick, LateSignalUsed
  <1>3. CASE Wait(w)
    BY <1>3, ReleasedFrame DEF Wait
  <1>4. CASE NextEvent(w)
    <2>1. \E r \in Rings : wring' = [wring EXCEPT ![w] = r]
      BY <1>4 DEF NextEvent, TypeOK
    <2>2. QED
      BY <1>0, <1>4, <2>1, ReleasedMove DEF NextEvent
  <1>5. CASE KickEnabled(w)
    <2>1. Step(w, "try") \/ Return(w)
      BY <1>5, Zenon DEF KickEnabled, StepIf
    <2>2. QED
      BY <1>0, <1>5, <2>1, ReleasedMove, MoveForms DEF KickEnabled
  <1>6. CASE Drained(w)
    <2>1. CASE Step(w, "signal") /\ UNCHANGED lock
      BY <1>0, <2>1, ReleasedMove DEF Step
    <2>2. CASE (Step(w, "late") \/ Return(w)) /\ Unlock(w)
      BY <1>0, <2>2, ReleasedUnlock, MoveForms
    <2>3. QED
      BY <1>6, <2>1, <2>2, Zenon DEF Drained
  <1>7. CASE Pop(w) \/ ProcessFence(w)
    <2>1. PICK pc \in SessionPc : Step(w, pc)
      BY <1>7, Zenon DEF Pop, ProcessFence
    <2>2. QED
      BY <1>0, <1>7, <2>1, ReleasedMove DEF Pop, ProcessFence, Step
  <1>8. CASE Fail(w)
    BY <1>0, <1>8, ReleasedUnlock, MoveForms DEF Fail
  <1>9. CASE Die(w)
    BY <1>0, <1>9, ReleasedMove, MoveForms DEF Die
  <1>10. QED
    BY <1>1, <1>2, <1>3, <1>4, <1>5, <1>6, <1>7, <1>8, <1>9 DEF Worker

LEMMA GuardedReleased ==
  ASSUME TypeOK, QueueReleased, NEW t \in Threads, Guarded(t)
  PROVE  QueueReleased'
  <1> USE DEF ringVars, envVars, handlerVars, threadVars
  <1>1. CASE TryLock(t)
    <2>1. Step(t, "lock") \/ Return(t)
      BY <1>1, Zenon DEF TryLock, StepIf
    <2>2. QED
      BY <1>1, <2>1, ReleasedMove, MoveForms DEF TryLock
  <1>2. CASE Lock(t)
    BY <1>2 DEF Lock, Step, QueueReleased, TypeOK
  <1>3. CASE Check(t)
    <2>1. CASE Step(t, "process") /\ UNCHANGED lock
      BY <2>1, ReleasedMove DEF Step
    <2>2. CASE Return(t) /\ Unlock(t)
      BY <2>2, ReleasedUnlock, MoveForms
    <2>3. QED
      BY <1>3, <2>1, <2>2, Zenon DEF Check
  <1>4. CASE Signal(t)
    <2>1. CASE Step(t, "process") /\ UNCHANGED lock
      BY <2>1, ReleasedMove DEF Step
    <2>2. CASE Return(t) /\ Unlock(t)
      BY <2>2, ReleasedUnlock, MoveForms
    <2>3. QED
      BY <1>4, <2>1, <2>2, Zenon DEF Signal
  <1>5. CASE LockPoisoned(t)
    <2>1. PICK pc \in EndedPc : Exit(t, pc)
      BY <1>5 DEF LockPoisoned
    <2>2. QED
      BY <1>5, <2>1, ReleasedMove, MoveForms DEF LockPoisoned
  <1>6. QED
    BY <1>1, <1>2, <1>3, <1>4, <1>5 DEF Guarded

LEMMA ReleasedNext == TypeOK /\ Dormant /\ QueueReleased /\ [Next]_vars => QueueReleased'
  <1> SUFFICES ASSUME TypeOK, Dormant, QueueReleased, [Next]_vars PROVE QueueReleased'
    OBVIOUS
  <1> USE DEF ringVars, envVars, handlerVars, threadVars
  <1>1. CASE Request
    BY <1>1, ReleasedFrame DEF Request, SetVringKick, SetVringCall, SetVringEnable,
                               SetVringBase, GetVringBase, SetMemTable
  <1>2. CASE QueueMut \/ IsStarted \/ Rebind \/ InitializeVring \/ Start \/ WatchKick
    BY <1>2, ReleasedFrame DEF QueueMut, IsStarted, Rebind, InitializeVring, Start, WatchKick
  <1>3. CASE ActivateReturns \/ Stop \/ Halt \/ ReadBase \/ DropKick \/ DropCall
    BY <1>3, ReleasedFrame DEF ActivateReturns, Stop, Halt, ReadBase, DropKick, DropCall
  <1>4. CASE Activate
    <2>1. \A t \in Threads : wpc[t] \in LockPc => wpc'[t] = wpc[t]
      BY <1>4 DEF Activate, Dormant, TypeOK
    <2>2. UNCHANGED <<lock, wring>>
      BY <1>4 DEF Activate
    <2>3. QED
      BY <2>1, <2>2 DEF QueueReleased, TypeOK
  <1>5. CASE \E w \in Workers : Worker(w)
    BY <1>5, WorkerReleased
  <1>6. CASE \E t \in Threads : Guarded(t)
    BY <1>6, GuardedReleased
  <1>7. ASSUME NEW w \in Ports, NEW r \in Serves[w], IoReady(w, r)  PROVE QueueReleased'
    <2>1. w \in Threads /\ r \in Rings
      BY ConstantsAssumption
    <2>2. QED
      BY <1>7, <2>1, ReleasedMove DEF IoReady
  <1>8. ASSUME NEW c \in Completers, Completer(c)  PROVE QueueReleased'
    <2>1. CASE CompleteUsed(c)
      BY <2>1, ReleasedMove DEF CompleteUsed, Step
    <2>2. CASE FenceHandler(c) \/ FenceReturns(c)
      BY <2>2, ReleasedMove, MoveForms DEF FenceHandler, FenceReturns
    <2>3. CASE \E r \in Rings : Complete(c, r)
      BY <2>3, ReleasedMove DEF Complete
    <2>4. QED
      BY <1>8, <2>1, <2>2, <2>3 DEF Completer
  <1>9. CASE (\E r \in Rings : Publish(r) \/ Kick(r)) \/ UNCHANGED vars
    BY <1>9, ReleasedFrame DEF Publish, Kick, vars
  <1>10. QED
    BY <1>1, <1>2, <1>3, <1>4, <1>5, <1>6, <1>7, <1>8, <1>9 DEF Next, Handler

\* A step of a thread keeps workers and fence handlers apart, if a worker leaves
\* epoll_wait only while no fence handler runs.
LEMMA ApartMove ==
  ASSUME TypeOK, HolderGoesOn, NEW t \in Threads, NEW pc \in WorkerPc,
         wpc' = [wpc EXCEPT ![t] = pc],
         t \in Workers => wpc[t] # "wait" \/ pc = "wait" \/ AtLarge,
         t \in Completers => wpc[t] # "wait"
  PROVE  Polled => \A w \in Workers : wpc'[w] # "wait" => \A c \in Completers : wpc'[c] = "wait"
  <1> SUFFICES ASSUME Polled, NEW w \in Workers, wpc'[w] # "wait", NEW c \in Completers
               PROVE  wpc'[c] = "wait"
    OBVIOUS
  <1>0. Workers \cap Completers = {}
    BY ConstantsAssumption
  <1>1. CASE t = w
    <2>1. wpc[c] = "wait"
      BY <1>1 DEF HolderGoesOn, FenceFree, AtLarge, TypeOK
    <2>2. QED
      BY <1>0, <1>1, <2>1 DEF TypeOK
  <1>2. CASE t # w
    <2>1. wpc[w] # "wait"
      BY <1>2 DEF TypeOK
    <2>2. wpc[c] = "wait" /\ FenceFree
      BY <2>1 DEF HolderGoesOn, FenceFree
    <2>3. t # c
      BY <2>2
    <2>4. QED
      BY <2>2, <2>3 DEF TypeOK
  <1>3. QED
    BY <1>1, <1>2

\* Workers and fence handlers that are apart do not wait for each other.
LEMMA HolderMove ==
  ASSUME TypeOK, HolderGoesOn, NEW t \in Threads, NEW pc \in WorkerPc,
         wpc' = [wpc EXCEPT ![t] = pc],
         t \in Workers => wpc[t] # "wait" \/ pc = "wait" \/ AtLarge,
         t \in Completers => wpc[t] # "wait"
  PROVE  HolderGoesOn'
  <1>1. (Polled => \A w \in Workers : wpc[w] # "wait" => FenceFree)'
    BY ApartMove DEF FenceFree
  <1>2. (Polled => \A w \in Workers : wpc[w] # "wait" => FenceFree)' => HolderGoesOn'
    BY DEF HolderGoesOn, FenceDeadlock, FenceFree
  <1>3. QED
    BY <1>1, <1>2

LEMMA HolderFrame ==
  ASSUME HolderGoesOn, UNCHANGED <<wpc, wring>>
  PROVE  HolderGoesOn'
  BY DEF HolderGoesOn, FenceDeadlock, FenceFree

LEMMA WorkerHolder ==
  ASSUME TypeOK, HolderGoesOn, NEW w \in Workers, Worker(w)
  PROVE  HolderGoesOn'
  <1>0. w \in Threads /\ w \notin Completers
    BY ConstantsAssumption
  <1>1. CASE Wait(w)
    BY <1>1, HolderFrame DEF Wait
  <1>2. CASE NextEvent(w)
    BY <1>0, <1>2, HolderMove DEF NextEvent
  <1>3. CASE RegisterLoad(w)
    <2>1. \E pc \in {"wait", "ctl"} : wpc' = [wpc EXCEPT ![w] = pc]
      BY <1>0, <1>3, MoveForms DEF RegisterLoad, Return
    <2>2. QED
      BY <1>0, <1>3, <2>1, HolderMove DEF RegisterLoad
  <1>4. CASE RegisterCtl(w) \/ AddEpoll(w) \/ ReadKick(w) \/ Die(w)
    BY <1>0, <1>4, HolderMove, MoveForms DEF RegisterCtl, AddEpoll, ReadKick, Die
  <1>5. CASE KickEnabled(w) \/ LateSignalUsed(w)
    <2>1. Step(w, "try") \/ Return(w)
      BY <1>5, Zenon DEF KickEnabled, LateSignalUsed, StepIf
    <2>2. QED
      BY <1>0, <1>5, <2>1, HolderMove, MoveForms DEF KickEnabled, LateSignalUsed
  <1>6. CASE Pop(w) \/ ProcessFence(w)
    <2>1. PICK pc \in SessionPc : Step(w, pc)
      BY <1>6, Zenon DEF Pop, ProcessFence
    <2>2. QED
      BY <1>0, <1>6, <2>1, HolderMove DEF Pop, ProcessFence, Step
  <1>7. CASE Fail(w)
    BY <1>0, <1>7, HolderMove, MoveForms DEF Fail
  <1>8. CASE Drained(w)
    <2>1. Step(w, "signal") \/ Step(w, "late") \/ Return(w)
      BY <1>8, Zenon DEF Drained
    <2>2. QED
      BY <1>0, <1>8, <2>1, HolderMove, MoveForms DEF Drained
  <1>9. QED
    BY <1>1, <1>2, <1>3, <1>4, <1>5, <1>6, <1>7, <1>8 DEF Worker

LEMMA GuardedHolder ==
  ASSUME TypeOK, HolderGoesOn, NEW t \in Threads, Guarded(t)
  PROVE  HolderGoesOn'
  <1>1. wpc[t] # "wait"
    BY DEF Guarded, TryLock, Lock, LockPoisoned, Check, Signal
  <1>2. (\E pc \in WorkerPc : Step(t, pc) \/ Exit(t, pc)) \/ Return(t)
    BY DEF Guarded, TryLock, Lock, LockPoisoned, Check, Signal, StepIf
  <1>3. QED
    BY <1>1, <1>2, HolderMove, MoveForms

LEMMA CompleterHolder ==
  ASSUME TypeOK, HolderGoesOn, NEW c \in Completers, Completer(c)
  PROVE  HolderGoesOn'
  <1>0. c \in Threads /\ c \notin Workers
    BY ConstantsAssumption
  <1>1. CASE FenceHandler(c)
    <2>1. wpc' = [wpc EXCEPT ![c] = "scan"] /\ UNCHANGED wring
      BY <1>1 DEF FenceHandler, Step
    <2>2. Polled => \A w \in Workers : wpc'[w] = "wait"
      BY <1>0, <1>1, <2>1 DEF FenceHandler, TypeOK
    <2>3. QED
      BY <2>2 DEF HolderGoesOn, FenceDeadlock
  <1>2. CASE FenceReturns(c) \/ CompleteUsed(c)
    BY <1>0, <1>2, HolderMove, MoveForms DEF FenceReturns, CompleteUsed
  <1>3. CASE \E r \in Rings : Complete(c, r)
    BY <1>0, <1>3, HolderMove DEF Complete
  <1>4. QED
    BY <1>1, <1>2, <1>3 DEF Completer

LEMMA HolderNext == TypeOK /\ Dormant /\ HolderGoesOn /\ [Next]_vars => HolderGoesOn'
  <1> USE DEF ringVars, envVars, handlerVars, threadVars
  <1> SUFFICES ASSUME TypeOK, Dormant, HolderGoesOn, [Next]_vars
               PROVE  HolderGoesOn'
    OBVIOUS
  <1>1. CASE Request
    BY <1>1, HolderFrame DEF Request, SetVringKick, SetVringCall, SetVringEnable,
         SetVringBase, GetVringBase, SetMemTable
  <1>2. CASE QueueMut \/ IsStarted \/ Rebind \/ InitializeVring \/ Start \/ WatchKick
    BY <1>2, HolderFrame DEF QueueMut, IsStarted, Rebind, InitializeVring, Start, WatchKick
  <1>3. CASE ActivateReturns \/ Stop \/ Halt \/ ReadBase \/ DropKick \/ DropCall
    BY <1>3, HolderFrame DEF ActivateReturns, Stop, Halt, ReadBase, DropKick, DropCall
  <1>4. CASE Activate
    <2>1. CASE UNCHANGED wpc
      BY <1>4, <2>1, HolderFrame DEF Activate
    <2>2. CASE ~ activated /\ \A c \in Completers : wpc'[c] = wpc[c]
      <3>1. \A w \in Workers : wpc[w] # "wait"
        BY <2>2 DEF Dormant
      <3>2. Polled /\ Workers # {} => \A c \in Completers : wpc'[c] = "wait"
        BY <2>2, <3>1 DEF HolderGoesOn, FenceFree
      <3>3. QED
        BY <3>2 DEF HolderGoesOn, FenceDeadlock, FenceFree
    <2>3. ~ UNCHANGED wpc => ~ activated /\ \A c \in Completers : wpc'[c] = wpc[c]
      BY <1>4, ConstantsAssumption DEF Activate, TypeOK
    <2>4. QED
      BY <2>1, <2>2, <2>3
  <1>5. CASE \E w \in Workers : Worker(w)
    BY <1>5, WorkerHolder
  <1>6. CASE \E t \in Threads : Guarded(t)
    BY <1>6, GuardedHolder
  <1>7. CASE \E c \in Completers : Completer(c)
    BY <1>7, CompleterHolder
  <1>8. ASSUME NEW w \in Ports, NEW r \in Serves[w], IoReady(w, r)  PROVE HolderGoesOn'
    <2>1. w \in Threads /\ w \notin Completers
      BY ConstantsAssumption
    <2>2. QED
      BY <1>8, <2>1, HolderMove DEF IoReady
  <1>9. CASE (\E r \in Rings : Publish(r) \/ Kick(r)) \/ UNCHANGED vars
    BY <1>9, HolderFrame DEF Publish, Kick, vars
  <1>10. QED
    BY <1>1, <1>2, <1>3, <1>4, <1>5, <1>6, <1>7, <1>8, <1>9 DEF Next, Handler

\* No return of try_lock_queue or of its callers keeps the queue locked, with any
\* number of threads: whoever waits for the mutex waits for a thread inside, or for
\* one that panicked there.  With fences that rutabaga polls, the thread inside does
\* not wait for fence_state in turn.
THEOREM QueueNeverLeaked == Spec => [](QueueReleased /\ HolderGoesOn)
  <1>1. Init => Dormant /\ QueueReleased /\ HolderGoesOn
    BY ConstantsAssumption
       DEF Init, Dormant, QueueReleased, HolderGoesOn, FenceFree, FenceDeadlock
  <1>2. QED
    BY <1>1, ReleasedNext, HolderNext, DormantInductive, TypeCorrect, PTL DEF Spec
=============================================================================
