--------------------------- MODULE GpuFenceProofs ---------------------------
(***************************************************************************)
(* Proofs about GpuFence, for any number of commands and fence rings, with *)
(* the fence handler on the worker or on threads of its own.               *)
(***************************************************************************)
EXTENDS GpuFence, TLAPS

Inv == TypeOK /\ FenceInv

USE DEF Inv

\* What FenceInv talks about, apart from the worker's place.
invVars == <<cmds, next_avail, used, fence_lock, fenceVars>>

LEMMA FrameInv ==
  ASSUME FenceInv, UNCHANGED invVars,
         \/ UNCHANGED wpc
         \/ wpc \notin {"process", "dead"} /\ wpc' \notin {"process", "dead"}
  PROVE  FenceInv'
  <1> USE DEF invVars, fenceVars
  <1>1. InHand' = InHand /\ Returning' = Returning
    BY DEF InHand, Returning
  <1>2. DescriptorConserved' /\ NeverBeforeFence' /\ FenceNotMissed'
    BY <1>1 DEF FenceInv, DescriptorConserved, NeverBeforeFence, FenceNotMissed
  <1>3. FenceHeld' /\ HandlerAhead' /\ OpenAhead' /\ SignalledSeen'
    BY DEF FenceInv, FenceHeld, HandlerAhead, OpenAhead, SignalledSeen
  <1>4. Fenced'
    BY DEF FenceInv, Fenced
  <1>5. QED
    BY <1>2, <1>3, <1>4 DEF FenceInv

\* Appending a command leaves the earlier ones.
LEMMA AppendKeeps ==
  ASSUME TypeOK, NEW c \in FenceRings \cup {Plain}, cmds' = Append(cmds, c)
  PROVE  /\ cmds' \in Seq(FenceRings \cup {Plain})
         /\ Len(cmds') = Len(cmds) + 1
         /\ \A n \in 1 .. Len(cmds) : cmds'[n] = cmds[n]
  BY DEF TypeOK

LEMMA PublishInv ==
  ASSUME Inv, NEW c \in FenceRings \cup {Plain}, Publish(c)
  PROVE  Inv'
  <1> USE DEF fenceVars, lockVars, queueVars
  <1>1. /\ cmds' \in Seq(FenceRings \cup {Plain})
        /\ Len(cmds') = Len(cmds) + 1
        /\ \A n \in 1 .. next_avail : cmds'[n] = cmds[n]
    BY AppendKeeps DEF Publish, TypeOK
  <1>2. TypeOK'
    BY <1>1, SMTT(20) DEF Publish, TypeOK
  <1>3. InHand' = InHand /\ Returning' = Returning
    BY DEF Publish, InHand, Returning
  <1>4. DescriptorConserved' /\ NeverBeforeFence'
    BY <1>3 DEF Publish, FenceInv, DescriptorConserved, NeverBeforeFence
  <1>5. FenceNotMissed' /\ OpenAhead' /\ SignalledSeen' /\ Fenced'
    <2>1. \A n \in created \cup signalled \cup descs : cmds'[n] = cmds[n]
      BY <1>1 DEF TypeOK
    <2>2. FenceNotMissed'
      BY <2>1 DEF Publish, FenceInv, FenceNotMissed
    <2>3. OpenAhead' /\ SignalledSeen'
      BY <2>1 DEF Publish, FenceInv, OpenAhead, SignalledSeen
    <2>4. Fenced'
      <3>1. wpc = "process" => next_avail \in 1 .. next_avail
        BY DEF FenceInv, Fenced, TypeOK
      <3>2. QED
        BY <1>1, <2>1, <3>1 DEF Publish, FenceInv, Fenced
    <2>5. QED
      BY <2>2, <2>3, <2>4
  <1>6. FenceHeld' /\ HandlerAhead'
    BY <1>1 DEF Publish, FenceInv, FenceHeld, HandlerAhead, TypeOK
  <1>7. QED
    BY <1>2, <1>4, <1>5, <1>6 DEF FenceInv

LEMMA QuietInv ==
  ASSUME Inv,
         \/ Kick \/ ReadKick \/ TryLockQueue \/ Drained \/ SignalUsed \/ Arm
         \/ Recheck \/ \E a \in BOOLEAN : SetAvailable(a)
  PROVE  Inv'
  <1> USE DEF fenceVars, lockVars, queueVars, driverVars
  <1>1. UNCHANGED invVars
    <2>1. CASE Kick \/ ReadKick \/ SignalUsed \/ Arm
      BY <2>1 DEF invVars, Kick, ReadKick, SignalUsed, Arm
    <2>2. CASE TryLockQueue \/ Drained \/ Recheck
      BY <2>2 DEF invVars, TryLockQueue, Drained, Recheck
    <2>3. CASE \E a \in BOOLEAN : SetAvailable(a)
      BY <2>3 DEF invVars, SetAvailable
    <2>4. QED
      BY <2>1, <2>2, <2>3
  <1>2. \/ UNCHANGED wpc
        \/ wpc \notin {"process", "dead"} /\ wpc' \notin {"process", "dead"}
    <2>0. CASE Kick
      BY <2>0 DEF Kick
    <2>1. CASE \E a \in BOOLEAN : SetAvailable(a)
      BY <2>1 DEF SetAvailable
    <2>2. CASE ReadKick \/ TryLockQueue \/ Drained
      BY <2>2 DEF ReadKick, TryLockQueue, Drained
    <2>3. CASE SignalUsed \/ Arm \/ Recheck
      BY <2>3 DEF SignalUsed, Arm, Recheck
    <2>4. QED
      BY <2>0, <2>1, <2>2, <2>3
  <1>3. FenceInv'
    BY <1>1, <1>2, FrameInv
  <1>4. TypeOK'
    <2>1. CASE Kick
      BY <2>1 DEF Kick, TypeOK
    <2>2. CASE ReadKick
      BY <2>2 DEF ReadKick, TypeOK
    <2>3. CASE TryLockQueue
      BY <2>3 DEF TryLockQueue, TypeOK
    <2>4. CASE Drained \/ Recheck
      BY <2>4 DEF Drained, Recheck, TypeOK
    <2>5. CASE SignalUsed
      BY <2>5 DEF SignalUsed, TypeOK
    <2>6. CASE Arm
      BY <2>6 DEF Arm, TypeOK
    <2>7. CASE \E a \in BOOLEAN : SetAvailable(a)
      BY <2>7 DEF SetAvailable, TypeOK
    <2>8. QED
      BY <2>1, <2>2, <2>3, <2>4, <2>5, <2>6, <2>7
  <1>5. QED
    BY <1>3, <1>4

-----------------------------------------------------------------------------
(* The worker. *)

LEMMA ExecutePlainInv == Inv /\ ExecutePlain => Inv'
  <1> SUFFICES ASSUME Inv, ExecutePlain PROVE Inv'
    OBVIOUS
  <1> USE DEF fenceVars, lockVars, driverVars
  <1>1. next_avail' = next_avail + 1 /\ next_avail' \in 1 .. Len(cmds)
    BY DEF ExecutePlain, Pop, TypeOK
  <1>2. TypeOK'
    BY <1>1 DEF ExecutePlain, AddUsed, TypeOK
  <1>3. InHand = {} /\ InHand' = {} /\ Returning' = Returning
    BY DEF ExecutePlain, Pop, InHand, Returning
  <1>4. DescriptorConserved' /\ NeverBeforeFence'
    BY <1>1, <1>3 DEF ExecutePlain, AddUsed, FenceInv, DescriptorConserved,
                      NeverBeforeFence, TypeOK
  <1>5. FenceNotMissed' /\ OpenAhead' /\ SignalledSeen' /\ Fenced'
    BY DEF ExecutePlain, Pop, FenceInv, FenceNotMissed, OpenAhead, SignalledSeen, Fenced
  <1>6. FenceHeld' /\ HandlerAhead'
    BY <1>1 DEF ExecutePlain, FenceInv, FenceHeld, HandlerAhead, TypeOK
  <1>7. QED
    BY <1>2, <1>4, <1>5, <1>6 DEF FenceInv

LEMMA CreateFenceInv ==
  ASSUME Inv, NEW ok \in BOOLEAN, CreateFence(ok)
  PROVE  Inv'
  <1> USE DEF fenceVars, lockVars, driverVars
  <1>1. next_avail' = next_avail + 1 /\ next_avail' \in 1 .. Len(cmds)
    BY DEF CreateFence, Pop, TypeOK
  <1>2. created' \subseteq created \cup {next_avail'} /\ cmds[next_avail'] \in FenceRings
    BY <1>1 DEF CreateFence, TypeOK
  <1>3. TypeOK'
    BY <1>1, <1>2 DEF CreateFence, TypeOK
  <1>4. InHand = {} /\ InHand' = {next_avail'} /\ Returning' = Returning
    BY DEF CreateFence, Pop, InHand, Returning
  <1>5. DescriptorConserved'
    BY <1>1, <1>4 DEF CreateFence, FenceInv, DescriptorConserved, TypeOK
  <1>6. NeverBeforeFence'
    BY <1>1, <1>2 DEF CreateFence, FenceInv, NeverBeforeFence, TypeOK
  <1>7. FenceNotMissed' /\ SignalledSeen' /\ Fenced'
    BY <1>1, <1>2 DEF CreateFence, FenceInv, FenceNotMissed, SignalledSeen, Fenced
  <1>8. FenceHeld' /\ HandlerAhead'
    BY <1>1 DEF CreateFence, FenceInv, FenceHeld, HandlerAhead, TypeOK
  <1>9. OpenAhead'
    BY <1>1, <1>2 DEF CreateFence, FenceInv, OpenAhead, HandlerAhead, TypeOK
  <1>10. QED
    BY <1>3, <1>5, <1>6, <1>7, <1>8, <1>9 DEF FenceInv

LEMMA ProcessFenceInv == Inv /\ ProcessFence => Inv'
  <1> SUFFICES ASSUME Inv, ProcessFence PROVE Inv'
    OBVIOUS
  <1> USE DEF fenceVars, lockVars, driverVars
  <1> DEFINE n == next_avail
             q == cmds[next_avail]
  <1>1. n \in 1 .. next_avail /\ q \in FenceRings
    BY DEF ProcessFence, FenceInv, Fenced, TypeOK
  <1>2. TypeOK'
    BY <1>1 DEF ProcessFence, AddUsed, TypeOK
  <1>3. InHand = {n} /\ InHand' = {} /\ Returning' = Returning
    BY DEF ProcessFence, InHand, Returning
  <1>4. DescriptorConserved'
    BY <1>3 DEF ProcessFence, AddUsed, FenceInv, DescriptorConserved
  <1>5. NeverBeforeFence'
    <2>1. n <= completed_fences[q] => n \notin created
      BY <1>1 DEF FenceInv, OpenAhead, TypeOK
    <2>2. completed_fences[q] \in Nat /\ n \in Nat
      BY <1>1 DEF TypeOK
    <2>3. QED
      BY <2>1, <2>2 DEF ProcessFence, AddUsed, FenceInv, NeverBeforeFence
  <1>6. FenceNotMissed'
    <2>1. n > completed_fences[q] /\ n \in signalled => fpc[q] # "none" /\ n <= fence[q]
      BY <1>1 DEF FenceInv, SignalledSeen, TypeOK
    <2>2. fpc[q] \in {"none", "enter", "scan", "queue"}
      BY <1>1 DEF TypeOK
    <2>3. QED
      BY <2>1, <2>2 DEF ProcessFence, FenceInv, FenceNotMissed
  <1>7. OpenAhead' /\ SignalledSeen' /\ FenceHeld' /\ HandlerAhead'
    BY DEF ProcessFence, FenceInv, OpenAhead, SignalledSeen, FenceHeld, HandlerAhead
  <1>8. Fenced'
    BY <1>1 DEF ProcessFence, FenceInv, Fenced
  <1>9. QED
    BY <1>2, <1>4, <1>5, <1>6, <1>7, <1>8 DEF FenceInv

LEMMA FailInv == Inv /\ Fail => Inv'
  <1> SUFFICES ASSUME Inv, Fail PROVE Inv'
    OBVIOUS
  <1> USE DEF fenceVars, driverVars
  <1>1. \/ wpc = "process" /\ next_avail' = next_avail
        \/ wpc = "pop" /\ next_avail' = next_avail + 1 /\ next_avail' \in 1 .. Len(cmds)
    BY DEF Fail, Pop, TypeOK
  <1>2. TypeOK'
    BY <1>1 DEF Fail, TypeOK
  <1>3. InHand' = {next_avail'} /\ Returning' = Returning
        /\ InHand = IF wpc = "process" THEN {next_avail} ELSE {}
    BY <1>1 DEF Fail, InHand, Returning
  <1>4. DescriptorConserved'
    BY <1>1, <1>3 DEF Fail, FenceInv, DescriptorConserved, TypeOK
  <1>5. NeverBeforeFence' /\ FenceNotMissed' /\ OpenAhead' /\ SignalledSeen' /\ Fenced'
    BY DEF Fail, FenceInv, NeverBeforeFence, FenceNotMissed, OpenAhead, SignalledSeen,
           Fenced
  <1>6. FenceHeld' /\ HandlerAhead'
    BY <1>1 DEF Fail, FenceInv, FenceHeld, HandlerAhead, TypeOK
  <1>7. QED
    BY <1>2, <1>4, <1>5, <1>6 DEF FenceInv

-----------------------------------------------------------------------------
(* The fence handler. *)

LEMMA FenceSignalledInv ==
  ASSUME Inv, NEW q \in FenceRings, NEW n \in Ids, FenceSignalled(q, n)
  PROVE  Inv'
  <1> USE DEF lockVars, driverVars, queueVars
  <1> DEFINE now == {m \in created : cmds[m] = q /\ m <= n}
  <1>1. /\ n \in created /\ cmds[n] = q /\ fpc[q] = "none" /\ n \in 1 .. next_avail
        /\ created' = created \ now /\ signalled' = signalled \cup now
        /\ fpc' = [fpc EXCEPT ![q] = "enter"] /\ fence' = [fence EXCEPT ![q] = n]
    BY DEF FenceSignalled, TypeOK
  <1>2. wpc' = wpc \/ (wpc = "wait" /\ wpc' = "poll")
    BY DEF FenceSignalled
  <1>3. TypeOK'
    <2>1. /\ fpc' \in [FenceRings -> {"none", "enter", "scan", "queue"}]
          /\ fence' \in [FenceRings -> Nat]
      BY <1>1 DEF TypeOK
    <2>2. created' \subseteq 1 .. next_avail /\ signalled' \subseteq 1 .. next_avail
      BY <1>1 DEF TypeOK
    <2>3. wpc' \in {"wait", "lock", "pop", "process", "arm", "recheck", "poll", "dead"}
      BY <1>2 DEF TypeOK
    <2>4. QED
      BY <2>1, <2>2, <2>3 DEF FenceSignalled, TypeOK
  <1>4. InHand' = InHand
    BY <1>2 DEF FenceSignalled, InHand
  <1>5. Returning' = Returning
    BY <1>1 DEF FenceSignalled, Returning, TypeOK
  <1>6. DescriptorConserved' /\ NeverBeforeFence'
    BY <1>1, <1>4, <1>5 DEF FenceSignalled, FenceInv, DescriptorConserved,
                            NeverBeforeFence
  <1>7. FenceNotMissed'
    <2> SUFFICES ASSUME NEW m \in descs, m \in signalled'
                 PROVE  fpc'[cmds[m]] \in {"enter", "scan", "queue"} /\ m <= fence'[cmds[m]]
      BY DEF FenceSignalled, FenceNotMissed
    <2>1. CASE m \in signalled
      <3>1. fpc[cmds[m]] # "none" /\ cmds[m] \in FenceRings
        BY <2>1 DEF FenceInv, FenceNotMissed, Fenced
      <3>2. QED
        BY <1>1, <2>1, <3>1 DEF FenceInv, FenceNotMissed, TypeOK
    <2>2. CASE m \in now
      BY <1>1, <2>2 DEF TypeOK
    <2>3. QED
      BY <1>1, <2>1, <2>2
  <1>8. FenceHeld'
    BY <1>1 DEF FenceSignalled, FenceInv, FenceHeld, TypeOK
  <1>9. HandlerAhead'
    <2>1. completed_fences[q] <= n
      BY <1>1 DEF FenceInv, OpenAhead, TypeOK
    <2>2. QED
      BY <1>1, <2>1 DEF FenceSignalled, FenceInv, HandlerAhead, TypeOK
  <1>10. Fenced'
    BY <1>1, <1>2 DEF FenceSignalled, FenceInv, Fenced
  <1>11. OpenAhead'
    <2> SUFFICES ASSUME NEW m \in created'
                 PROVE  /\ m > completed_fences[cmds[m]]
                        /\ fpc'[cmds[m]] # "none" => m > fence'[cmds[m]]
      BY DEF FenceSignalled, OpenAhead
    <2>1. m \in created /\ cmds[m] \in FenceRings /\ m \in Nat /\ n \in Nat
      BY <1>1 DEF FenceInv, Fenced, TypeOK
    <2>2. CASE cmds[m] = q
      BY <1>1, <2>1, <2>2 DEF FenceInv, OpenAhead, TypeOK
    <2>3. CASE cmds[m] # q
      BY <1>1, <2>1, <2>3 DEF FenceInv, OpenAhead, TypeOK
    <2>4. QED
      BY <2>2, <2>3
  <1>12. SignalledSeen'
    <2> SUFFICES ASSUME NEW m \in signalled'
                 PROVE  \/ m <= completed_fences[cmds[m]]
                        \/ fpc'[cmds[m]] # "none" /\ m <= fence'[cmds[m]]
      BY DEF FenceSignalled, SignalledSeen
    <2>1. CASE m \in signalled
      <3>1. cmds[m] \in FenceRings
        BY <2>1 DEF FenceInv, Fenced
      <3>2. QED
        BY <1>1, <2>1, <3>1 DEF FenceInv, SignalledSeen, TypeOK
    <2>2. CASE m \in now
      BY <1>1, <2>2 DEF TypeOK
    <2>3. QED
      BY <1>1, <2>1, <2>2
  <1>13. QED
    BY <1>3, <1>6, <1>7, <1>8, <1>9, <1>10, <1>11, <1>12 DEF FenceInv

LEMMA EnterInv ==
  ASSUME Inv, NEW q \in FenceRings, Enter(q)
  PROVE  Inv'
  <1> USE DEF driverVars, queueVars
  <1>1. /\ fpc[q] = "enter" /\ fpc' = [fpc EXCEPT ![q] = "scan"] /\ fence_lock = Free
        /\ fence_lock' = q
    BY DEF Enter
  <1>2. TypeOK'
    BY <1>1 DEF Enter, TypeOK
  <1>3. InHand' = InHand
    BY DEF Enter, InHand
  <1>4. Returning' = Returning
    BY <1>1 DEF Enter, Returning, TypeOK
  <1>5. DescriptorConserved' /\ NeverBeforeFence' /\ Fenced'
    BY <1>3, <1>4 DEF Enter, FenceInv, DescriptorConserved, NeverBeforeFence, Fenced
  <1>6. \A p \in FenceRings : (fpc'[p] = "none" <=> fpc[p] = "none")
                               /\ (fpc'[p] = "queue" <=> fpc[p] = "queue")
    BY <1>1 DEF TypeOK
  <1>7. FenceNotMissed'
    BY <1>1, <1>6 DEF Enter, FenceInv, FenceNotMissed, Fenced, TypeOK
  <1>8. FenceHeld'
    BY <1>1, ConstantsAssumption DEF Enter, FenceInv, FenceHeld, TypeOK
  <1>9. HandlerAhead'
    BY <1>6 DEF Enter, FenceInv, HandlerAhead
  <1>10. OpenAhead' /\ SignalledSeen'
    BY <1>6 DEF Enter, FenceInv, OpenAhead, SignalledSeen, Fenced
  <1>11. QED
    BY <1>2, <1>5, <1>7, <1>8, <1>9, <1>10 DEF FenceInv

\* The handler that holds fence_state is the only one at "queue".
LEMMA OneReturning ==
  ASSUME Inv, NEW q \in FenceRings, fpc[q] \in {"scan", "queue"}
  PROVE  /\ fpc[q] = "scan" => Returning = {}
         /\ fpc[q] = "queue" => Returning = {desc[q]}
  BY DEF FenceInv, FenceHeld, Returning

LEMMA ScanInv ==
  ASSUME Inv, NEW q \in FenceRings, Scan(q)
  PROVE  Inv'
  <1> USE DEF lockVars, driverVars, queueVars
  <1>1. PICK n \in Matching(q) :
          /\ descs' = descs \ {n}
          /\ \/ /\ available /\ desc' = [desc EXCEPT ![q] = n]
                /\ fpc' = [fpc EXCEPT ![q] = "queue"] /\ UNCHANGED dropped
             \/ /\ ~ available /\ dropped' = dropped \cup {n}
                /\ UNCHANGED <<desc, fpc>>
    BY DEF Scan
  <1>2. /\ n \in descs /\ cmds[n] = q /\ n <= fence[q] /\ n \in 1 .. next_avail
        /\ fpc[q] = "scan"
    BY DEF Scan, Matching, TypeOK
  <1>3. TypeOK'
    <2>0. n \in Nat
      BY <1>2 DEF TypeOK
    <2>1. /\ fpc' \in [FenceRings -> {"none", "enter", "scan", "queue"}]
          /\ desc' \in [FenceRings -> Nat]
      BY <1>1, <2>0 DEF TypeOK
    <2>2. descs' \subseteq 1 .. next_avail /\ dropped' \subseteq 1 .. next_avail
      BY <1>1, <1>2 DEF TypeOK
    <2>3. QED
      BY <2>1, <2>2, SMTT(20) DEF Scan, TypeOK
  <1>4. FenceHeld'
    BY <1>1, <1>2 DEF Scan, FenceInv, FenceHeld, TypeOK
  <1>5. InHand' = InHand
    BY DEF Scan, InHand
  <1>6. Returning = {}
    BY <1>2, OneReturning
  <1>7. DescriptorConserved'
    <2>1. CASE UNCHANGED <<desc, fpc>> /\ dropped' = dropped \cup {n}
      <3>1. Returning' = {}
        BY <1>6, <2>1 DEF Returning
      <3>2. QED
        BY <1>1, <1>2, <1>5, <1>6, <2>1, <3>1 DEF Scan, FenceInv, DescriptorConserved
    <2>2. CASE /\ desc' = [desc EXCEPT ![q] = n] /\ UNCHANGED dropped
               /\ fpc' = [fpc EXCEPT ![q] = "queue"]
      <3>1. Returning' = {n}
        BY <1>4, <2>2 DEF Returning, FenceHeld, TypeOK
      <3>2. QED
        BY <1>1, <1>2, <1>5, <1>6, <2>2, <3>1 DEF Scan, FenceInv, DescriptorConserved
    <2>3. QED
      BY <1>1, <2>1, <2>2
  <1>8. NeverBeforeFence' /\ Fenced'
    BY <1>1 DEF Scan, FenceInv, NeverBeforeFence, Fenced
  <1>9. \A p \in FenceRings : fpc'[p] = "none" <=> fpc[p] = "none"
    BY <1>1, <1>2 DEF TypeOK
  <1>10. FenceNotMissed'
    BY <1>1, <1>2, SMTT(20) DEF Scan, FenceInv, FenceNotMissed, Fenced, TypeOK
  <1>11. HandlerAhead'
    <2>1. n \in 1 .. fence[q]
      BY <1>2 DEF TypeOK
    <2>2. QED
      BY <1>1, <1>2, <2>1 DEF Scan, FenceInv, HandlerAhead, TypeOK
  <1>12. OpenAhead' /\ SignalledSeen'
    BY <1>9 DEF Scan, FenceInv, OpenAhead, SignalledSeen, Fenced
  <1>13. QED
    BY <1>3, <1>4, <1>7, <1>8, <1>10, <1>11, <1>12 DEF FenceInv

LEMMA ReturnDescInv ==
  ASSUME Inv, NEW q \in FenceRings, ReturnDesc(q)
  PROVE  Inv'
  <1> USE DEF lockVars, driverVars
  <1>1. /\ fpc[q] = "queue" /\ fpc' = [fpc EXCEPT ![q] = "scan"]
        /\ desc' = [desc EXCEPT ![q] = 0]
        /\ \/ used' = used \cup {desc[q]} /\ unsig' = {} /\ dropped' = dropped
           \/ dropped' = dropped \cup {desc[q]} /\ UNCHANGED <<used, unsig>>
    BY DEF ReturnDesc
  <1>2. desc[q] \in 1 .. fence[q] /\ cmds[desc[q]] = q /\ fence[q] <= next_avail
    BY <1>1 DEF FenceInv, HandlerAhead
  <1>3. desc[q] \in 1 .. next_avail
    BY <1>2 DEF TypeOK
  <1>4. TypeOK'
    <2>1. /\ fpc' \in [FenceRings -> {"none", "enter", "scan", "queue"}]
          /\ desc' \in [FenceRings -> Nat]
      BY <1>1 DEF TypeOK
    <2>2. /\ used' \subseteq 1 .. next_avail /\ dropped' \subseteq 1 .. next_avail
          /\ unsig' \subseteq used'
      BY <1>1, <1>3 DEF TypeOK
    <2>3. QED
      BY <2>1, <2>2 DEF ReturnDesc, TypeOK
  <1>5. FenceHeld'
    BY <1>1 DEF ReturnDesc, FenceInv, FenceHeld, TypeOK
  <1>6. InHand' = InHand
    BY DEF ReturnDesc, InHand
  <1>7. Returning = {desc[q]} /\ Returning' = {}
    <2>1. Returning = {desc[q]}
      BY <1>1, OneReturning
    <2>2. \A p \in FenceRings : fpc'[p] # "queue"
      BY <1>1 DEF FenceInv, FenceHeld, TypeOK
    <2>3. QED
      BY <2>1, <2>2 DEF Returning
  <1>8. DescriptorConserved'
    BY <1>1, <1>6, <1>7 DEF ReturnDesc, FenceInv, DescriptorConserved
  <1>9. NeverBeforeFence'
    <2>1. desc[q] \in created => desc[q] > fence[q]
      BY <1>1, <1>2 DEF FenceInv, OpenAhead
    <2>2. desc[q] \notin created
      BY <1>2, <2>1 DEF TypeOK
    <2>3. QED
      BY <1>1, <2>2 DEF ReturnDesc, FenceInv, NeverBeforeFence
  <1>10. \A p \in FenceRings : fpc'[p] = "none" <=> fpc[p] = "none"
    BY <1>1 DEF TypeOK
  <1>11. FenceNotMissed'
    BY <1>1 DEF ReturnDesc, FenceInv, FenceNotMissed, Fenced, TypeOK
  <1>12. HandlerAhead'
    BY <1>1 DEF ReturnDesc, FenceInv, HandlerAhead, TypeOK
  <1>13. OpenAhead' /\ SignalledSeen' /\ Fenced'
    BY <1>10 DEF ReturnDesc, FenceInv, OpenAhead, SignalledSeen, Fenced
  <1>14. QED
    BY <1>4, <1>5, <1>8, <1>9, <1>11, <1>12, <1>13 DEF FenceInv

LEMMA LeaveInv ==
  ASSUME Inv, NEW q \in FenceRings, Leave(q)
  PROVE  Inv'
  <1> USE DEF driverVars, queueVars
  <1>1. /\ fpc[q] = "scan" /\ Matching(q) = {}
        /\ completed_fences' = [completed_fences EXCEPT ![q] = fence[q]]
        /\ fpc' = [fpc EXCEPT ![q] = "none"] /\ fence_lock' = Free
    BY DEF Leave
  <1>2. wpc' = wpc \/ (wpc = "poll" /\ wpc' = "wait")
    BY DEF Leave
  <1>3. TypeOK'
    BY <1>1, <1>2 DEF Leave, TypeOK
  <1>4. InHand' = InHand
    BY <1>2 DEF Leave, InHand
  <1>5. Returning' = Returning
    BY <1>1 DEF Leave, Returning, TypeOK
  <1>6. DescriptorConserved' /\ NeverBeforeFence'
    BY <1>4, <1>5 DEF Leave, FenceInv, DescriptorConserved, NeverBeforeFence
  <1>7. FenceNotMissed'
    <2> SUFFICES ASSUME NEW m \in descs, m \in signalled
                 PROVE  fpc'[cmds[m]] \in {"enter", "scan", "queue"} /\ m <= fence[cmds[m]]
      BY DEF Leave, FenceNotMissed
    <2>1. fpc[cmds[m]] \in {"enter", "scan", "queue"} /\ m <= fence[cmds[m]]
          /\ cmds[m] \in FenceRings
      BY DEF FenceInv, FenceNotMissed, Fenced
    <2>2. cmds[m] # q
      BY <1>1, <2>1 DEF Matching
    <2>3. QED
      BY <1>1, <2>1, <2>2 DEF TypeOK
  <1>8. FenceHeld'
    BY <1>1 DEF Leave, FenceInv, FenceHeld, TypeOK
  <1>9. HandlerAhead'
    BY <1>1 DEF Leave, FenceInv, HandlerAhead, TypeOK
  <1>10. Fenced'
    BY <1>2 DEF Leave, FenceInv, Fenced
  <1>11. OpenAhead'
    BY <1>1 DEF Leave, FenceInv, OpenAhead, Fenced, TypeOK
  <1>12. SignalledSeen'
    <2> SUFFICES ASSUME NEW m \in signalled
                 PROVE  \/ m <= completed_fences'[cmds[m]]
                        \/ fpc'[cmds[m]] # "none" /\ m <= fence[cmds[m]]
      BY DEF Leave, SignalledSeen
    <2>1. cmds[m] \in FenceRings /\ m \in Nat
      BY DEF FenceInv, Fenced, TypeOK
    <2>2. CASE cmds[m] = q
      <3>1. completed_fences[q] <= fence[q]
        BY <1>1 DEF FenceInv, HandlerAhead
      <3>2. m <= completed_fences[q] \/ m <= fence[q]
        BY <2>2 DEF FenceInv, SignalledSeen
      <3>3. QED
        BY <1>1, <2>1, <2>2, <3>1, <3>2 DEF TypeOK
    <2>3. CASE cmds[m] # q
      BY <1>1, <2>1, <2>3 DEF FenceInv, SignalledSeen, TypeOK
    <2>4. QED
      BY <2>2, <2>3
  <1>13. QED
    BY <1>3, <1>6, <1>7, <1>8, <1>9, <1>10, <1>11, <1>12 DEF FenceInv

-----------------------------------------------------------------------------
LEMMA InitInv == Init => Inv
  <1> SUFFICES ASSUME Init PROVE Inv
    OBVIOUS
  <1>1. TypeOK
    <2>1. /\ threaded \in BOOLEAN /\ event_idx \in BOOLEAN /\ available \in BOOLEAN
          /\ owes \in BOOLEAN /\ kicked \in BOOLEAN /\ notify \in BOOLEAN
      BY Zenon DEF Init
    <2>2. cmds \in Seq(FenceRings \cup {Plain}) /\ Len(cmds) = 0
      BY DEF Init
    <2>3. /\ completed_fences \in [FenceRings -> Nat]
          /\ fpc \in [FenceRings -> {"none", "enter", "scan", "queue"}]
          /\ fence \in [FenceRings -> Nat] /\ desc \in [FenceRings -> Nat]
      BY DEF Init
    <2>4. QED
      BY <2>1, <2>2, <2>3 DEF Init, TypeOK
  <1>2. InHand = {} /\ Returning = {}
    BY DEF Init, InHand, Returning
  <1>3. DescriptorConserved /\ NeverBeforeFence /\ FenceNotMissed
    BY <1>2 DEF Init, DescriptorConserved, NeverBeforeFence, FenceNotMissed
  <1>4. FenceHeld /\ HandlerAhead /\ Fenced /\ OpenAhead /\ SignalledSeen
    BY DEF Init, FenceHeld, HandlerAhead, Fenced, OpenAhead, SignalledSeen
  <1>5. QED
    BY <1>1, <1>3, <1>4 DEF FenceInv

LEMMA NextInv == Inv /\ [Next]_vars => Inv'
  <1> SUFFICES ASSUME Inv, [Next]_vars PROVE Inv'
    OBVIOUS
  <1>1. ASSUME NEW c \in FenceRings \cup {Plain}, Publish(c) PROVE Inv'
    BY <1>1, PublishInv
  <1>2. CASE Kick \/ \E a \in BOOLEAN : SetAvailable(a)
    BY <1>2, QuietInv
  <1>3. CASE WorkerStep
    BY <1>3, QuietInv, ExecutePlainInv, CreateFenceInv, ProcessFenceInv DEF WorkerStep
  <1>4. CASE Fail
    BY <1>4, FailInv
  <1>5. ASSUME NEW q \in FenceRings, NEW n \in Ids, FenceSignalled(q, n) PROVE Inv'
    BY <1>5, FenceSignalledInv
  <1>6. ASSUME NEW q \in FenceRings, FenceStep(q) PROVE Inv'
    BY <1>6, EnterInv, ScanInv, ReturnDescInv, LeaveInv DEF FenceStep
  <1>7. CASE UNCHANGED vars
    <2>1. TypeOK'
      BY <1>7 DEF vars, lockVars, driverVars, queueVars, fenceVars, TypeOK
    <2>2. FenceInv'
      BY <1>7, FrameInv DEF vars, invVars, lockVars, driverVars, queueVars, fenceVars
    <2>3. QED
      BY <2>1, <2>2
  <1>8. QED
    BY <1>1, <1>2, <1>3, <1>4, <1>5, <1>6, <1>7 DEF Next

LEMMA FenceInvariant == Spec => []Inv
  BY InitInv, NextInv, PTL DEF Spec

\* The queue, fence and thread state keeps its type.
THEOREM FenceTypeCorrect == Spec => []TypeOK
  BY FenceInvariant, PTL

\* No descriptor is returned twice or forgotten, however the worker, the fence
\* handlers and the front-end interleave.
THEOREM DescriptorsConserved == Spec => []DescriptorConserved
  BY FenceInvariant, PTL DEF FenceInv

\* No response is returned before the fence of its command is complete.
THEOREM ResponseWaitsForFence == Spec => []NeverBeforeFence
  BY FenceInvariant, PTL DEF FenceInv

\* A fence signalled before process_fence has remembered its descriptor is
\* noticed there, or by the handler that is still running.
THEOREM NoFenceMissed == Spec => []FenceNotMissed
  BY FenceInvariant, PTL DEF FenceInv

-----------------------------------------------------------------------------
(* Notification suppression. *)

LEMMA ArmedNext == Armed /\ [Next]_vars => Armed'
  <1> SUFFICES ASSUME Armed, [Next]_vars PROVE Armed'
    OBVIOUS
  <1> USE DEF Armed, fenceVars, lockVars, queueVars, driverVars
  <1>1. CASE UNCHANGED <<event_idx, wpc, avail_event, next_avail>>
    BY <1>1
  <1>2. CASE Kick \/ (\E c \in FenceRings \cup {Plain} : Publish(c))
             \/ (\E a \in BOOLEAN : SetAvailable(a)) \/ ExecutePlain
    BY <1>2 DEF Kick, Publish, SetAvailable, ExecutePlain, Pop
  <1>3. CASE ReadKick \/ TryLockQueue \/ Arm \/ Recheck
    BY <1>3 DEF ReadKick, TryLockQueue, Arm, Recheck
  <1>4. CASE Drained \/ SignalUsed \/ ProcessFence
    BY <1>4 DEF Drained, SignalUsed, ProcessFence
  <1>5. CASE Fail \/ \E ok \in BOOLEAN : CreateFence(ok)
    BY <1>5 DEF Fail, CreateFence
  <1>6. CASE \E q \in FenceRings, n \in Ids : FenceSignalled(q, n)
    BY <1>6 DEF FenceSignalled
  <1>7. CASE \E q \in FenceRings : FenceStep(q)
    BY <1>7 DEF FenceStep, Enter, Scan, ReturnDesc, Leave
  <1>8. CASE UNCHANGED vars
    BY <1>1, <1>8 DEF vars
  <1>9. QED
    BY <1>2, <1>3, <1>4, <1>5, <1>6, <1>7, <1>8 DEF Next, WorkerStep

LEMMA SeenNext ==
  ASSUME TypeOK, Armed, CommandSeen, Undisturbed, Undisturbed', [Next]_vars
  PROVE  CommandSeen'
  <1> USE DEF CommandSeen, Looking, fenceVars, lockVars, queueVars, driverVars
  <1>1. CASE /\ UNCHANGED <<event_idx, cmds, owes, avail_event, next_avail, kicked>>
             /\ wpc \in Looking => wpc' \in Looking
    BY <1>1
  <1>2. ASSUME NEW c \in FenceRings \cup {Plain}, Publish(c)  PROVE CommandSeen'
    <2>1. /\ Len(cmds') = Len(cmds) + 1 /\ owes' /\ ~ owes
          /\ UNCHANGED <<wpc, kicked, event_idx, avail_event, next_avail>>
      BY <1>2, AppendKeeps DEF Publish
    <2>2. wpc \in {"wait", "poll"} /\ ~ kicked => next_avail = Len(cmds)
      BY <2>1 DEF TypeOK
    <2>3. wpc \in Looking \cup {"wait", "poll"}
      BY DEF TypeOK, Undisturbed
    <2>4. QED
      BY <2>1, <2>2, <2>3 DEF Armed, TypeOK
  <1>3. CASE Kick
    BY <1>3 DEF Kick
  <1>4. CASE \E a \in BOOLEAN : SetAvailable(a)
    BY <1>1, <1>4 DEF SetAvailable
  <1>5. CASE ReadKick \/ TryLockQueue
    BY <1>5 DEF ReadKick, TryLockQueue, Undisturbed
  <1>6. CASE Drained \/ Recheck
    BY <1>6 DEF Drained, Recheck, TypeOK
  <1>7. CASE SignalUsed \/ Arm
    BY <1>7 DEF SignalUsed, Arm
  <1>8. CASE ExecutePlain \/ ProcessFence \/ \E ok \in BOOLEAN : CreateFence(ok)
    BY <1>8 DEF ExecutePlain, ProcessFence, CreateFence, Pop
  <1>9. CASE Fail
    BY <1>9 DEF Fail, Undisturbed
  <1>10. CASE \E q \in FenceRings, n \in Ids : FenceSignalled(q, n)
    <2>1. /\ UNCHANGED <<event_idx, cmds, owes, avail_event, next_avail, kicked>>
          /\ UNCHANGED wpc \/ wpc = "wait"
      BY <1>10 DEF FenceSignalled
    <2>2. QED
      BY <1>1, <2>1
  <1>11. CASE \E q \in FenceRings : Enter(q) \/ Scan(q) \/ Leave(q)
    <2>1. /\ UNCHANGED <<event_idx, cmds, owes, avail_event, next_avail, kicked>>
          /\ UNCHANGED wpc \/ wpc = "poll"
      BY <1>11 DEF Enter, Scan, Leave
    <2>2. QED
      BY <1>1, <2>1
  <1>12. CASE \E q \in FenceRings : ReturnDesc(q)
    BY <1>1, <1>12 DEF ReturnDesc
  <1>13. CASE UNCHANGED vars
    BY <1>1, <1>13 DEF vars
  <1>14. QED
    BY <1>2, <1>3, <1>4, <1>5, <1>6, <1>7, <1>8, <1>9, <1>10, <1>11, <1>12, <1>13
       DEF Next, WorkerStep, FenceStep

LEMMA ArmedInvariant == Spec => [](TypeOK /\ Armed)
  <1>1. Init => Armed
    BY DEF Init, Armed
  <1>2. QED
    BY <1>1, ArmedNext, FenceTypeCorrect, PTL DEF Spec

\* EVENT_IDX does not suppress a kick the worker needs, however the driver's look
\* at avail_event, the worker's second look at the avail ring and the handlers of
\* any number of fence rings interleave.
THEOREM KickComes == Spec => KickNotSuppressed
  <1>1. TypeOK /\ Armed /\ [Next]_vars
          => [CommandSeen /\ Undisturbed /\ Undisturbed' => CommandSeen']_vars
    BY SeenNext
  <1>2. QED
    BY <1>1, ArmedInvariant, PTL DEF Spec, KickNotSuppressed

\* While the ring stays available and no command fails, every published command
\* is one the worker will look at or be kicked for.
THEOREM NoCommandForgotten == Spec /\ []Undisturbed => []CommandSeen
  <1>1. Init => CommandSeen
    BY DEF Init, CommandSeen
  <1>2. TypeOK /\ Armed /\ CommandSeen /\ Undisturbed /\ Undisturbed' /\ [Next]_vars
          => CommandSeen'
    BY SeenNext
  <1>3. QED
    BY <1>1, <1>2, ArmedInvariant, PTL DEF Spec

-----------------------------------------------------------------------------
(* The two mutexes. *)

PollInv == GuardsHeld /\ OnePoll

\* A step that leaves the handlers and fence_state alone.
LEMMA PollFrame ==
  ASSUME PollInv, UNCHANGED <<threaded, fence_lock, fpc>>,
         queue_lock' # Free => wpc' \in {"pop", "process", "arm", "recheck"},
         wpc = "poll" => wpc' = "poll"
  PROVE  PollInv'
  BY DEF PollInv, GuardsHeld, OnePoll

LEMMA PollNext == TypeOK /\ PollInv /\ [Next]_vars => PollInv'
  <1> SUFFICES ASSUME TypeOK, PollInv, [Next]_vars PROVE PollInv'
    OBVIOUS
  <1> USE DEF fenceVars, lockVars, queueVars, driverVars
  <1>1. CASE Kick \/ (\E c \in FenceRings \cup {Plain} : Publish(c))
             \/ (\E a \in BOOLEAN : SetAvailable(a)) \/ UNCHANGED vars
    BY <1>1, PollFrame DEF Kick, Publish, SetAvailable, vars, PollInv, GuardsHeld
  <1>2. CASE ReadKick \/ TryLockQueue
    BY <1>2, PollFrame DEF ReadKick, TryLockQueue, PollInv, GuardsHeld
  <1>3. CASE ExecutePlain \/ ProcessFence \/ \E ok \in BOOLEAN : CreateFence(ok)
    BY <1>3, PollFrame DEF ExecutePlain, ProcessFence, CreateFence, Pop
  <1>4. CASE Fail \/ Drained \/ SignalUsed \/ Arm \/ Recheck
    BY <1>4, PollFrame DEF Fail, Pop, Drained, SignalUsed, Arm, Recheck
  <1>5. ASSUME NEW q \in FenceRings, NEW n \in Ids, FenceSignalled(q, n)
        PROVE  PollInv'
    <2>1. /\ fpc[q] = "none" /\ fpc' = [fpc EXCEPT ![q] = "enter"]
          /\ UNCHANGED <<threaded, queue_lock, fence_lock>>
          /\ threaded => UNCHANGED wpc
          /\ ~ threaded => wpc = "wait" /\ wpc' = "poll"
      BY <1>5 DEF FenceSignalled
    <2>2. GuardsHeld'
      BY <2>1 DEF PollInv, GuardsHeld, TypeOK
    <2>3. OnePoll'
      BY <2>1 DEF PollInv, OnePoll, TypeOK
    <2>4. QED
      BY <2>2, <2>3 DEF PollInv
  <1>6. ASSUME NEW q \in FenceRings, Enter(q)  PROVE PollInv'
    <2>1. /\ fpc[q] = "enter" /\ fpc' = [fpc EXCEPT ![q] = "scan"] /\ fence_lock' = q
          /\ UNCHANGED <<threaded, queue_lock, wpc>>
      BY <1>6 DEF Enter
    <2>2. QED
      BY <2>1 DEF PollInv, GuardsHeld, OnePoll, TypeOK
  <1>7. ASSUME NEW q \in FenceRings, Scan(q) \/ ReturnDesc(q)  PROVE PollInv'
    <2>1. /\ fpc[q] \in {"scan", "queue"}
          /\ UNCHANGED fpc \/ fpc' = [fpc EXCEPT ![q] = "queue"]
                           \/ fpc' = [fpc EXCEPT ![q] = "scan"]
          /\ UNCHANGED <<threaded, queue_lock, fence_lock, wpc>>
      BY <1>7 DEF Scan, ReturnDesc
    <2>2. QED
      BY <2>1 DEF PollInv, GuardsHeld, OnePoll, TypeOK
  <1>8. ASSUME NEW q \in FenceRings, Leave(q)  PROVE PollInv'
    <2>1. /\ fpc[q] = "scan" /\ fpc' = [fpc EXCEPT ![q] = "none"] /\ fence_lock' = Free
          /\ wpc' = IF wpc = "poll" THEN "wait" ELSE wpc
          /\ UNCHANGED <<threaded, queue_lock>>
      BY <1>8 DEF Leave
    <2>2. GuardsHeld'
      BY <2>1, ConstantsAssumption DEF PollInv, GuardsHeld
    <2>3. ~ threaded => \A p \in FenceRings : fpc'[p] = "none"
      BY <2>1 DEF PollInv, OnePoll, TypeOK
    <2>4. OnePoll'
      BY <2>1, <2>3 DEF OnePoll
    <2>5. QED
      BY <2>2, <2>4 DEF PollInv
  <1>9. QED
    BY <1>1, <1>2, <1>3, <1>4, <1>5, <1>6, <1>7, <1>8 DEF Next, WorkerStep, FenceStep

\* When rutabaga's fences are polled on the worker, neither the worker nor a fence
\* handler ever finds a mutex taken: the lock order that deadlocks with threads of
\* rutabaga's own is harmless there, for any number of fence rings.
THEOREM PollingNeverWaits == Spec => []NoLockWait
  <1>1. Init => PollInv
    BY ConstantsAssumption DEF Init, PollInv, GuardsHeld, OnePoll
  <1>2. TypeOK /\ PollInv => NoLockWait
    <2> SUFFICES ASSUME TypeOK, PollInv, ~ threaded
                 PROVE  /\ wpc = "process" => fence_lock = Free
                        /\ wpc = "lock" => queue_lock = Free
                        /\ \A q \in FenceRings : /\ fpc[q] = "enter" => fence_lock = Free
                                                 /\ fpc[q] = "queue" => queue_lock = Free
      BY DEF NoLockWait
    <2>1. fence_lock # Free => fence_lock \in FenceRings
                                 /\ fpc[fence_lock] \in {"scan", "queue"} /\ wpc = "poll"
      BY DEF TypeOK, PollInv, GuardsHeld, OnePoll
    <2>2. wpc \in {"lock", "poll"} => queue_lock = Free
      BY DEF PollInv, GuardsHeld
    <2>3. QED
      BY <2>1, <2>2 DEF PollInv, OnePoll
  <1>3. QED
    BY <1>1, <1>2, PollNext, FenceTypeCorrect, PTL DEF Spec
=============================================================================
