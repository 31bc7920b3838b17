------------------------- MODULE ConsolePortProofs -------------------------
(***************************************************************************)
(* Proofs about ConsolePort for any chains, any room in the output and any *)
(* bounds: the thread never waits with an interrupt owed, and the port     *)
(* implements Pipe.                                                        *)
(***************************************************************************)
EXTENDS ConsolePort, Integers, TLAPS

-----------------------------------------------------------------------------
(* The inductive invariant. *)

InChain == {"io", "block", "use"}

\* Chains follow one another in the stream of the guest's bytes.
ChainsInOrder ==
  /\ start <= given
  /\ \A i \in 1 .. Len(ring) : start < ring[i] /\ ring[i] <= given
  /\ \A i, j \in 1 .. Len(ring) : i < j => ring[i] < ring[j]

\* Bytes are in hand only while there is a chain they belong to.
CurOfHead ==
  /\ pc \in InChain => ring # <<>>
  /\ pc \notin InChain => cur = 0

\* Input: every byte the host wrote is in its pipe, in the chain in hand or in a
\* used chain, unless a read failed.
InputConserved ==
  IsInput => /\ done + cur + file <= put
             /\ done + cur + file = put \/ failed

\* Output: until a write fails, what was written is the bytes of the used chains
\* and of the one in hand, which is used when it is written to its end.
OutputConserved ==
  ~ IsInput => /\ put = given
               /\ failed \/ done = start + cur \/ pc = "panicked"
               /\ failed \/ done <= put
               /\ ~ failed /\ pc = "use" => cur = HeadLen

\* process_rx has seen the end: nothing comes after it.
EofIsFinal ==
  /\ eof => IsInput /\ hup /\ file = 0
  /\ told => pc = "ended"

\* A used chain is signalled, or signal_used_queue is set.
SignalPending ==
  /\ pc # "ended" => (unsig => signal \/ ~ call)
  /\ UsedIsSignalled

PortInv ==
  /\ TypeOK /\ ChainsInOrder /\ CurOfHead
  /\ InputConserved /\ OutputConserved /\ EofIsFinal /\ SignalPending

\* At first nothing has been sent, and the thread owes no signal.
LEMMA PortInvInit == Init => PortInv
<1> SUFFICES ASSUME Init  PROVE PortInv
  OBVIOUS
<1>1. kind \in Kinds /\ (edge = TRUE \/ edge = FALSE)
  BY DEF Init
<1>2. ring \in Seq(Nat) /\ Len(ring) = 0
  BY DEF Init
<1>3. TypeOK
  BY <1>1, <1>2, ConstantsAssumption DEF Init, TypeOK, PortPc
<1>4. ChainsInOrder
  BY <1>2 DEF ChainsInOrder, Init
<1>5. QED
  BY <1>3, <1>4
     DEF Init, PortInv, CurOfHead, InputConserved, OutputConserved, EofIsFinal,
         SignalPending, UsedIsSignalled, InChain, IsInput

\* A chain that the guest appends lies behind all the others.
LEMMA PublishInOrder ==
  ASSUME TypeOK, ChainsInOrder, NEW n \in ChainLens, GuestPublishes(n)
  PROVE  /\ ring' \in Seq(Nat) /\ given' \in Nat /\ given' >= given
         /\ ChainsInOrder' /\ ring' # <<>>
         /\ ring # <<>> => Head(ring') = Head(ring)
<1>1. n \in Nat /\ n > 0
  BY ConstantsAssumption
<1>2. given' = given + n /\ ring' = Append(ring, given') /\ start' = start
  BY DEF GuestPublishes
<1>3. ring \in Seq(Nat) /\ given \in Nat /\ given' \in Nat /\ start \in Nat
  BY <1>1, <1>2 DEF TypeOK
<1>4. /\ ring' \in Seq(Nat) /\ Len(ring') = Len(ring) + 1
      /\ \A i \in 1 .. Len(ring) : ring'[i] = ring[i]
      /\ ring'[Len(ring) + 1] = given'
  BY <1>2, <1>3
<1>5. ChainsInOrder'
  BY <1>1, <1>2, <1>3, <1>4 DEF ChainsInOrder
<1>6. QED  BY <1>1, <1>2, <1>3, <1>4, <1>5

\* The chains behind the one that is used start where it ends.
LEMMA UseInOrder ==
  ASSUME TypeOK, ChainsInOrder, ring # <<>>, ring' = Tail(ring), start' = Head(ring),
         given' = given
  PROVE  /\ ring' \in Seq(Nat) /\ start' \in Nat /\ ChainsInOrder'
         /\ start < Head(ring) /\ Head(ring) <= given
<1>1. ring \in Seq(Nat) /\ given \in Nat /\ start \in Nat
  BY DEF TypeOK
<1>2. /\ ring' \in Seq(Nat) /\ Len(ring) > 0 /\ Len(ring') = Len(ring) - 1
      /\ \A i \in 1 .. Len(ring') : ring'[i] = ring[i + 1]
      /\ Head(ring) = ring[1] /\ ring[1] \in Nat
  BY <1>1
<1>3. ChainsInOrder'
  BY <1>1, <1>2 DEF ChainsInOrder
<1>4. QED  BY <1>1, <1>2, <1>3 DEF ChainsInOrder

\* The chain in hand.
LEMMA HeadFacts ==
  ASSUME TypeOK, ChainsInOrder, ring # <<>>
  PROVE  /\ Head(ring) \in Nat /\ start \in Nat /\ start < Head(ring)
         /\ Head(ring) <= given
BY DEF TypeOK, ChainsInOrder

\* Arithmetic of the two moves: d bytes out, c in hand, f in the file.
LEMMA ReadSum ==
  ASSUME NEW d \in Nat, NEW c \in Nat, NEW f \in Nat, NEW p \in Nat,
         NEW c2 \in Nat, NEW f2 \in Nat, d + c + f <= p, c2 + f2 <= c + f
  PROVE  d + c2 + f2 <= p
OBVIOUS

LEMMA WriteSum ==
  \A d, c, f, st, h, g \in Nat, n \in Int :
    n > 0 /\ n <= f /\ n <= (h - st) - c /\ d = st + c /\ h <= g
      => /\ c + n \in Nat /\ f - n \in Nat /\ d + n \in Nat /\ d + n <= g
         /\ d + n = st + (c + n)
OBVIOUS

\* A read moves bytes from the file to the chain in hand.
LEMMA ReadKeeps == ASSUME PortInv, Read  PROVE PortInv'
<1> USE DEF PortInv, IsInput, InChain, Goto, fileVars, chainVars, queueVars
<1>1. ring # <<>> /\ Head(ring) \in Nat /\ start \in Nat /\ start < Head(ring)
  BY HeadFacts DEF Read, CurOfHead
<1>2. cur \in Nat /\ file \in Nat /\ put \in Nat /\ done \in Nat
  BY DEF TypeOK
<1>3. put' = put /\ done' = done
  BY DEF Read
<1>4. pc = "io" /\ IsInput /\ kind' = kind /\ hup' = hup
  BY DEF Read
<1>5. /\ cur' \in Nat /\ file' \in Nat /\ file' <= file
      /\ cur' + file' <= cur + file
      /\ cur' + file' = cur + file \/ failed'
  <2> DEFINE n == MinOf(HeadLen - cur, file)
  <2>1. n \in Int /\ n <= file
    BY <1>1, <1>2 DEF MinOf, HeadLen
  <2>2. \/ n > 0 /\ cur' = cur + n /\ file' = file - n
        \/ cur' = cur /\ file' = file
        \/ failed' = TRUE /\ cur' = 0 /\ file' = file
    BY DEF Read
  <2>3. CASE n > 0 /\ cur' = cur + n /\ file' = file - n
    BY <1>2, <2>1, <2>3
  <2>4. CASE cur' = cur /\ file' = file
    BY <1>2, <2>4
  <2>5. CASE failed' = TRUE /\ cur' = 0 /\ file' = file
    <3>1. 0 + file <= cur + file
      BY <1>2
    <3>2. QED  BY <1>2, <2>5, <3>1
  <2>6. QED  BY <2>2, <2>3, <2>4, <2>5
<1>6. /\ cur' \in Nat /\ file' \in Nat /\ file' <= file
      /\ cur' + file' <= cur + file
  BY <1>5
<1>7. /\ eof' \in BOOLEAN /\ failed' \in BOOLEAN /\ (failed => failed')
      /\ pc' \in {"io", "use"}
  BY DEF Read, TypeOK
<1>8. TypeOK'
  <2>1. pc' \in PortPc
    BY <1>7 DEF PortPc
  <2>2. eof' \in BOOLEAN /\ failed' \in BOOLEAN
    BY <1>7
  <2>3. QED  BY <1>6, <2>1, <2>2 DEF Read, TypeOK
<1>9. ChainsInOrder'
  BY DEF Read, ChainsInOrder
<1>10. CurOfHead'
  BY <1>1, <1>7 DEF Read, CurOfHead
<1>11. InputConserved'
  <2>1. done + cur + file <= put
    BY <1>4 DEF InputConserved
  <2>2. done + cur' + file' <= put
    BY <1>2, <1>6, <2>1, ReadSum
  <2>3. CASE failed'
    BY <1>3, <2>2, <2>3 DEF InputConserved
  <2>4. CASE ~ failed'
    <3>1. done + cur + file = put
      BY <1>4, <1>7, <2>4 DEF InputConserved
    <3>2. cur' + file' = cur + file
      BY <1>5, <2>4
    <3>3. done + cur' + file' = put
      <4> DEFINE d == done  c == cur  f == file  p == put  c2 == cur'  f2 == file'
      <4>1. /\ d \in Nat /\ c \in Nat /\ f \in Nat /\ p \in Nat /\ c2 \in Nat
            /\ f2 \in Nat /\ d + c + f = p /\ c2 + f2 = c + f
        BY <1>2, <1>6, <3>1, <3>2
      <4> HIDE DEF d, c, f, p, c2, f2
      <4>2. d + c2 + f2 = p
        BY <4>1
      <4>3. QED  BY <4>2 DEF d, c, f, p, c2, f2
    <3>4. QED  BY <1>3, <2>2, <3>3 DEF InputConserved
  <2>5. QED  BY <2>3, <2>4
<1>12. OutputConserved'
  BY <1>4 DEF OutputConserved
<1>13. EofIsFinal'
  <2>1. eof => hup /\ file = 0
    BY DEF EofIsFinal
  <2>2. told' = told /\ ~ told
    BY <1>4 DEF Read, EofIsFinal
  <2>3. file = 0 => file' = 0
    BY <1>6
  <2>4. eof' => (eof \/ (hup /\ file = 0))
    BY DEF Read
  <2>5. QED  BY <1>4, <2>1, <2>2, <2>3, <2>4 DEF EofIsFinal
<1>14. SignalPending'
  BY <1>7 DEF Read, SignalPending, UsedIsSignalled
<1>15. QED  BY <1>8, <1>9, <1>10, <1>11, <1>12, <1>13, <1>14

\* A write moves bytes of the chain in hand to the output.
LEMMA WriteKeeps == ASSUME PortInv, Write  PROVE PortInv'
<1> USE DEF PortInv, IsInput, InChain, Goto, fileVars, chainVars, queueVars
<1>1. /\ ring # <<>> /\ Head(ring) \in Nat /\ start \in Nat /\ start < Head(ring)
      /\ Head(ring) <= given
  BY HeadFacts DEF Write, CurOfHead
<1>2. /\ cur \in Nat /\ file \in Nat /\ put \in Nat /\ done \in Nat
      /\ given \in Nat /\ errors \in Nat /\ failed \in BOOLEAN
  BY DEF TypeOK
<1>3. /\ put' = put /\ given' = given /\ start' = start /\ ring' = ring
      /\ HeadLen' = HeadLen
  BY DEF Write, HeadLen
<1>4. pc = "io" /\ ~ IsInput /\ kind' = kind /\ hup' = hup
  BY DEF Write
<1>5. /\ HeadLen = Head(ring) - start /\ put = given
      /\ failed \/ (done = start + cur /\ done <= put)
  BY <1>4 DEF HeadLen, OutputConserved
<1> DEFINE n == MinOf(HeadLen - cur, file)
<1>6. n \in Int /\ n <= file /\ n <= HeadLen - cur
  BY <1>1, <1>2 DEF MinOf, HeadLen
<1>7. Wrote(n) \/ (WouldBlock /\ cur' = cur) \/ WriteFails \/ WriteShort
  BY DEF Write
<1>8. /\ cur' \in Nat /\ file' \in Nat /\ done' \in Nat /\ errors' \in Nat
      /\ failed' \in BOOLEAN /\ pc' \in {"io", "block", "use", "panicked"}
      /\ failed' \/ pc' = "panicked" \/ done' = start + cur'
      /\ failed' \/ done' <= put
      /\ ~ failed' /\ pc' = "use" => cur' = HeadLen
      /\ pc' = "panicked" => cur' = 0
  <2>1. CASE Wrote(n)
    <3>1. /\ n > 0 /\ cur' = cur + n /\ file' = file - n /\ done' = done + n
          /\ failed' = failed /\ errors' = errors /\ pc' \in {"io", "use"}
          /\ pc' = "use" => cur' = HeadLen
      BY <2>1 DEF Wrote
    <3>2. cur + n \in Nat /\ file - n \in Nat /\ done + n \in Nat
      <4> HIDE DEF n
      <4>1. QED  BY <1>2, <1>6, <3>1
    <3>3. failed \/ (done + n <= given /\ done + n = start + (cur + n))
      <4>1. n <= (Head(ring) - start) - cur
        BY <1>5, <1>6
      <4> HIDE DEF n
      <4>2. CASE ~ failed
        <5>1. done = start + cur
          BY <1>5, <4>2
        <5>2. QED  BY <1>1, <1>2, <1>6, <3>1, <4>1, <5>1, WriteSum
      <4>3. QED  BY <4>2
    <3> HIDE DEF n
    <3>4. QED  BY <1>2, <1>5, <3>1, <3>2, <3>3
  <2>2. CASE WouldBlock /\ cur' = cur
    BY <1>2, <1>4, <1>5, <2>2 DEF WouldBlock
  <2>3. CASE WriteFails
    BY <1>2, <2>3 DEF WriteFails
  <2>4. CASE WriteShort
    BY <1>2, <1>5, <2>4 DEF WriteShort
  <2>5. QED  BY <1>7, <2>1, <2>2, <2>3, <2>4
<1> HIDE DEF n
<1>9. TypeOK'
  <2>1. pc' \in PortPc
    BY <1>8 DEF PortPc
  <2>2. /\ UNCHANGED <<kind, put, hup, edge, queueVars, eof, signal, unsig, told, missed>>
        /\ failed' \in BOOLEAN
    BY <1>8 DEF Write
  <2>3. QED  BY <1>8, <2>1, <2>2 DEF TypeOK
<1>10. ChainsInOrder'
  BY <1>3 DEF ChainsInOrder
<1>11. CurOfHead'
  BY <1>1, <1>3, <1>8 DEF CurOfHead
<1>12. InputConserved'
  BY <1>4 DEF InputConserved
<1>13. OutputConserved'
  BY <1>3, <1>4, <1>5, <1>8 DEF OutputConserved
<1>14. EofIsFinal'
  BY <1>4 DEF Write, EofIsFinal
<1>15. SignalPending'
  BY <1>8 DEF Write, SignalPending, UsedIsSignalled
<1>16. QED  BY <1>9, <1>10, <1>11, <1>12, <1>13, <1>14, <1>15

\* Every step of the thread, the host, the guest and the front-end keeps it.
LEMMA PortInvNext == PortInv /\ [Next]_vars => PortInv'
<1> SUFFICES ASSUME PortInv, [Next]_vars  PROVE PortInv'
  OBVIOUS
<1> USE DEF PortInv, IsInput, InChain, Goto, fileVars, chainVars, queueVars, threadVars,
            vars
<1>1. CASE WakeToStop
  BY <1>1, ConstantsAssumption
     DEF WakeToStop, TypeOK, ChainsInOrder, CurOfHead, InputConserved, OutputConserved,
         EofIsFinal, SignalPending, UsedIsSignalled, PortPc, HeadLen
<1>2. CASE TryLock
  BY <1>2, ConstantsAssumption
     DEF TryLock, TypeOK, ChainsInOrder, CurOfHead, InputConserved, OutputConserved,
         EofIsFinal, SignalPending, UsedIsSignalled, PortPc, HeadLen
<1>3. CASE Pop
  <2>1. /\ pc = "pop" /\ pc' \in {"top", "io"} /\ cur' = 0 /\ cur = 0
        /\ unsig' \in {FALSE, unsig} /\ (ring = <<>> => pc' = "top")
        /\ UNCHANGED <<kind, fileVars, queueVars, done, eof, signal, told, missed>>
    BY <1>3 DEF Pop, CurOfHead, Signalled
  <2>2. TypeOK'
    <3>1. pc' \in PortPc /\ cur' \in Nat
      BY <2>1 DEF PortPc
    <3>2. unsig' \in BOOLEAN
      BY <2>1 DEF TypeOK
    <3>3. QED  BY <2>1, <3>1, <3>2 DEF TypeOK
  <2>3. ChainsInOrder' /\ CurOfHead'
    BY <2>1 DEF ChainsInOrder, CurOfHead
  <2>4. InputConserved' /\ OutputConserved'
    BY <2>1 DEF InputConserved, OutputConserved, HeadLen
  <2>5. EofIsFinal'
    BY <2>1 DEF EofIsFinal
  <2>6. SignalPending'
    <3>1. unsig => signal \/ ~ call
      BY <2>1 DEF SignalPending
    <3>2. unsig' => signal' \/ ~ call'
      BY <2>1, <3>1
    <3>3. QED  BY <2>1, <3>2 DEF SignalPending, UsedIsSignalled
  <2>7. QED  BY <2>2, <2>3, <2>4, <2>5, <2>6
<1>4. CASE Writable
  BY <1>4, ConstantsAssumption
     DEF Writable, TypeOK, ChainsInOrder, CurOfHead, InputConserved, OutputConserved,
         EofIsFinal, SignalPending, UsedIsSignalled, PortPc, HeadLen
<1>5. CASE PutBack
  BY <1>5, ConstantsAssumption
     DEF PutBack, TypeOK, ChainsInOrder, CurOfHead, InputConserved, OutputConserved,
         EofIsFinal, SignalPending, UsedIsSignalled, PortPc, HeadLen
<1>6. CASE HostWrites
  BY <1>6, ConstantsAssumption
     DEF HostWrites, TypeOK, ChainsInOrder, CurOfHead, InputConserved, OutputConserved,
         EofIsFinal, SignalPending, UsedIsSignalled, PortPc, HeadLen
<1>7. CASE HostReads
  BY <1>7, ConstantsAssumption
     DEF HostReads, TypeOK, ChainsInOrder, CurOfHead, InputConserved, OutputConserved,
         EofIsFinal, SignalPending, UsedIsSignalled, PortPc, HeadLen
<1>8. CASE HostCloses
  BY <1>8, ConstantsAssumption
     DEF HostCloses, TypeOK, ChainsInOrder, CurOfHead, InputConserved, OutputConserved,
         EofIsFinal, SignalPending, UsedIsSignalled, PortPc, HeadLen
<1>9. CASE GetVringBase
  BY <1>9, ConstantsAssumption
     DEF GetVringBase, TypeOK, ChainsInOrder, CurOfHead, InputConserved, OutputConserved,
         EofIsFinal, SignalPending, UsedIsSignalled, PortPc, HeadLen
<1>10. CASE Stop
  BY <1>10, ConstantsAssumption
     DEF Stop, TypeOK, ChainsInOrder, CurOfHead, InputConserved, OutputConserved,
         EofIsFinal, SignalPending, UsedIsSignalled, PortPc, HeadLen
<1>11. CASE SignalUsed
  <2>1. /\ pc = "top" /\ pc' = "wait" /\ signal' = FALSE
        /\ unsig' \in {FALSE, unsig} /\ (signal /\ call => unsig' = FALSE)
        /\ UNCHANGED <<kind, fileVars, queueVars, cur, done, eof, told, missed>>
    BY <1>11 DEF SignalUsed, Signalled
  <2>2. TypeOK'
    <3>1. pc' \in PortPc
      BY <2>1 DEF PortPc
    <3>2. unsig' \in BOOLEAN /\ signal' \in BOOLEAN
      BY <2>1 DEF TypeOK
    <3>3. QED  BY <2>1, <3>1, <3>2 DEF TypeOK
  <2>3. ChainsInOrder' /\ CurOfHead'
    BY <2>1 DEF ChainsInOrder, CurOfHead
  <2>4. InputConserved' /\ OutputConserved'
    BY <2>1 DEF InputConserved, OutputConserved, HeadLen
  <2>5. EofIsFinal'
    BY <2>1 DEF EofIsFinal
  <2>6. unsig' => ~ call'
    BY <2>1 DEF SignalPending, TypeOK
  <2>7. SignalPending'
    BY <2>1, <2>6 DEF SignalPending, UsedIsSignalled
  <2>8. QED  BY <2>2, <2>3, <2>4, <2>5, <2>7
<1>12. CASE RingStopped
  <2>1. TypeOK'
    <3>1. /\ hreq' \in {"none", "waiting", "stopped", "done", "panicked"}
          /\ ready' \in BOOLEAN
      BY <1>12 DEF RingStopped, TypeOK
    <3>2. QED  BY <1>12, <3>1 DEF RingStopped, TypeOK
  <2>2. ChainsInOrder'
    BY <1>12 DEF RingStopped, ChainsInOrder, TypeOK
  <2>3. CurOfHead'
    BY <1>12 DEF RingStopped, CurOfHead, TypeOK
  <2>4. InputConserved'
    BY <1>12 DEF RingStopped, InputConserved, TypeOK
  <2>5. OutputConserved'
    BY <1>12 DEF RingStopped, OutputConserved, TypeOK, HeadLen
  <2>6. EofIsFinal'
    BY <1>12 DEF RingStopped, EofIsFinal, TypeOK
  <2>7. SignalPending'
    BY <1>12 DEF RingStopped, SignalPending, TypeOK, UsedIsSignalled
  <2>8. QED  BY <2>1, <2>2, <2>3, <2>4, <2>5, <2>6, <2>7
<1>13. ASSUME NEW e \in {"ProcessQueue", "IO"}, Wake(e)  PROVE PortInv'
  <2>1. TypeOK'
    <3>1. missed' \in BOOLEAN /\ kick' \in BOOLEAN /\ edge' \in BOOLEAN
      BY <1>13 DEF Wake, TypeOK
    <3>2. pc' \in PortPc
      BY <1>13 DEF Wake, PortPc
    <3>3. QED  BY <1>13, <3>1, <3>2 DEF Wake, TypeOK
  <2>2. ChainsInOrder'
    BY <1>13 DEF Wake, ChainsInOrder, TypeOK
  <2>3. CurOfHead'
    BY <1>13 DEF Wake, CurOfHead, TypeOK
  <2>4. InputConserved'
    BY <1>13 DEF Wake, InputConserved, TypeOK
  <2>5. OutputConserved'
    BY <1>13 DEF Wake, OutputConserved, TypeOK, HeadLen
  <2>6. EofIsFinal'
    BY <1>13 DEF Wake, EofIsFinal, TypeOK
  <2>7. SignalPending'
    BY <1>13 DEF Wake, SignalPending, TypeOK, UsedIsSignalled
  <2>8. QED  BY <2>1, <2>2, <2>3, <2>4, <2>5, <2>6, <2>7
<1>14. ASSUME NEW b \in BOOLEAN, SetEnabled(b)  PROVE PortInv'
  BY <1>14
     DEF SetEnabled, TypeOK, ChainsInOrder, CurOfHead, InputConserved, OutputConserved,
         EofIsFinal, SignalPending, UsedIsSignalled, PortPc, HeadLen
<1>15. CASE Read
  BY <1>15, ReadKeeps
<1>16. CASE Write
  BY <1>16, WriteKeeps
<1>17. CASE Use
  BY <1>17, HeadFacts, UseInOrder
     DEF Use, TypeOK, ChainsInOrder, CurOfHead, InputConserved, OutputConserved,
         EofIsFinal, SignalPending, UsedIsSignalled, PortPc, HeadLen
<1>18. ASSUME NEW k \in ChainLens, GuestPublishes(k)  PROVE PortInv'
  <2>1. /\ ring' \in Seq(Nat) /\ given' \in Nat /\ given' >= given
        /\ ChainsInOrder' /\ ring' # <<>>
        /\ ring # <<>> => Head(ring') = Head(ring)
    BY <1>18, PublishInOrder
  <2>2. TypeOK'
    BY <1>18, <2>1 DEF GuestPublishes, TypeOK, PortPc
  <2>3. ChainsInOrder'
    BY <1>18, <2>1 DEF GuestPublishes, ChainsInOrder, TypeOK
  <2>4. CurOfHead'
    BY <1>18, <2>1 DEF GuestPublishes, CurOfHead, TypeOK
  <2>5. InputConserved'
    BY <1>18, <2>1 DEF GuestPublishes, InputConserved, TypeOK
  <2>6. OutputConserved'
    <3>1. /\ kind' = kind /\ start' = start /\ failed' = failed /\ pc' = pc /\ cur' = cur
          /\ done' = done /\ (~ IsInput => put' = given')
      BY <1>18 DEF GuestPublishes
    <3>2. pc = "use" => HeadLen' = HeadLen
      BY <2>1, <3>1 DEF CurOfHead, HeadLen
    <3>3. ~ IsInput => failed \/ done <= given'
      BY <2>1 DEF OutputConserved, TypeOK
    <3>4. QED  BY <3>1, <3>2, <3>3 DEF OutputConserved
  <2>7. EofIsFinal'
    BY <1>18, <2>1 DEF GuestPublishes, EofIsFinal, TypeOK
  <2>8. SignalPending'
    BY <1>18, <2>1 DEF GuestPublishes, SignalPending, TypeOK, UsedIsSignalled
  <2>9. QED  BY <2>2, <2>3, <2>4, <2>5, <2>6, <2>7, <2>8
<1>19. CASE UNCHANGED vars
  BY <1>19
     DEF TypeOK, ChainsInOrder, CurOfHead, InputConserved, OutputConserved,
         EofIsFinal, SignalPending, UsedIsSignalled, PortPc, HeadLen
<1>20. CASE RingReset
  <2>1. /\ hreq' = "done" /\ kick' = FALSE /\ call' = FALSE
        /\ UNCHANGED <<kind, fileVars, chainVars, enabled, ready, disables, stopfd,
                       threadVars>>
    BY <1>20 DEF RingReset
  <2>2. TypeOK'
    <3>1. hreq' \in {"none", "waiting", "stopped", "done", "panicked"}
      BY <2>1
    <3>2. kick' \in BOOLEAN /\ call' \in BOOLEAN
      BY <2>1
    <3>3. QED  BY <2>1, <3>1, <3>2 DEF TypeOK
  <2>3. ChainsInOrder' /\ CurOfHead' /\ EofIsFinal'
    BY <2>1 DEF ChainsInOrder, CurOfHead, EofIsFinal
  <2>4. InputConserved' /\ OutputConserved'
    BY <2>1 DEF InputConserved, OutputConserved, HeadLen
  <2>5. SignalPending'
    BY <2>1 DEF SignalPending, UsedIsSignalled
  <2>6. QED  BY <2>2, <2>3, <2>4, <2>5
<1>21. QED
  BY <1>1, <1>2, <1>3, <1>4, <1>5, <1>6, <1>7, <1>8, <1>9, <1>10,
     <1>11, <1>12, <1>13, <1>14, <1>15, <1>16, <1>17, <1>18, <1>19, <1>20
     DEF Next, Thread

-----------------------------------------------------------------------------
(* Theorems. *)

\* The invariant holds in every reachable state.
LEMMA PortInvariant == Spec => []PortInv
<1>1. QED  BY PortInvInit, PortInvNext, PTL DEF Spec

\* Every variable of the port keeps its type, whatever the bounds.
THEOREM PortTypeCorrect == Spec => []TypeOK
<1>1. PortInv => TypeOK
  BY DEF PortInv
<1>2. QED  BY <1>1, PortInvariant, PTL

\* process_rx and process_tx never wait for an event, or end without telling that
\* the port closed, with a used chain the guest was not interrupted for, as long as
\* GET_VRING_BASE has not taken the call away (Vring::set_call(None)).
THEOREM PortSignals == Spec => []UsedIsSignalled
<1>1. PortInv => UsedIsSignalled
  BY DEF PortInv, SignalPending
<1>2. QED  BY <1>1, PortInvariant, PTL

\* A chain used at the end of the input holds the last bytes.
LEMMA LastBytes ==
  ASSUME PortInv, Use, eof
  PROVE  ~ told /\ done' <= put /\ (done' = put \/ failed)
BY DEF PortInv, Use, EofIsFinal, InputConserved, TypeOK

\* Every step of the port is a step of the pipe or leaves it alone.
LEMMA PortStepIsPipeStep == PortInv /\ [Next]_vars => [P!PipeNext]_P!pipeVars
<1> SUFFICES ASSUME PortInv, [Next]_vars  PROVE [P!PipeNext]_P!pipeVars
  OBVIOUS
<1> USE DEF IsInput, Goto, fileVars, chainVars, queueVars, threadVars, vars
<1> DEFINE Same == UNCHANGED <<kind, put, done, told, failed>>
<1>1. CASE Same
  BY <1>1 DEF P!pipeVars
<1>2. CASE SignalUsed \/ (\E e \in {"ProcessQueue", "IO"} : Wake(e)) \/ WakeToStop
            \/ TryLock \/ Pop \/ Writable \/ PutBack
  <2>1. Same
    BY <1>2 DEF SignalUsed, Wake, WakeToStop, TryLock, Pop, Writable, PutBack
  <2>2. QED  BY <2>1, <1>1
<1>3. CASE HostReads \/ HostCloses \/ (\E b \in BOOLEAN : SetEnabled(b))
            \/ GetVringBase \/ RingStopped \/ RingReset \/ Stop \/ UNCHANGED vars
  <2>1. Same
    BY <1>3
       DEF HostReads, HostCloses, SetEnabled, GetVringBase, RingStopped, RingReset, Stop
  <2>2. QED  BY <2>1, <1>1
<1>4. PortInv' /\ TypeOK /\ TypeOK'
  BY PortInvNext DEF PortInv
<1>5. CASE Read
  <2>1. Same \/ (failed' = TRUE /\ UNCHANGED <<kind, put, done, told>>)
    BY <1>5 DEF Read
  <2>2. CASE failed' = TRUE /\ UNCHANGED <<kind, put, done, told>>
    BY <1>5, <2>2 DEF Read, P!PipeNext, P!Fail
  <2>3. QED  BY <2>1, <2>2, <1>1
<1>6. CASE Write
  <2> DEFINE n == MinOf(HeadLen - cur, file)
  <2>1. /\ UNCHANGED <<kind, put, told>> /\ pc = "io" /\ ~ IsInput /\ failed \in BOOLEAN
        /\ \/ n > 0 /\ done' = done + n /\ failed' = failed
           \/ Same
           \/ failed' = TRUE /\ done' = done
    BY <1>4, <1>6 DEF Write, Wrote, WouldBlock, WriteFails, WriteShort, TypeOK
  <2>2. CASE n > 0 /\ done' = done + n /\ failed' = failed
    <3>1. ring # <<>> /\ Head(ring) \in Nat /\ start \in Nat
      BY <1>4, <2>1, HeadFacts DEF PortInv, CurOfHead, InChain
    <3>2. cur \in Nat /\ file \in Nat /\ done \in Nat /\ done' \in Nat
      BY <1>4 DEF TypeOK
    <3>3. n \in Int
      BY <3>1, <3>2 DEF MinOf, HeadLen
    <3>4. done' >= done
      <4> HIDE DEF n
      <4>1. QED  BY <2>2, <3>2, <3>3
    <3>5. failed \/ done' <= put
      BY <1>4, <2>1, <2>2 DEF PortInv, OutputConserved
    <3>6. ~ told
      BY <2>1 DEF PortInv, EofIsFinal
    <3> HIDE DEF n
    <3>7. QED  BY <2>1, <2>2, <3>2, <3>4, <3>5, <3>6 DEF P!PipeNext, P!Receive
  <2>3. CASE failed' = TRUE /\ done' = done
    BY <2>1, <2>3 DEF P!PipeNext, P!Fail
  <2>4. QED  BY <1>1, <2>1, <2>2, <2>3
<1>7. CASE Use
  <2>1. /\ UNCHANGED <<kind, put, failed>> /\ pc = "use" /\ done' >= done
        /\ told' = (told \/ eof)
    BY <1>4, <1>7 DEF Use, TypeOK
  <2>2. ~ told
    BY <2>1 DEF PortInv, EofIsFinal
  <2>3. done' <= put \/ (failed /\ ~ IsInput)
    BY <1>7, <1>4 DEF PortInv, Use, InputConserved, OutputConserved, TypeOK
  <2>4. CASE eof
    <3>1. done' <= put /\ (done' = put \/ failed)
      BY <2>4, <1>7, LastBytes
    <3>2. QED
      BY <1>4, <2>1, <2>2, <2>4, <3>1 DEF P!PipeNext, P!Close, TypeOK
  <2>5. CASE ~ eof
    <3>1. told' = told
      BY <2>1, <2>2, <2>5, <1>4 DEF TypeOK
    <3>2. QED
      BY <1>4, <2>1, <2>2, <2>3, <3>1 DEF P!PipeNext, P!Receive, TypeOK
  <2>6. QED  BY <2>4, <2>5
<1>8. CASE HostWrites
  BY <1>4, <1>8 DEF HostWrites, P!PipeNext, P!Send, TypeOK
<1>9. ASSUME NEW k \in ChainLens, GuestPublishes(k)  PROVE [P!PipeNext]_P!pipeVars
  <2>1. put' >= put
    BY <1>4, <1>9, PublishInOrder DEF GuestPublishes, PortInv, OutputConserved, TypeOK
  <2>2. QED  BY <1>4, <1>9, <2>1 DEF GuestPublishes, P!PipeNext, P!Send, TypeOK
<1>10. QED
  BY <1>2, <1>3, <1>5, <1>6, <1>7, <1>8, <1>9 DEF Next, Thread

\* A console port implements a pipe: partial reads and writes, chains put back,
\* disabled and stopped queues and blocked outputs move no byte twice, none out of
\* thin air, and none is missing when the guest is told that the port closed.  A
\* read that fails excuses missing bytes, a write that fails bytes that come twice
\* (write_desc_to_output has no record of what it wrote of the chain put back).
THEOREM PortImplementsPipe == Spec => ImplementsPipe
<1>1. Init => P!PipeInit
  BY DEF Init, P!PipeInit
<1>2. QED
  BY <1>1, PortInvariant, PortStepIsPipeStep, PTL DEF Spec, ImplementsPipe, P!PipeSpec

-----------------------------------------------------------------------------
(* The events. *)

\* A ring without a kick was stopped first.
StoppedFirst == hreq \in {"stopped", "done"} => ~ ready

EventInv == EventKept /\ GivesUp /\ StoppedFirst

LEMMA EventNext == PortInv /\ EventInv /\ [Next]_vars => EventInv'
<1> SUFFICES ASSUME PortInv, EventInv, [Next]_vars  PROVE EventInv'
  OBVIOUS
<1> USE DEF EventInv, EventKept, GivesUp, StoppedFirst, Goto, Holding, fileVars,
            chainVars, queueVars, threadVars
<1>0. TypeOK /\ kind' = kind
  BY DEF PortInv, vars, Next, Thread, SignalUsed, Wake, WakeToStop, TryLock, Pop, Read,
         Write, Writable, PutBack, Use, HostWrites, HostReads, HostCloses,
         GuestPublishes, SetEnabled, GetVringBase, RingStopped, RingReset, Stop
<1>1. IsInput' = IsInput
  BY <1>0 DEF IsInput
<1>2. CASE SignalUsed \/ WakeToStop \/ TryLock \/ Pop
  <2>1. CASE SignalUsed \/ WakeToStop
    <3>1. /\ UNCHANGED <<ring, file, kick, edge, missed, ready, hreq, failed, cur>>
          /\ (pc = "top" /\ pc' = "wait") \/ pc' = "ended"
      BY <2>1 DEF SignalUsed, WakeToStop
    <3>2. QED  BY <1>1, <3>1
  <2>2. CASE TryLock
    BY <1>1, <2>2 DEF TryLock
  <2>3. CASE Pop
    BY <1>1, <2>3 DEF Pop
  <2>4. QED  BY <1>2, <2>1, <2>2, <2>3
<1>3. CASE \E e \in {"ProcessQueue", "IO"} : Wake(e)
  <2>1. PICK e \in {"ProcessQueue", "IO"} : Wake(e)
    BY <1>3
  <2>2. /\ pc' \in {"lock", "top"} /\ (pc' = "top" => missed')
        /\ UNCHANGED <<ring, file, ready, hreq, failed, cur>>
    BY <2>1 DEF Wake
  <2>3. QED  BY <1>1, <2>2
<1>4. CASE Read
  <2>1. /\ pc' \in {"use", "io"} /\ IsInput
        /\ pc' = "use" /\ cur' = 0 => file' = 0 \/ failed'
    <3>1. /\ HeadLen \in Int /\ cur \in Nat /\ file \in Nat
          /\ MinOf(HeadLen - cur, file) \in Int
      BY <1>0, HeadFacts, <1>4 DEF Read, PortInv, CurOfHead, InChain, HeadLen, MinOf, TypeOK
    <3>2. QED
      BY <1>4, <3>1 DEF Read
  <2>2. ready' = ready /\ hreq' = hreq
    BY <1>4 DEF Read
  <2>3. QED  BY <1>1, <2>1, <2>2
<1>5. CASE Write
  <2>1. /\ pc' \in {"use", "io", "block", "panicked"} /\ ~ IsInput
        /\ pc' = "use" /\ cur' = 0 => failed'
    <3>1. /\ HeadLen \in Int /\ cur \in Nat /\ file \in Nat
          /\ MinOf(HeadLen - cur, file) \in Int
      BY <1>0, HeadFacts, <1>5, SMTT(20)
         DEF Write, PortInv, CurOfHead, InChain, HeadLen, MinOf, TypeOK
    <3>2. QED
      BY <1>5, <3>1 DEF Write, Wrote, WouldBlock, WriteFails, WriteShort
  <2>2. ready' = ready /\ hreq' = hreq
    BY <1>5 DEF Write
  <2>3. QED  BY <1>1, <2>1, <2>2
<1>6. CASE Writable \/ PutBack \/ Use
  BY <1>0, <1>1, <1>6 DEF Writable, PutBack, Use, TypeOK
<1>7. CASE HostWrites \/ HostReads \/ HostCloses
  BY <1>1, <1>7 DEF HostWrites, HostReads, HostCloses
<1>8. ASSUME NEW n \in ChainLens, GuestPublishes(n)  PROVE EventInv'
  BY <1>1, <1>8 DEF GuestPublishes
<1>9. CASE (\E b \in BOOLEAN : SetEnabled(b)) \/ GetVringBase \/ RingStopped
            \/ RingReset \/ Stop
  BY <1>1, <1>9 DEF SetEnabled, GetVringBase, RingStopped, RingReset, Stop
<1>10. CASE UNCHANGED vars
  BY <1>1, <1>10 DEF vars
<1>11. QED
  BY <1>2, <1>3, <1>4, <1>5, <1>6, <1>7, <1>8, <1>9, <1>10 DEF Next, Thread

\* A port thread never goes to sleep over bytes it could move: the edge-triggered
\* event of the file or a kick is still to come, for chains and bytes of any
\* number.
THEOREM PortKeepsEvents == Spec => []EventKept
<1>1. Init => EventInv
  BY DEF Init, EventInv, EventKept, GivesUp, StoppedFirst
<1>2. EventInv => EventKept
  BY DEF EventInv
<1>3. QED  BY <1>1, <1>2, EventNext, PortInvariant, PTL DEF Spec
=============================================================================
