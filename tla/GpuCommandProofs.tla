-------------------------- MODULE GpuCommandProofs --------------------------
(***************************************************************************)
(* Proofs about GpuCommand for any buffers, capsets, EDIDs and numbers of  *)
(* commands.                                                               *)
(***************************************************************************)
EXTENDS GpuCommand, Integers, TLAPS

\* What a response may be, for the proofs below.
DataKinds == {"OkDisplayInfo", "OkEdid", "OkCapsetInfo", "OkCapset", "OkResourcePlaneInfo"}

\* An answer fits the room the specification of the device has for its command, and
\* is an EDID only if one was asked for.
AnswerFits(t, r) ==
  /\ r.data \in Nat
  /\ r.kind = "OkEdid" => t = "GetEdid"
  /\ r.kind = "OkDisplayInfo" => t = "GetDisplayInfo"
  /\ r.kind = "OkCapsetInfo" => t = "GetCapsetInfo"

\* The responses without data.
LEMMA PlainAnswers ==
  ASSUME NEW t, NEW ks, ks \cap DataKinds = {}, NEW r \in Errs(ks) \cup Created
  PROVE  AnswerFits(t, r)
BY DEF Errs, Err, Created, OkNoData, DataKinds, AnswerFits

LEMMA NoDataFits ==
  ASSUME NEW t, NEW ks, ks \cap DataKinds = {}, NEW r \in {OkNoData} \cup Errs(ks)
  PROVE  AnswerFits(t, r)
BY DEF Errs, Err, OkNoData, DataKinds, AnswerFits

\* The tables of the answers are about different commands.
LEMMA AnswerDomains ==
  /\ DOMAIN AnswersDisplay = {"GetDisplayInfo", "GetEdid"}
  /\ DOMAIN AnswersResource = {"ResourceCreate2d", "ResourceCreate3d", "ResourceUnref"}
  /\ DOMAIN AnswersScanout = {"SetScanout", "ResourceFlush"}
  /\ DOMAIN AnswersBacking = {"TransferToHost2d", "TransferToHost3d", "TransferFromHost3d",
                              "ResourceAttachBacking", "ResourceDetachBacking"}
  /\ DOMAIN AnswersCursor = {"UpdateCursor", "MoveCursor"}
  /\ DOMAIN AnswersCapset = {"GetCapsetInfo", "GetCapset"}
  /\ DOMAIN AnswersContext = {"CtxCreate", "CtxDestroy", "CtxAttachResource",
                              "CtxDetachResource", "CmdSubmit3d"}
BY DEF AnswersDisplay, AnswersResource, AnswersScanout, AnswersBacking, AnswersCursor,
       AnswersCapset, AnswersContext, BodyContext

LEMMA AnswersFit ==
  ASSUME NEW t \in Types \ Unimplemented, NEW r \in Answers(t)
  PROVE  AnswerFits(t, r)
<1>1. t \in DOMAIN AnswersDisplay \cup DOMAIN AnswersResource \cup DOMAIN AnswersScanout
            \cup DOMAIN AnswersBacking \cup DOMAIN AnswersCursor
            \cup DOMAIN AnswersCapset \cup DOMAIN AnswersContext
  BY DEF Types, Unimplemented, Body2d, Body3d, BodyContext, BodyCapset, BodyBlob,
         AnswersDisplay, AnswersResource, AnswersScanout, AnswersBacking, AnswersCursor,
         AnswersCapset, AnswersContext
<1>2. CASE t \in DOMAIN AnswersDisplay
  <2>1. r \in AnswersDisplay[t] /\ t \in {"GetDisplayInfo", "GetEdid"}
    BY <1>2, AnswerDomains DEF Answers
  <2>2. CASE r \in {OkNoData} \cup Errs({"ErrUnspec"})
    BY <2>2, NoDataFits DEF DataKinds
  <2>3. CASE t = "GetDisplayInfo" /\ r = [kind |-> "OkDisplayInfo",
                                          data |-> VIRTIO_GPU_MAX_SCANOUTS]
    BY <2>3 DEF AnswerFits, VIRTIO_GPU_MAX_SCANOUTS
  <2>4. CASE t = "GetEdid" /\ r \in [kind : {"OkEdid"}, data : EdidSizes]
    BY <2>4, ConstantsAssumption DEF AnswerFits
  <2>5. QED  BY <2>1, <2>2, <2>3, <2>4 DEF AnswersDisplay
<1>3. CASE t \in DOMAIN AnswersResource
  <2>1. r \in AnswersResource[t]
    BY <1>3, AnswerDomains DEF Answers
  <2>2. t \in {"ResourceCreate2d", "ResourceCreate3d", "ResourceUnref"}
    BY <1>3, AnswerDomains
  <2>3. QED  BY <2>1, <2>2, PlainAnswers, NoDataFits DEF AnswersResource, DataKinds
<1>4. CASE t \in DOMAIN AnswersScanout
  <2>1. r \in AnswersScanout[t] /\ t \in {"SetScanout", "ResourceFlush"}
    BY <1>4, AnswerDomains DEF Answers
  <2>2. QED  BY <2>1, NoDataFits DEF AnswersScanout, DataKinds
<1>5. CASE t \in DOMAIN AnswersBacking
  <2>1. /\ r \in AnswersBacking[t]
        /\ t \in {"TransferToHost2d", "TransferToHost3d", "TransferFromHost3d",
                  "ResourceAttachBacking", "ResourceDetachBacking"}
    BY <1>5, AnswerDomains DEF Answers
  <2>2. QED  BY <2>1, NoDataFits DEF AnswersBacking, DataKinds, ErrIovecs
<1>6. CASE t \in DOMAIN AnswersCursor
  <2>1. r \in AnswersCursor[t] /\ t \in {"UpdateCursor", "MoveCursor"}
    BY <1>6, AnswerDomains DEF Answers
  <2>2. QED  BY <2>1, NoDataFits DEF AnswersCursor, DataKinds
<1>7. CASE t \in DOMAIN AnswersCapset
  <2>1. r \in AnswersCapset[t] /\ t \in {"GetCapsetInfo", "GetCapset"}
    BY <1>7, AnswerDomains DEF Answers
  <2>2. CASE r \in {OkNoData} \cup Errs({"ErrRutabaga"})
    BY <2>2, NoDataFits DEF DataKinds
  <2>3. CASE t = "GetCapsetInfo" /\ r = [kind |-> "OkCapsetInfo", data |-> 0]
    BY <2>3 DEF AnswerFits
  <2>4. CASE t = "GetCapset" /\ r \in [kind : {"OkCapset"}, data : CapsetLens]
    BY <2>4, ConstantsAssumption DEF AnswerFits
  <2>5. QED  BY <2>1, <2>2, <2>3, <2>4 DEF AnswersCapset
<1>8. CASE t \in DOMAIN AnswersContext
  <2>1. r \in AnswersContext[t]
    BY <1>8, AnswerDomains DEF Answers
  <2>2. r \in {OkNoData} \cup Errs({"ErrRutabaga"})
    BY <1>8, <2>1 DEF AnswersContext
  <2>3. QED  BY <2>2, NoDataFits DEF DataKinds
<1>9. QED  BY <1>1, <1>2, <1>3, <1>4, <1>5, <1>6, <1>7, <1>8

-----------------------------------------------------------------------------
(* The inductive invariant. *)

\* While the worker replies it has a command and a response that belong together.
InHand ==
  worker = "reply" =>
    /\ response.data \in Nat /\ chain.room \in Nat
    /\ WellFormed(chain) => AnswerFits(chain.type, response)

CommandInv ==
  /\ InHand /\ UsedLenHonest /\ WellFormedSurvives
  /\ worker \in {"none", "init", "wait"} => chain = NoChain

\* A response to a well-formed command can be encoded.
LEMMA FitsIsEncoded ==
  ASSUME NEW c, WellFormed(c), c.room \in Nat, NEW r, AnswerFits(c.type, r)
  PROVE  ~ Panics(r) /\ CanEncode(r, c.room)
<1>1. c.type # "GetEdid" /\ c.room >= RoomFor(c.type)
  BY DEF WellFormed
<1>2. ~ Panics(r)
  BY <1>1 DEF AnswerFits, Panics
<1>3. HDR = 24 /\ DISPLAY_INFO = 408 /\ CAPSET_INFO = 40
  BY DEF HDR, W32, W64, DISPLAY_INFO, CAPSET_INFO, VIRTIO_GPU_MAX_SCANOUTS, RECT
<1>4. c.room >= 24 /\ (c.type = "GetDisplayInfo" => c.room >= 408)
        /\ (c.type = "GetCapsetInfo" => c.room >= 40)
  BY <1>1 DEF RoomFor
<1>5. CASE r.kind \in {"OkCapset", "OkResourcePlaneInfo"}
  BY <1>2, <1>3, <1>4, <1>5 DEF CanEncode
<1>6. CASE r.kind \notin {"OkCapset", "OkResourcePlaneInfo"}
  <2>1. c.room >= Size(r)
    BY <1>1, <1>3, <1>4, <1>6 DEF AnswerFits, Size
  <2>2. QED  BY <1>2, <1>6, <2>1 DEF CanEncode
<1>7. QED  BY <1>5, <1>6

\* What the two exceptions are.
LEMMA LengthsDiffer ==
  ASSUME NEW r, r.data \in Nat, NEW room \in Nat,
         EncodedLen(r, room) # WrittenLen(r, room)
  PROVE  \/ r.kind = "OkResourcePlaneInfo" /\ WrittenLen(r, room) = 0
         \/ r.kind = "OkCapset" /\ WrittenLen(r, room) < EncodedLen(r, room)
<1>1. HDR \in Nat
  BY DEF HDR, W32, W64
<1>2. CASE r.kind = "OkResourcePlaneInfo"
  BY <1>2 DEF EncodedLen, WrittenLen
<1>3. CASE r.kind = "OkCapset"
  <2>1. Size(r) = HDR + r.data /\ EncodedLen(r, room) = Size(r)
    BY <1>3 DEF Size, EncodedLen
  <2>2. WrittenLen(r, room) = MinOf(Size(r), room)
    BY <1>3 DEF WrittenLen
  <2>3. Size(r) \in Nat
    BY <1>1, <2>1
  <2>4. QED  BY <1>3, <2>1, <2>2, <2>3 DEF MinOf
<1>4. CASE r.kind \notin {"OkResourcePlaneInfo", "OkCapset"}
  BY <1>4 DEF EncodedLen, WrittenLen
<1>5. QED  BY <1>2, <1>3, <1>4

LEMMA DriverChainTypes ==
  ASSUME NEW c \in DriverChains
  PROVE  c.room \in Nat /\ c.type \in Types \cup {Unknown, Malformed}
<1> DEFINE Varied == {"ResourceAttachBacking", "CmdSubmit3d"}
<1>1. Varied \subseteq Types
  BY DEF Types, Body2d, BodyContext
<1>2. \A t, n : \A x \in ChainsOf(t, n) : x.room \in Rooms /\ x.type = t
  BY DEF ChainsOf
<1>3. \/ \E t \in Types : c \in ChainsOf(t, 0)
      \/ \E t \in Varied, n \in Extras : c \in ChainsOf(t, n)
      \/ c \in OddChains
  BY DEF DriverChains
<1>4. c.room \in Rooms /\ c.type \in Types \cup {Unknown, Malformed}
  BY <1>1, <1>2, <1>3 DEF OddChains
<1>5. QED  BY <1>4, ConstantsAssumption

LEMMA PopKeeps ==
  ASSUME CommandInv, NEW c \in DriverChains, Pop(c)
  PROVE  CommandInv'
<1>1. chain' = c /\ last' = NoAnswer /\ worker' \in {"dead", "reply"}
  BY DEF Pop, Execute
<1>2. c.room \in Nat /\ c.type \in Types \cup {Unknown, Malformed}
  BY DriverChainTypes
<1>3. UsedLenHonest'
  BY <1>1 DEF UsedLenHonest, NoAnswer
<1>4. CASE ~ Decodes(c) /\ response' = Err("ErrUnspec") /\ worker' = "reply"
  <2>1. response'.data \in Nat /\ AnswerFits(c.type, response')
    BY <1>4 DEF Err, AnswerFits
  <2>2. QED
    BY <1>1, <1>2, <1>3, <1>4, <2>1
       DEF CommandInv, InHand, WellFormedSurvives
<1>5. CASE c.type = Malformed /\ worker' = "dead"
  <2>1. c.type \notin Types
    BY <1>5 DEF Malformed, Types, Body2d, Body3d, BodyContext, BodyCapset, BodyBlob
  <2>2. QED
    BY <1>1, <1>3, <1>5, <2>1 DEF CommandInv, InHand, WellFormedSurvives, WellFormed
<1>6. CASE c.type # Malformed /\ Decodes(c) /\ Execute(c)
  <2>1. c.type \in Types
    BY <1>2, <1>6 DEF Decodes
  <2>2. CASE c.type \in Unimplemented /\ worker' = "dead"
    BY <1>1, <1>3, <2>2 DEF CommandInv, InHand, WellFormedSurvives, WellFormed
  <2>3. CASE c.type \notin Unimplemented /\ response' \in Answers(c.type)
    <3>1. AnswerFits(c.type, response')
      BY <2>1, <2>3, AnswersFit
    <3>2. response'.data \in Nat
      BY <3>1 DEF AnswerFits
    <3>3. worker' = "dead" => response'.kind = "OkEdid"
      BY <1>6, <2>3 DEF Execute
    <3>4. worker' = "dead" => ~ WellFormed(c)
      BY <3>1, <3>3 DEF AnswerFits, WellFormed
    <3>5. QED
      BY <1>1, <1>2, <1>3, <3>1, <3>2, <3>4 DEF CommandInv, InHand, WellFormedSurvives
  <2>4. QED  BY <1>6, <2>2, <2>3 DEF Execute
<1>7. QED  BY <1>4, <1>5, <1>6 DEF Pop

\* An error of create_fence is an answer to any command.
LEMMA ResponsesFit ==
  ASSUME CommandInv, worker = "reply", NEW r \in Responses
  PROVE  r.data \in Nat /\ (WellFormed(chain) => AnswerFits(chain.type, r))
<1>1. CASE r = response
  BY <1>1 DEF CommandInv, InHand
<1>2. CASE r \in Errs({"ErrRutabaga"})
  <2>1. r \in {OkNoData} \cup Errs({"ErrRutabaga"}) /\ {"ErrRutabaga"} \cap DataKinds = {}
    BY <1>2 DEF DataKinds
  <2>2. AnswerFits(chain.type, r)
    BY <2>1, NoDataFits
  <2>3. QED  BY <2>2 DEF AnswerFits
<1>3. QED  BY <1>1, <1>2 DEF Responses

\* The chain is returned or kept with a length that is honest.
LEMMA DoneKeeps ==
  ASSUME CommandInv, NEW r, NEW n, NEW w, Done(r, n, w),
         n # w => \/ r.kind = "OkResourcePlaneInfo" /\ w = 0
                  \/ r.kind = "OkCapset" /\ w < n
  PROVE  CommandInv'
BY DEF Done, CommandInv, InHand, UsedLenHonest, WellFormedSurvives

\* The worker dies of a chain that is not well-formed.
LEMMA DeathKeeps ==
  ASSUME CommandInv, ~ WellFormed(chain), worker' = "dead", UNCHANGED <<last, chain, response>>
  PROVE  CommandInv'
BY DEF CommandInv, InHand, UsedLenHonest, WellFormedSurvives, WellFormed

LEMMA AddUsedKeeps ==
  ASSUME CommandInv, NEW r, NEW n, NEW w, AddUsed(r, n, w),
         n # w => \/ r.kind = "OkResourcePlaneInfo" /\ w = 0
                  \/ r.kind = "OkCapset" /\ w < n
  PROVE  CommandInv'
<1>1. CASE Done(r, n, w)
  BY <1>1, DoneKeeps
<1>2. CASE ~ chain.used_ok /\ worker' = "dead" /\ UNCHANGED <<returned, last, chain, response>>
  <2>1. ~ WellFormed(chain)
    BY <1>2 DEF WellFormed
  <2>2. QED  BY <1>2, <2>1, DeathKeeps
<1>3. QED  BY <1>1, <1>2 DEF AddUsed

LEMMA ReplyKeeps ==
  ASSUME CommandInv, Reply
  PROVE  CommandInv'
<1>1. worker = "reply" /\ chain.room \in Nat
  BY DEF CommandInv, InHand, Reply
<1>2. CASE AddUsed(response, 0, 0)
  BY <1>2, AddUsedKeeps
<1>3. ASSUME NEW r \in Responses, Encode(r)
      PROVE  CommandInv'
  <2> DEFINE n == EncodedLen(r, chain.room)
             w == WrittenLen(r, chain.room)
  <2>1. r.data \in Nat /\ (WellFormed(chain) => AnswerFits(chain.type, r))
    BY <1>1, <1>3, ResponsesFit
  <2>2. n # w => \/ r.kind = "OkResourcePlaneInfo" /\ w = 0
                 \/ r.kind = "OkCapset" /\ w < n
    BY <1>1, <2>1, LengthsDiffer
  <2>3. CASE /\ Panics(r) \/ ~ CanEncode(r, chain.room)
             /\ worker' = "dead" /\ UNCHANGED <<returned, last, chain, response, held>>
    <3>1. ~ WellFormed(chain)
      BY <1>1, <2>1, <2>3, FitsIsEncoded
    <3>2. QED  BY <2>3, <3>1, DeathKeeps
  <2>4. CASE AddUsed(r, n, w)
    BY <2>2, <2>4, AddUsedKeeps
  <2>5. CASE Done(r, n, w)
    BY <2>2, <2>5, DoneKeeps
  <2>6. QED  BY <1>3, <2>3, <2>4, <2>5 DEF Encode
<1>4. QED  BY <1>2, <1>3 DEF Reply

\* There is no worker before activate.
StartInv == dev = "new" => worker = "none"

LEMMA StartInvNext == StartInv /\ [Next]_vars => StartInv'
<1> SUFFICES ASSUME StartInv, [Next]_vars  PROVE StartInv'
  OBVIOUS
<1>1. CASE Worker
  BY <1>1 DEF Worker, WorkerInit, Quit, Serve, Pop, Reply, StartInv
<1>2. CASE (\E ok \in BOOLEAN : FenceDone(ok)) \/ Device \/ Send \/ UNCHANGED vars
  BY <1>2 DEF FenceDone, Device, SetGpuSocket, Activate, Activated, Stop, Joined, Send, vars, StartInv
<1>3. QED  BY <1>1, <1>2 DEF Next

LEMMA CommandInvNext == StartInv /\ CommandInv /\ [Next]_vars => CommandInv'
<1> SUFFICES ASSUME StartInv, CommandInv, [Next]_vars  PROVE CommandInv'
  OBVIOUS
<1>1. CASE UNCHANGED <<chain, response, last, worker>>
  BY <1>1 DEF CommandInv, InHand, UsedLenHonest, WellFormedSurvives, WellFormed, AnswerFits
<1>2. ASSUME UNCHANGED <<chain, response, last>>, worker' \in {"init", "wait", "exited", "dead"},
             chain = NoChain \/ worker' = "exited"
      PROVE  CommandInv'
  <2>1. NoChain.type \notin Types
    BY DEF NoChain, Types, Body2d, Body3d, BodyContext, BodyCapset, BodyBlob
  <2>2. ~ WellFormed(NoChain)
    BY <2>1 DEF WellFormed
  <2>3. QED
    BY <1>2, <2>2 DEF CommandInv, InHand, UsedLenHonest, WellFormedSurvives
<1>3. ASSUME NEW ok \in BOOLEAN, FenceDone(ok)
      PROVE  CommandInv'
  BY <1>1, <1>2, <1>3 DEF FenceDone, CommandInv
<1>4. CASE WorkerInit \/ Quit
  BY <1>2, <1>4 DEF WorkerInit, Quit, CommandInv
<1>5. CASE Reply \/ Serve
  BY <1>5, ReplyKeeps, PopKeeps DEF Serve
<1>6. CASE SetGpuSocket \/ Activated \/ Stop \/ Joined \/ Send \/ UNCHANGED vars
  BY <1>1, <1>6 DEF SetGpuSocket, Activated, Stop, Joined, Send, vars
<1>7. CASE Activate
  BY <1>1, <1>2, <1>7 DEF Activate, CommandInv, StartInv
<1>8. QED  BY <1>3, <1>4, <1>5, <1>6, <1>7 DEF Next, Worker, Device

LEMMA CommandInvariant == Spec => []CommandInv
<1>1. Init => StartInv /\ CommandInv
  BY DEF Init, StartInv, CommandInv, InHand, UsedLenHonest, WellFormedSurvives, NoAnswer
<1>2. QED  BY <1>1, StartInvNext, CommandInvNext, PTL DEF Spec

\* The used length of every response is what was written, but for the two
\* exceptions, whatever the capsets and the room.
THEOREM UsedLenCorrect == Spec => []UsedLenHonest
<1>1. CommandInv => UsedLenHonest
  BY DEF CommandInv
<1>2. QED  BY <1>1, CommandInvariant, PTL

\* The worker survives every implemented command with room for its response, cut
\* short or not, fenced or not, whatever rutabaga and the front-end answer.
THEOREM WorkerSurvives == Spec => []WellFormedSurvives
<1>1. CommandInv => WellFormedSurvives
  BY DEF CommandInv
<1>2. QED  BY <1>1, CommandInvariant, PTL
=============================================================================
