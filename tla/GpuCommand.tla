----------------------------- MODULE GpuCommand -----------------------------
(***************************************************************************)
(* The gpu's worker as a server of commands, and the device around it:     *)
(* how a chain is decoded (GpuCommand::decode), dispatched                 *)
(* (process_gpu_command), answered (GpuResponse::encode) and returned, and *)
(* how GpuDevice::activate and stop start and join the thread.             *)
(*                                                                         *)
(* A command is its type, the bytes of its readable descriptors, the bytes *)
(* of its writable ones, its fence flag and whether add_used takes its     *)
(* head; lengths are those of the structures in protocol.rs.  What a       *)
(* command does to resources and scanouts is in GpuScanout; what becomes   *)
(* of a fenced one that FenceState keeps, and notifications, in GpuFence.  *)
(* Rutabaga and the front-end are outside and may refuse every call.  Both *)
(* queues are served in the same way.                                      *)
(***************************************************************************)
EXTENDS Naturals

CONSTANTS
  Rooms,        \* bytes the driver leaves for a response
  Extras,       \* trailing elements of a command with a variable part
  CapsetLens,   \* lengths of the capsets rutabaga has
  EdidSizes,    \* sizes of the EDIDs the front-end has
  MaxChains     \* bound: commands the driver sends

ASSUME ConstantsAssumption ==
  /\ Rooms \subseteq Nat /\ Extras \subseteq Nat /\ CapsetLens \subseteq Nat
  /\ EdidSizes \subseteq Nat /\ MaxChains \in Nat

\* Le32, Le64, and the structures: virtio_gpu_ctrl_hdr, _rect, _cursor_pos, _box.
W32 == 4
W64 == 8
HDR == W32 + W32 + W64 + W32 + 4
RECT == 4 * W32
CURSOR_POS == 4 * W32
BOX == 6 * W32
MEM_ENTRY == W64 + 2 * W32
IdAndPadding == 2 * W32
EDID_BLOB_MAX_SIZE == 1024
VIRTIO_GPU_MAX_SCANOUTS == 16

\* What follows the header: the commands of the control queue's 2d part, and of
\* the cursor queue.
Body2d ==
  [GetDisplayInfo |-> 0,
   GetEdid |-> IdAndPadding,
   ResourceCreate2d |-> 4 * W32,
   ResourceUnref |-> IdAndPadding,
   SetScanout |-> RECT + 2 * W32,
   ResourceFlush |-> RECT + 2 * W32,
   TransferToHost2d |-> RECT + W64 + 2 * W32,
   ResourceAttachBacking |-> 2 * W32,
   ResourceDetachBacking |-> IdAndPadding,
   UpdateCursor |-> CURSOR_POS + 4 * W32,
   MoveCursor |-> CURSOR_POS + 4 * W32]

\* The 3d resources,
Body3d ==
  [TransferToHost3d |-> BOX + W64 + 4 * W32,
   TransferFromHost3d |-> BOX + W64 + 4 * W32,
   ResourceCreate3d |-> 12 * W32]

\* contexts,
BodyContext ==
  [CtxCreate |-> 2 * W32 + 64,
   CtxDestroy |-> 0,
   CtxAttachResource |-> IdAndPadding,
   CtxDetachResource |-> IdAndPadding,
   CmdSubmit3d |-> 2 * W32]

\* and capsets.
BodyCapset == [GetCapsetInfo |-> IdAndPadding, GetCapset |-> 2 * W32]

\* Blobs and uuids.
BodyBlob ==
  [ResourceCreateBlob |-> 4 * W32 + 2 * W64,
   SetScanoutBlob |-> RECT + 6 * W32 + 8 * W32,
   ResourceMapBlob |-> 2 * W32 + W64,
   ResourceUnmapBlob |-> IdAndPadding,
   ResourceAssignUuid |-> IdAndPadding]

Types == UNION {DOMAIN Body2d, DOMAIN Body3d, DOMAIN BodyContext, DOMAIN BodyCapset,
                DOMAIN BodyBlob}
Unimplemented == DOMAIN BodyBlob
Unknown == "InvalidType"     \* the type of no command
Malformed == "Malformed"     \* a chain no Reader or Writer can be made for

Body(t) == CASE t \in DOMAIN Body2d -> Body2d[t]
             [] t \in DOMAIN Body3d -> Body3d[t]
             [] t \in DOMAIN BodyContext -> BodyContext[t]
             [] t \in DOMAIN BodyCapset -> BodyCapset[t]
             [] t \in DOMAIN BodyBlob -> BodyBlob[t]

\* The entries of ResourceAttachBacking, the in-fences and the data of CmdSubmit3d.
Tail(t, n) == CASE t = "ResourceAttachBacking" -> n * MEM_ENTRY
                [] t = "CmdSubmit3d" -> n * W64 + n
                [] OTHER -> 0

VARIABLES
  dev,          \* the thread that calls activate and stop
  gpu_backend,  \* GpuDevice::gpu_backend is Some
  worker,       \* the worker thread
  exit_event,
  report,       \* what the worker sent through activate's channel, or its end
  sent,         \* commands the driver made available
  taken,        \* chains popped
  returned,     \* chains put into the used ring
  held,         \* chains FenceState keeps for their fences, by used_ok
  dropped,      \* chains the fence handler could not return
  chain,        \* the chain in hand
  response,     \* its response
  last          \* what the last chain was answered, until the next is popped: its
                \* length in the used ring, what was written, the response

fences == <<held, dropped>>
vars == <<dev, gpu_backend, worker, exit_event, report, sent, taken, returned, chain,
          response, last, fences>>

NoChain ==
  [type |-> "None", readable |-> 0, extra |-> 0, room |-> 0, fenced |-> FALSE, used_ok |-> FALSE]
NoResponse == [kind |-> "None", data |-> 0]
NoAnswer == [len |-> 0, written |-> 0, kind |-> "None"]
Err(k) == [kind |-> k, data |-> 0]
OkNoData == [kind |-> "OkNoData", data |-> 0]

Init ==
  /\ dev = "new" /\ gpu_backend = FALSE /\ worker = "none" /\ exit_event = FALSE
  /\ report = "none"
  /\ sent = 0 /\ taken = 0 /\ returned = 0 /\ held = [b \in BOOLEAN |-> 0] /\ dropped = 0
  /\ chain = NoChain /\ response = NoResponse
  /\ last = NoAnswer

-----------------------------------------------------------------------------
(* The protocol. *)

\* GpuCommand::decode reads the header, then the structure of the type, then
\* its elements, and fails where the descriptors end.
Decodes(c) ==
  /\ c.readable >= HDR
  /\ c.type # Unknown
  /\ c.readable >= HDR + Body(c.type) + Tail(c.type, c.extra)

\* GpuResponse::encode: the structure a response is written as.
DISPLAY_INFO == HDR + VIRTIO_GPU_MAX_SCANOUTS * (RECT + 2 * W32)
RESP_EDID == HDR + 2 * W32 + EDID_BLOB_MAX_SIZE
CAPSET_INFO == HDR + 4 * W32
PLANE_INFO == HDR + 2 * W32 + W64 + 8 * W32
Size(r) ==
  CASE r.kind = "OkDisplayInfo" -> DISPLAY_INFO
    [] r.kind = "OkEdid" -> RESP_EDID
    [] r.kind = "OkCapsetInfo" -> CAPSET_INFO
    [] r.kind = "OkCapset" -> HDR + r.data
    [] r.kind = "OkResourcePlaneInfo" -> PLANE_INFO
    [] OTHER -> HDR

MinOf(a, b) == IF a <= b THEN a ELSE b

\* encode succeeds: write_obj writes all or fails, a capset is cut where the room
\* ends, plane info becomes NODATA if it does not fit.  An EDID is copied into 1024
\* bytes, and the copy panics for another size.
Panics(r) == r.kind = "OkEdid" /\ r.data # EDID_BLOB_MAX_SIZE
M_CanEncode(r, room) == room >= Size(r)    \* write_all for write
CanEncode(r, room) ==
  \/ r.kind \in {"OkCapset", "OkResourcePlaneInfo"} /\ room >= HDR
  \/ r.kind \notin {"OkCapset", "OkResourcePlaneInfo"} /\ room >= Size(r)

\* The length encode returns, and the bytes it has put into the chain.
M_EncodedLen(r, room) == Size(r)   \* the length before plane info was cut
EncodedLen(r, room) ==
  IF r.kind = "OkResourcePlaneInfo" /\ room < Size(r) THEN HDR ELSE Size(r)
WrittenLen(r, room) ==
  CASE r.kind = "OkResourcePlaneInfo" -> IF room < Size(r) THEN HDR ELSE 0
    [] r.kind = "OkCapset" -> MinOf(Size(r), room)
    [] OTHER -> Size(r)

\* What process_gpu_command may answer.  The front-end has the displays,
Errs(kinds) == {Err(k) : k \in kinds}
AnswersDisplay ==
  [GetDisplayInfo |-> {[kind |-> "OkDisplayInfo", data |-> VIRTIO_GPU_MAX_SCANOUTS]}
                        \cup Errs({"ErrUnspec"}),
   GetEdid |-> [kind : {"OkEdid"}, data : EdidSizes] \cup Errs({"ErrUnspec"})]

\* result_from_query: a resource that rutabaga can export has planes.
Created == {OkNoData, [kind |-> "OkResourcePlaneInfo", data |-> 4]}
AnswersResource ==
  [ResourceCreate2d |-> Created \cup Errs({"ErrRutabaga"}),
   ResourceCreate3d |-> Created \cup Errs({"ErrRutabaga"}),
   ResourceUnref |-> {OkNoData}
                       \cup Errs({"ErrInvalidResourceId", "ErrUnspec", "ErrRutabaga"})]

AnswersScanout ==
  [SetScanout |-> {OkNoData}
                    \cup Errs({"ErrInvalidScanoutId", "ErrInvalidResourceId", "ErrUnspec"}),
   ResourceFlush |-> {OkNoData} \cup Errs({"ErrInvalidResourceId", "ErrUnspec"})]

\* A backing must lie in the guest's memory (rutabaga_iovecs_from_guest_mem).
ErrIovecs == "ErrInvalidParameter"
AnswersBacking ==
  [TransferToHost2d |-> {OkNoData} \cup Errs({"ErrRutabaga"}),
   TransferToHost3d |-> {OkNoData} \cup Errs({"ErrRutabaga"}),
   TransferFromHost3d |-> {OkNoData} \cup Errs({"ErrRutabaga"}),
   ResourceAttachBacking |-> {OkNoData} \cup Errs({ErrIovecs, "ErrRutabaga"}),
   ResourceDetachBacking |-> {OkNoData} \cup Errs({"ErrRutabaga"})]

AnswersCursor ==
  [UpdateCursor |-> {OkNoData}
                      \cup Errs({"ErrInvalidResourceId", "ErrInvalidParameter", "ErrUnspec"}),
   MoveCursor |-> {OkNoData} \cup Errs({"ErrUnspec"})]

AnswersCapset ==
  [GetCapsetInfo |-> {[kind |-> "OkCapsetInfo", data |-> 0]} \cup Errs({"ErrRutabaga"}),
   GetCapset |-> [kind : {"OkCapset"}, data : CapsetLens] \cup Errs({"ErrRutabaga"})]

AnswersContext ==
  [t \in DOMAIN BodyContext |-> {OkNoData} \cup Errs({"ErrRutabaga"})]

Answers(t) ==
  CASE t \in DOMAIN AnswersDisplay -> AnswersDisplay[t]
    [] t \in DOMAIN AnswersResource -> AnswersResource[t]
    [] t \in DOMAIN AnswersScanout -> AnswersScanout[t]
    [] t \in DOMAIN AnswersBacking -> AnswersBacking[t]
    [] t \in DOMAIN AnswersCursor -> AnswersCursor[t]
    [] t \in DOMAIN AnswersCapset -> AnswersCapset[t]
    [] t \in DOMAIN AnswersContext -> AnswersContext[t]

-----------------------------------------------------------------------------
(* The worker. *)

\* The thread of activate: RutabagaVirtioGpu::new may panic, GpuWorker::new may
\* fail, and both are reported through the channel.
WorkerInit ==
  /\ worker = "init"
  /\ \/ worker' = "wait" /\ report' = "Ok"
     \/ worker' \in {"exited", "dead"} /\ report' = "Err"
  /\ UNCHANGED <<dev, gpu_backend, exit_event, sent, taken, returned, chain, response, last,
                 fences>>

M_Quit ==    \* break for return
  /\ worker = "wait" /\ exit_event
  /\ worker' = "wait"
  /\ UNCHANGED <<dev, gpu_backend, exit_event, report, sent, taken, returned, chain,
                 response, last, fences>>

\* run: the Quit token.
Quit ==
  /\ worker = "wait" /\ exit_event
  /\ worker' = "exited"
  /\ UNCHANGED <<dev, gpu_backend, exit_event, report, sent, taken, returned, chain,
                 response, last, fences>>

\* Chains the driver may make: of every type, with too few bytes for the header,
\* for the command, or enough; with a fence or not; one add_used refuses has a head
\* outside the queue, or a used ring outside the memory.
ChainsOf(t, n) ==
  [type : {t}, extra : {n}, room : Rooms, fenced : BOOLEAN, used_ok : BOOLEAN,
   readable : {HDR - 1, HDR + Body(t) + Tail(t, n) - 1, HDR + Body(t) + Tail(t, n)}]
OddChains ==
  [type : {Unknown, Malformed}, readable : {HDR}, extra : {0}, room : Rooms,
   fenced : BOOLEAN, used_ok : BOOLEAN]
DriverChains ==
  (UNION {ChainsOf(t, 0) : t \in Types})
    \cup (UNION {ChainsOf(t, n) : t \in {"ResourceAttachBacking", "CmdSubmit3d"}, n \in Extras})
    \cup OddChains

\* What becomes of a command that decodes: an answer, or the end of the thread.
Execute(c) ==
  \/ /\ c.type \in Unimplemented
     /\ worker' = "dead" /\ UNCHANGED response
  \/ /\ c.type \notin Unimplemented
     /\ response' \in Answers(c.type)
     /\ worker' = IF response'.kind = "OkEdid" /\ response'.data > EDID_BLOB_MAX_SIZE
                  THEN "dead" ELSE "reply"

\* process_queue makes a Reader and a Writer for the chain it popped, and decodes.
Pop(c) ==
  /\ taken' = taken + 1 /\ chain' = c /\ last' = NoAnswer
  /\ \/ c.type = Malformed /\ worker' = "dead" /\ UNCHANGED response
     \/ c.type # Malformed /\ Decodes(c) /\ Execute(c)
     \/ /\ c.type # Malformed /\ ~ Decodes(c)
        /\ response' = Err("ErrUnspec") /\ worker' = "reply"
  /\ UNCHANGED <<dev, gpu_backend, exit_event, report, sent, returned, fences>>

Serve ==
  /\ worker = "wait" /\ taken < sent
  /\ \E c \in DriverChains : Pop(c)

\* The chain in hand has been dealt with, with response r.
Done(r, len, written) ==
  /\ last' = [len |-> len, written |-> written, kind |-> r.kind]
  /\ worker' = "wait" /\ chain' = NoChain /\ response' = NoResponse

M_AddUsed(r, len, written) ==    \* a chain without room is not returned
  /\ returned' = IF chain.room = 0 THEN returned ELSE returned + 1
  /\ Done(r, len, written)

\* add_used, whose error ends run, and its unwrap the thread.
AddUsed(r, len, written) ==
  \/ chain.used_ok /\ returned' = returned + 1 /\ Done(r, len, written)
  \/ ~ chain.used_ok /\ worker' = "dead" /\ UNCHANGED <<returned, last, chain, response>>

\* create_fence may fail, and its error then replaces the response.
Fenced(c) == Decodes(c) /\ c.fenced
Responses == {response} \cup (IF Fenced(chain) THEN Errs({"ErrRutabaga"}) ELSE {})

\* encode, whose error ends the thread; process_fence then keeps a fenced chain
\* unless its fence has completed.
Encode(r) ==
  \/ /\ Panics(r) \/ ~ CanEncode(r, chain.room)
     /\ worker' = "dead" /\ UNCHANGED <<returned, last, chain, response, held>>
  \/ /\ ~ Panics(r) /\ CanEncode(r, chain.room)
     /\ \/ /\ AddUsed(r, EncodedLen(r, chain.room), WrittenLen(r, chain.room))
           /\ UNCHANGED held
        \/ /\ Fenced(chain)
           /\ held' = [held EXCEPT ![chain.used_ok] = @ + 1] /\ UNCHANGED returned
           /\ Done(r, EncodedLen(r, chain.room), WrittenLen(r, chain.room))

\* The rest of process_queue_chain.
Reply ==
  /\ worker = "reply"
  /\ \/ chain.room = 0 /\ AddUsed(response, 0, 0) /\ UNCHANGED held
     \/ chain.room > 0 /\ \E r \in Responses : Encode(r)
  /\ UNCHANGED <<dev, gpu_backend, exit_event, report, sent, taken, dropped>>

\* The fence handler, on the worker from event_poll or on a thread of rutabaga's,
\* returns a chain, or forgets it if its ring cannot be locked.  It unwraps the
\* error of add_used, which is the end of the thread it runs on.
FenceDone(ok) ==
  /\ held[ok] > 0 /\ held' = [held EXCEPT ![ok] = @ - 1]
  /\ \/ ok /\ returned' = returned + 1 /\ UNCHANGED <<dropped, worker>>
     \/ dropped' = dropped + 1 /\ UNCHANGED <<returned, worker>>
     \/ ~ ok /\ worker = "wait" /\ worker' = "dead" /\ dropped' = dropped + 1 /\ UNCHANGED returned
  /\ UNCHANGED <<dev, gpu_backend, exit_event, report, sent, taken, chain, response, last>>

Worker == WorkerInit \/ Quit \/ Serve \/ Reply

-----------------------------------------------------------------------------
(* GpuDevice, called from the connection thread, and the driver. *)

\* set_gpu_socket.
SetGpuSocket ==
  /\ dev = "new" /\ gpu_backend' = TRUE
  /\ UNCHANGED <<dev, worker, exit_event, report, sent, taken, returned, chain, response,
                 last, fences>>

\* activate takes the socket, starts the thread and waits for its report.
Activate ==
  /\ dev = "new"
  /\ gpu_backend' = FALSE
  /\ \/ gpu_backend /\ worker' = "init" /\ dev' = "activating"
     \/ ~ gpu_backend /\ dev' = "failed" /\ UNCHANGED worker
  /\ UNCHANGED <<exit_event, report, sent, taken, returned, chain, response, last, fences>>

Activated ==
  /\ dev = "activating" /\ report # "none"
  /\ dev' = IF report = "Ok" THEN "active" ELSE "failed"
  /\ UNCHANGED <<gpu_backend, worker, exit_event, report, sent, taken, returned, chain,
                 response, last, fences>>

\* stop, when the connection has ended or RESET_DEVICE came (which does nothing
\* to a device that was not activated).
Stop ==
  /\ dev \in {"new", "active", "failed"}
  /\ \/ worker = "none" /\ dev' = "stopped" /\ UNCHANGED exit_event
     \/ worker # "none" /\ dev' = "joining" /\ exit_event' = TRUE
  /\ UNCHANGED <<gpu_backend, worker, report, sent, taken, returned, chain, response, last,
                 fences>>

\* join returns; the error of a thread that panicked is unwrapped.
Joined ==
  /\ dev = "joining" /\ worker \in {"exited", "dead"}
  /\ dev' = IF worker = "dead" THEN "panicked" ELSE "stopped"
  /\ UNCHANGED <<gpu_backend, worker, exit_event, report, sent, taken, returned, chain,
                 response, last, fences>>

Device == SetGpuSocket \/ Activate \/ Activated \/ Stop \/ Joined

\* The driver makes a command available; its content is chosen when it is read.
Send ==
  /\ sent < MaxChains
  /\ sent' = sent + 1
  /\ UNCHANGED <<dev, gpu_backend, worker, exit_event, report, taken, returned, chain,
                 response, last, fences>>

Next == Worker \/ (\E ok \in BOOLEAN : FenceDone(ok)) \/ Device \/ Send

Spec == Init /\ [][Next]_vars

\* The worker thread runs, and a join that can return does.
FairSpec == Spec /\ WF_vars(Worker) /\ WF_vars(Joined)

-----------------------------------------------------------------------------
(* Properties. *)

\* The length in the used ring is what was written into the chain.  The two
\* exceptions: plane info that fits is never written although its length is
\* reported, and a capset is reported in full where the room cut it.
UsedLenHonest ==
  last.len # last.written =>
    \/ last.kind = "OkResourcePlaneInfo" /\ last.written = 0
    \/ last.kind = "OkCapset" /\ last.written < last.len

\* Room for the response of an implemented command, as the specification of the
\* device has it (a capset may be cut).
RoomFor(t) == CASE t = "GetDisplayInfo" -> 408 [] t = "GetCapsetInfo" -> 40 [] OTHER -> 24

WellFormed(c) ==
  /\ c.type \in Types \ (Unimplemented \cup {"GetEdid"})
  /\ c.room >= RoomFor(c.type) /\ c.used_ok

\* A command the device implements, cut short or not, with room for its response
\* never ends the worker thread, whatever rutabaga and the front-end answer and
\* whatever becomes of its fence.  The others may: commands without an
\* implementation, an EDID that is not 1024 bytes long, a response buffer that is too
\* short, a malformed chain, one that add_used refuses.
WellFormedSurvives == worker = "dead" => ~ WellFormed(chain)

\* Every command, one without room for an answer too, is returned or, with a fence,
\* handed to FenceState, as long as the worker is there.  FenceState may still drop
\* it (GpuFence has the rest).
Handled == returned + held[TRUE] + held[FALSE] + dropped
CommandsHandled ==
  (worker = "wait" /\ Handled < sent)
    ~> (Handled = sent \/ worker \in {"exited", "dead"})

\* GpuDevice::stop comes back: the worker sees exit_event, even if it was written
\* while the worker was busy with a command.
StopJoins == dev = "joining" ~> dev \in {"stopped", "panicked"}
=============================================================================
