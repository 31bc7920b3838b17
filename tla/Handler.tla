------------------------------- MODULE Handler -------------------------------
(***************************************************************************)
(* The requests of VhostUserHandler about the guest's memory and the       *)
(* translation of ring addresses, the start of rings and of the device,    *)
(* and the log of dirty pages (handler.rs, bitmap.rs).  The connection     *)
(* thread handles one request at a time; SET_LOG_BASE replaces the bitmaps *)
(* of the regions one after the other, and the device writes, and marks    *)
(* what it wrote, between them.  How a ring and its epolls work is in      *)
(* Vring, what the device does in the other modules.                       *)
(*                                                                         *)
(* The handler is generic in the device.  activate is that of the gpu; the *)
(* log needs a device whose Bitmap is BitmapMmapRegion, which neither the  *)
(* gpu nor the console has: theirs is (), with which SET_LOG_BASE is       *)
(* refused unless the memory is empty.                                     *)
(*                                                                         *)
(* A region is its guest address, its size and its address in the          *)
(* front-end; once mapped it also has a generation, so that a region that  *)
(* is mapped again is another object, without a log.  The Vec of mappings  *)
(* is a set: its order is that of the generations and, within a table,     *)
(* which is sorted, that of the guest addresses.                           *)
(***************************************************************************)
EXTENDS Naturals, Sequences, FiniteSets

CONSTANTS
  Rings,
  Regions,      \* what the front-end may share: [gpa, size, va]
  Tables,       \* the memory tables it sends: sequences of regions
  RingAddrs,    \* the addresses it sends for a ring: [desc, avail, used]
  Writes,       \* writes of the device to a region: [off, len]
  Loggable,     \* the device's Bitmap is BitmapMmapRegion, and not ()
  LOG_PAGE_SIZE,
  LOG_WORD_SIZE,  \* pages per word of the log
  LogLens,      \* words of the logs the front-end sends
  MaxMaps,      \* bound: requests that change the memory
  MaxLogs,      \* bound: SET_LOG_BASE requests
  MaxWriters    \* bound: writes that are not marked yet

Region == [gpa : Nat, size : Nat \ {0}, va : Nat]

ASSUME ConstantsAssumption ==
  /\ Regions \subseteq Region /\ Tables \subseteq Seq(Regions)
  /\ RingAddrs \subseteq [desc : Nat, avail : Nat, used : Nat]
  /\ Writes \subseteq [off : Nat, len : Nat \ {0}]
  /\ LOG_PAGE_SIZE \in Nat \ {0} /\ LOG_WORD_SIZE \in Nat \ {0}
  /\ LogLens \subseteq Nat /\ MaxMaps \in Nat /\ MaxLogs \in Nat
  /\ Loggable \in BOOLEAN /\ MaxWriters \in Nat

VARIABLES
  mem,              \* atomic_mem: the mapped regions
  mappings,         \* what vmm_va_to_gpa looks at
  memory_updated, device_activated,
  gpu_socket,       \* the device has the socket that activate needs
  dev,              \* the device's threads
  ready, kick,      \* of each ring
  addr,             \* of each ring: desc, avail, used, and where next_used was read
  log,              \* words of the latest log, or 0
  logged,           \* regions whose bitmap is in that log
  todo,             \* set_log_base: regions still to replace
  dirty,            \* bits set in the log: <<word, bit>>
  pending,          \* writes whose mark_dirty is still to come: <<region, write>>
  snap,             \* the regions a device thread uses, loaded earlier
  conn,             \* the connection: "up", "replacing", "down"
  reply,            \* of the last request
  maps, logs,       \* counted for the bounds, and for the generations
  base,             \* the regions that were mapped when the log was set
  written,          \* for each page: "due" if it was written and must be in the log,
                    \* "maybe" if it may be, "no" if the device had nothing to do with it
  early             \* the rings that started before the memory table came

memVars == <<mem, mappings, maps>>
devVars == <<memory_updated, device_activated, gpu_socket, dev, early>>
ringVars == <<ready, kick, addr>>
logVars == <<log, logged, todo, dirty, logs, base, written, pending>>
vars == <<memVars, devVars, ringVars, logVars, snap, conn, reply>>

page_number(a) == a \div LOG_PAGE_SIZE
page_word(p) == p \div LOG_WORD_SIZE
page_bit(p) == p % LOG_WORD_SIZE
LastAddr(g) == g.gpa + g.size - 1
Pages == UNION {page_number(g.gpa) .. page_number(LastAddr(g)) : g \in Regions}
Clean == [p \in Pages |-> "no"]
NoAddr == [desc |-> 0, avail |-> 0, used |-> 0, next_used |-> 0]

\* VhostUserHandler::new; the program gives it an empty memory.
Init ==
  /\ mem = {} /\ mappings = {} /\ maps = 0
  /\ memory_updated = FALSE /\ device_activated = FALSE /\ gpu_socket = FALSE
  /\ dev = "none" /\ early = {}
  /\ ready = [r \in Rings |-> FALSE] /\ kick = [r \in Rings |-> FALSE]
  /\ addr = [r \in Rings |-> NoAddr]
  /\ log = 0 /\ logged = {} /\ todo = {} /\ dirty = {} /\ logs = 0
  /\ base = {} /\ written = Clean /\ pending = {}
  /\ snap = {} /\ conn = "up" /\ reply = "Ok"

\* A request that is refused, and changes nothing.
Refused == reply' = "Err" /\ UNCHANGED <<memVars, devVars, ringVars, logVars,
                                         snap, conn>>

-----------------------------------------------------------------------------
(* The guest's memory. *)

Map(g, n) == [gpa |-> g.gpa, size |-> g.size, va |-> g.va, gen |-> n]
Overlap(g, h) == g.gpa <= LastAddr(h) /\ h.gpa <= LastAddr(g)

\* GuestMemoryMmap::from_regions.
SortedAndApart(t) ==
  /\ t # <<>>
  /\ \A i, j \in 1 .. Len(t) : i < j => LastAddr(t[i]) < t[j].gpa

\* The new regions have no log (NewBitmap::with_len).
SetMemTable(t) ==
  /\ conn = "up" /\ maps < MaxMaps
  /\ \/ ~ SortedAndApart(t) /\ Refused
     \/ /\ SortedAndApart(t)
        /\ mem' = {Map(t[i], maps + 1) : i \in 1 .. Len(t)}
        /\ mappings' = {Map(t[i], maps + 1) : i \in 1 .. Len(t)}
        /\ memory_updated' = TRUE
        /\ maps' = maps + 1 /\ reply' = "Ok"
        /\ UNCHANGED <<device_activated, gpu_socket, dev, early, ringVars,
                       logVars, snap, conn>>

\* insert_region.
AddMemRegion(g) ==
  /\ conn = "up" /\ maps < MaxMaps
  /\ \/ (\E h \in mem : Overlap(g, h)) /\ Refused
     \/ /\ ~ (\E h \in mem : Overlap(g, h))
        /\ mem' = mem \cup {Map(g, maps + 1)}
        /\ mappings' = mappings \cup {Map(g, maps + 1)}
        /\ maps' = maps + 1 /\ reply' = "Ok"
        /\ UNCHANGED <<devVars, ringVars, logVars, snap, conn>>

M_Retain(g) == {m \in mappings : m.va # g.gpa}
Retain(g) == {m \in mappings : m.gpa # g.gpa}

\* remove_region: the same address and the same size.
RemoveMemRegion(g) ==
  /\ conn = "up" /\ maps < MaxMaps
  /\ LET gone == {h \in mem : h.gpa = g.gpa /\ h.size = g.size} IN
       \/ gone = {} /\ Refused
       \/ /\ gone # {}
          /\ mem' = mem \ gone /\ mappings' = Retain(g)
          /\ maps' = maps + 1 /\ reply' = "Ok"
          /\ UNCHANGED <<devVars, ringVars, logVars, snap, conn>>

\* vmm_va_to_gpa: the first mapping that has the address.
Covering(va) == {m \in mappings : va >= m.va /\ va < m.va + m.size}
Translates(va) == Covering(va) # {}
Before(m, n) == m.gen < n.gen \/ (m.gen = n.gen /\ m.gpa <= n.gpa)
M_vmm_va_to_gpa(va) == va
vmm_va_to_gpa(va) ==
  LET m == CHOOSE m \in Covering(va) : \A n \in Covering(va) : Before(m, n)
  IN va - m.va + m.gpa

InMemory(a) == \E g \in mem : a >= g.gpa /\ a <= LastAddr(g)

\* set_queue_info sets one address after the other and stops at one that is not
\* aligned; then the used index is read at used + 2.
SetVringAddr(r, a) ==
  /\ conn = "up"
  /\ \/ /\ mappings = {} \/ \E x \in {a.desc, a.avail, a.used} : ~ Translates(x)
        /\ Refused
     \/ /\ mappings # {} /\ \A x \in {a.desc, a.avail, a.used} : Translates(x)
        /\ LET d == vmm_va_to_gpa(a.desc)
               v == vmm_va_to_gpa(a.avail)
               u == vmm_va_to_gpa(a.used)
               okd == d % 16 = 0
               okv == okd /\ v % 2 = 0
               oku == okv /\ u % 4 = 0
               oki == oku /\ InMemory(u + 2) /\ InMemory(u + 3)
           IN /\ addr' = [addr EXCEPT ![r] =
                            [desc |-> IF okd THEN d ELSE @.desc,
                             avail |-> IF okv THEN v ELSE @.avail,
                             used |-> IF oku THEN u ELSE @.used,
                             next_used |-> IF oki THEN u ELSE @.next_used]]
              /\ reply' = IF oki THEN "Ok" ELSE "Err"
        /\ UNCHANGED <<memVars, devVars, ready, kick, logVars, snap, conn>>

-----------------------------------------------------------------------------
(* Rings and the device. *)

\* Activate: the socket is taken, and without one the device has no threads.
Activate ==
  /\ gpu_socket' = FALSE /\ snap' = mem
  /\ dev' = IF gpu_socket THEN "running" ELSE "failed"
  /\ reply' = IF gpu_socket THEN "Ok" ELSE "Err"

M_InitializeVring(r) ==
  LET starts == ~ ready[r] /\ kick'[r] IN
    /\ ready' = IF starts THEN [ready EXCEPT ![r] = TRUE] ELSE ready
    /\ early' = IF starts /\ ~ memory_updated THEN early \cup {r} ELSE early
    /\ device_activated' = (device_activated \/ starts)
    /\ \/ starts /\ ~ device_activated /\ memory_updated /\ Activate
       \/ /\ ~ (starts /\ ~ device_activated /\ memory_updated)
          /\ reply' = "Ok" /\ UNCHANGED <<gpu_socket, dev, snap>>

\* initialize_vring, with the kick just set.  The device is activated when a
\* ring starts, once, and only if a memory table came before.
InitializeVring(r) ==
  LET starts == ~ ready[r] /\ kick'[r]
      activates == starts /\ ~ device_activated /\ memory_updated
  IN /\ ready' = IF starts THEN [ready EXCEPT ![r] = TRUE] ELSE ready
     /\ early' = IF starts /\ ~ memory_updated THEN early \cup {r} ELSE early
     /\ device_activated' = (device_activated \/ activates)
     /\ \/ activates /\ Activate
        \/ ~ activates /\ reply' = "Ok" /\ UNCHANGED <<gpu_socket, dev, snap>>

\* What replacing the kick of a started ring does to the epolls is in Vring.
SetVringKick(r, b) ==
  /\ conn = "up"
  /\ kick' = [kick EXCEPT ![r] = b]
  /\ InitializeVring(r)
  /\ UNCHANGED <<memVars, memory_updated, addr, logVars, conn>>

SetVringCall(r) ==
  /\ conn = "up"
  /\ kick' = kick
  /\ InitializeVring(r)
  /\ UNCHANGED <<memVars, memory_updated, addr, logVars, conn>>

GetVringBase(r) ==
  /\ conn = "up"
  /\ ready' = [ready EXCEPT ![r] = FALSE] /\ kick' = [kick EXCEPT ![r] = FALSE]
  /\ early' = early \ {r} /\ reply' = "Ok"
  /\ UNCHANGED <<memVars, memory_updated, device_activated, gpu_socket, dev,
                 addr, logVars, snap, conn>>

SetGpuSocket ==
  /\ conn = "up" /\ gpu_socket' = TRUE /\ reply' = "Ok"
  /\ UNCHANGED <<memVars, memory_updated, device_activated, dev, early,
                 ringVars, logVars, snap, conn>>

\* stop joins the threads, which finish what they are doing.
StopDevice == pending = {} /\ dev' = IF dev = "running" THEN "stopped" ELSE dev

\* The rings keep their kicks, and the device stays activated.
ResetDevice ==
  /\ conn = "up"
  /\ ready' = [r \in Rings |-> FALSE]
  /\ StopDevice /\ early' = {} /\ reply' = "Ok"
  /\ UNCHANGED <<memVars, memory_updated, device_activated, gpu_socket, kick,
                 addr, logVars, snap, conn>>

\* handle_request fails, start_daemon's thread has ended, serve
\* returns, and the handler is dropped.
Disconnect ==
  /\ conn = "up" /\ conn' = "down"
  /\ StopDevice
  /\ UNCHANGED <<memVars, memory_updated, device_activated, gpu_socket, early,
                 ringVars, logVars, snap, reply>>

-----------------------------------------------------------------------------
(* The log of dirty pages. *)

\* AtomicBitmapMmap::new: the log has a word for the last page of the region.
Fits(g, len) == page_word(page_number(LastAddr(g))) < len

Touched(g, w) == page_number(g.gpa + w.off) .. page_number(g.gpa + w.off + w.len - 1)
InFlight(p) == \E x \in pending : p \in Touched(x[1], x[2])

\* A bitmap can be made for every region.
BitmapsFit(len) == len > 0 /\ \A g \in mem : Loggable /\ Fits(g, len)

\* What was written before the log came and is marked later may be in it.
NewLog(len) ==
  /\ logs' = logs + 1 /\ log' = len /\ dirty' = {} /\ base' = mem
  /\ written' = [p \in Pages |-> IF InFlight(p) THEN "maybe" ELSE "no"]

M_SetLogBase(len) ==
  /\ conn = "up" /\ logs < MaxLogs
  /\ reply' = IF BitmapsFit(len) THEN "Ok" ELSE "Err"
  /\ NewLog(len) /\ todo' = {} /\ logged' = {g \in mem : Fits(g, len)}
  /\ UNCHANGED <<memVars, devVars, ringVars, pending, snap, conn>>

\* set_log_base makes a bitmap for every region first.  The log that the
\* front-end sends is empty.
SetLogBase(len) ==
  /\ conn = "up" /\ logs < MaxLogs
  /\ \/ ~ BitmapsFit(len) /\ Refused
     \/ /\ BitmapsFit(len) /\ NewLog(len) /\ logged' = {}
        /\ todo' = mem /\ conn' = IF mem = {} THEN "up" ELSE "replacing"
        /\ reply' = "Ok"
        /\ UNCHANGED <<memVars, devVars, ringVars, pending, snap>>

\* BitmapMmapRegion::replace, then the next region or the reply.
ReplaceBitmap(g) ==
  /\ conn = "replacing" /\ g \in todo /\ \A h \in todo : g.gpa <= h.gpa
  /\ todo' = todo \ {g} /\ logged' = logged \cup {g}
  /\ conn' = IF todo' = {} THEN "up" ELSE "replacing"
  /\ UNCHANGED <<memVars, devVars, ringVars, log, dirty, logs, base,
                 written, pending, snap, reply>>

\* AtomicBitmapMmap::mark_dirty, for the pages that the region has in full.
M_MarkedPages(g, w) ==
  {page_number(g.gpa) + p : p \in {q \in page_number(w.off) .. page_number(w.off + w.len) :
                                     q < page_number(g.size)}}
MarkedPages(g, w) ==
  {page_number(g.gpa) + p : p \in {q \in page_number(w.off) .. page_number(w.off + w.len - 1) :
                                     q < page_number(g.size)}}

\* A device thread writes to the guest through the regions it has loaded.  A read
\* from a file that fails writes nothing, and its whole buffer is marked all the same.
DeviceWrites(g, w) ==
  /\ dev = "running" /\ Cardinality(pending) < MaxWriters
  /\ g \in snap /\ w.off + w.len <= g.size /\ <<g, w>> \notin pending
  /\ pending' = pending \cup {<<g, w>>}
  /\ \E is \in (IF g \in base /\ conn # "replacing" THEN {"due", "maybe"} ELSE {"maybe"}) :
       written' = [p \in Pages |-> IF p \in Touched(g, w) /\ written[p] # "due" THEN is
                                   ELSE written[p]]
  /\ UNCHANGED <<memVars, devVars, ringVars, log, logged, todo, dirty, logs, base,
                 snap, conn, reply>>

\* BitmapMmapRegion::mark_dirty, with the bitmap the region has by then.
MarkDirty(g, w) ==
  /\ <<g, w>> \in pending /\ pending' = pending \ {<<g, w>>}
  /\ dirty' = dirty \cup {<<page_word(p), page_bit(p)>> :
                             p \in IF g \in logged THEN MarkedPages(g, w) ELSE {}}
  /\ UNCHANGED <<memVars, devVars, ringVars, log, logged, todo, logs, base, written,
                 snap, conn, reply>>

\* mem.memory(), at the start of a batch.
LoadMemory ==
  /\ dev = "running" /\ snap # mem /\ snap' = mem
  /\ UNCHANGED <<memVars, devVars, ringVars, logVars, conn, reply>>

Request ==
  \/ (\E t \in Tables : SetMemTable(t))
  \/ (\E g \in Regions : AddMemRegion(g) \/ RemoveMemRegion(g))
  \/ (\E r \in Rings, a \in RingAddrs : SetVringAddr(r, a))
  \/ (\E r \in Rings, b \in BOOLEAN : SetVringKick(r, b))
  \/ (\E r \in Rings : SetVringCall(r) \/ GetVringBase(r))
  \/ SetGpuSocket \/ ResetDevice \/ Disconnect
  \/ (\E n \in LogLens : SetLogBase(n)) \/ (\E g \in todo : ReplaceBitmap(g))

Device ==
  \/ (\E g \in snap, w \in Writes : DeviceWrites(g, w))
  \/ (\E x \in pending : MarkDirty(x[1], x[2]))
  \/ LoadMemory

Next == Request \/ Device

Spec == Init /\ [][Next]_vars

-----------------------------------------------------------------------------
(* Properties. *)

\* The table that translates ring addresses has exactly the regions that are
\* mapped, after every order of tables, additions and removals
\* (set_mem_table, add_mem_region, remove_mem_region keep two copies).
MappingsMatchMemory == mappings = mem

\* An address that a ring is given lies in the memory that is mapped then, also
\* when set_queue_info stops half way (set_vring_addr, vmm_va_to_gpa).
AddrInMemory ==
  [][\A r \in Rings, f \in {"desc", "avail", "used"} :
       addr'[r][f] # addr[r][f] => InMemory(addr'[r][f])]_vars

\* A ring that starts after the memory table came finds that activate has been
\* called: an earlier ring does not use the activation up (initialize_vring).
\* activate may have failed, and is not called again, or the device may have been
\* stopped since.
ActivationNotSkipped == \A r \in Rings : ready[r] /\ r \notin early => dev # "none"

Marked(p) == <<page_word(p), page_bit(p)>> \in dirty

\* The last page of a region that does not end with it: number_of_pages has no
\* room for it.
Partial(p) ==
  \E g \in base : /\ p = page_number(LastAddr(g))
                  /\ (LastAddr(g) + 1) % LOG_PAGE_SIZE # 0

\* The regions of the log start at a page, which no code checks.
Aligned == \A g \in base : g.gpa % LOG_PAGE_SIZE = 0

\* Every page that was written through a region of the log after SET_LOG_BASE was
\* answered is in the log once mark_dirty is through, apart from a partial last page;
\* a page that the device neither wrote nor tried to write is not; both if the regions
\* of the log start at a page.  No bit is beyond the end of the log, wherever they
\* start (AtomicBitmapMmap::new, mark_dirty, Index::index).
DirtyTracked ==
  /\ Aligned =>
       \A p \in Pages : /\ written[p] = "due" /\ ~ Partial(p) /\ ~ InFlight(p) => Marked(p)
                        /\ Marked(p) => written[p] # "no"
  /\ \A b \in dirty : b[1] < log

\* The inductive invariant behind it.  The regions of the log are those whose bitmap is
\* in it and those still to be replaced, of which there are none once SET_LOG_BASE is
\* answered, and each has its last page in the log.  A page that is being written has
\* been noted, and is due only if it lies in a region whose bitmap is in the log.
IsRegion(g) == g.gpa \in Nat /\ g.size \in Nat \ {0}
IsWrite(x) ==
  /\ x = <<x[1], x[2]>> /\ x[2] \in Writes
  /\ IsRegion(x[1]) /\ x[2].off + x[2].len <= x[1].size

Covers(x, p) ==    \* the mark that is still to come will set the bit of p
  p \in Touched(x[1], x[2]) /\ x[1] \in logged

DueMarked ==
  \A p \in Pages : written[p] = "due" /\ ~ Partial(p) => Marked(p) \/ \E x \in pending : Covers(x, p)
MarkedNoted ==
  \A p \in Pages : Marked(p) \/ InFlight(p) => written[p] # "no"

LogInv ==
  /\ \A g \in mem \cup snap \cup base : IsRegion(g)
  /\ \A x \in pending : IsWrite(x)
  /\ log \in Nat
  /\ logged \cup todo = base
  /\ conn # "replacing" => todo = {}
  /\ \A g \in base : Fits(g, log)
  /\ written \in [Pages -> {"no", "maybe", "due"}]
  /\ Aligned => DueMarked /\ MarkedNoted
  /\ \A b \in dirty : b[1] < log

\* A request that is answered with an error leaves the memory, its mappings,
\* and the log as they were, whichever of its parts failed ("create all bitmaps
\* first before replacing them, in case any of them fails", set_log_base).
RefusedIsAtomic ==
  [][reply' = "Err" => UNCHANGED <<mem, mappings, log, logged>>]_vars
=============================================================================
