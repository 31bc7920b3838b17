---------------------------- MODULE HandlerProofs ----------------------------
(***************************************************************************)
(* Proofs about Handler for any regions, tables, ring addresses and logs.  *)
(***************************************************************************)
EXTENDS Handler, Integers, WellFoundedInduction, TLAPS

-----------------------------------------------------------------------------
(* The memory and its mappings. *)

Mapped == [gpa : Nat, size : Nat \ {0}, va : Nat, gen : Nat]

\* No two mapped regions overlap: the address tells a region from the others.
Apart == \A g, h \in mem : g # h => ~ Overlap(g, h)

MemInv == mem \subseteq Mapped /\ maps \in Nat /\ Apart /\ MappingsMatchMemory

\* A region that is mapped keeps its address and its size.
LEMMA MapFacts ==
  ASSUME NEW g \in Region, NEW n \in Nat
  PROVE  /\ Map(g, n) \in Mapped /\ Map(g, n).gpa = g.gpa
         /\ LastAddr(Map(g, n)) = LastAddr(g)
BY DEF Map, Mapped, Region, LastAddr

\* Two regions of which one ends before the other starts do not overlap.
LEMMA BeforeIsApart ==
  ASSUME NEW g \in Mapped, NEW h \in Mapped, LastAddr(g) < h.gpa
  PROVE  ~ Overlap(g, h) /\ ~ Overlap(h, g)
BY DEF Mapped, Overlap, LastAddr

\* Regions with the same guest address overlap.
LEMMA SameAddressOverlaps ==
  ASSUME NEW g \in Mapped, NEW h \in Mapped, g.gpa = h.gpa
  PROVE  Overlap(g, h)
BY DEF Mapped, Overlap, LastAddr

\* A table that from_regions takes is apart.
LEMMA TableApart ==
  ASSUME NEW t \in Tables, SortedAndApart(t), NEW n \in Nat,
         NEW g \in {Map(t[i], n) : i \in 1 .. Len(t)},
         NEW h \in {Map(t[i], n) : i \in 1 .. Len(t)}, g # h
  PROVE  g \in Mapped /\ h \in Mapped /\ ~ Overlap(g, h)
<1>1. t \in Seq(Regions) /\ Regions \subseteq Region
  BY ConstantsAssumption
<1>2. PICK i \in 1 .. Len(t) : g = Map(t[i], n)
  OBVIOUS
<1>3. PICK j \in 1 .. Len(t) : h = Map(t[j], n)
  OBVIOUS
<1>4. t[i] \in Region /\ t[j] \in Region /\ i # j /\ i \in Int /\ j \in Int
  BY <1>1, <1>2, <1>3
<1>5. i < j \/ j < i
  BY <1>4
<1>6. LastAddr(t[i]) < t[j].gpa \/ LastAddr(t[j]) < t[i].gpa
  BY <1>5 DEF SortedAndApart
<1>7. g \in Mapped /\ h \in Mapped
  BY <1>2, <1>3, <1>4, MapFacts
<1>8. LastAddr(g) < h.gpa \/ LastAddr(h) < g.gpa
  BY <1>2, <1>3, <1>4, <1>6, MapFacts
<1>9. QED  BY <1>7, <1>8, BeforeIsApart

LEMMA SetMemTableKeeps ==
  ASSUME MemInv, NEW t \in Tables, SetMemTable(t)
  PROVE  MemInv'
<1>1. CASE Refused
  BY <1>1 DEF Refused, memVars, MemInv, Apart, MappingsMatchMemory
<1>2. CASE /\ SortedAndApart(t) /\ maps' = maps + 1
           /\ mem' = {Map(t[i], maps + 1) : i \in 1 .. Len(t)}
           /\ mappings' = {Map(t[i], maps + 1) : i \in 1 .. Len(t)}
  <2>1. maps + 1 \in Nat
    BY DEF MemInv
  <2>2. \A i \in 1 .. Len(t) : t[i] \in Region
    BY ConstantsAssumption
  <2>3. mem' \subseteq Mapped
    BY <1>2, <2>1, <2>2, MapFacts
  <2>4. Apart'
    BY <1>2, <2>1, TableApart DEF Apart, Overlap, LastAddr
  <2>5. QED  BY <1>2, <2>1, <2>3, <2>4 DEF MemInv, MappingsMatchMemory
<1>3. QED  BY <1>1, <1>2 DEF SetMemTable

LEMMA AddMemRegionKeeps ==
  ASSUME MemInv, NEW g \in Regions, AddMemRegion(g)
  PROVE  MemInv'
<1>1. CASE Refused
  BY <1>1 DEF Refused, memVars, MemInv, Apart, MappingsMatchMemory
<1>2. CASE /\ \A h \in mem : ~ Overlap(g, h)
           /\ mem' = mem \cup {Map(g, maps + 1)} /\ maps' = maps + 1
           /\ mappings' = mappings \cup {Map(g, maps + 1)}
  <2> DEFINE m == Map(g, maps + 1)
  <2>1. maps + 1 \in Nat /\ g \in Region /\ mem \subseteq Mapped /\ mappings = mem
    BY ConstantsAssumption DEF MemInv, MappingsMatchMemory
  <2>2. m \in Mapped /\ m.gpa = g.gpa /\ LastAddr(m) = LastAddr(g)
    BY <2>1, MapFacts
  <2> HIDE DEF m
  <2>3. \A h \in mem : ~ Overlap(m, h) /\ ~ Overlap(h, m)
    BY <1>2, <2>2 DEF Overlap
  <2>4. mem' = mem \cup {m} /\ mappings' = mappings \cup {m}
    BY <1>2 DEF m
  <2>5. \A x, y \in mem' : x # y => ~ Overlap(x, y)
    BY <2>3, <2>4 DEF MemInv, Apart
  <2>6. QED
    BY <1>2, <2>1, <2>2, <2>4, <2>5 DEF MemInv, Apart, MappingsMatchMemory, Overlap, LastAddr
<1>3. QED  BY <1>1, <1>2 DEF AddMemRegion

\* retain, which looks at the address alone, removes the region and no other.
LEMMA RemoveMemRegionKeeps ==
  ASSUME MemInv, NEW g \in Regions, RemoveMemRegion(g)
  PROVE  MemInv'
<1> DEFINE gone == {h \in mem : h.gpa = g.gpa /\ h.size = g.size}
<1>1. CASE Refused
  BY <1>1 DEF Refused, memVars, MemInv, Apart, MappingsMatchMemory
<1>2. CASE gone # {} /\ mem' = mem \ gone /\ mappings' = Retain(g) /\ maps' = maps + 1
  <2>1. PICK x \in gone : TRUE
    BY <1>2
  <2>2. mem \subseteq Mapped /\ mappings = mem /\ Apart
    BY DEF MemInv, MappingsMatchMemory
  <2>3. \A h \in mem : h.gpa = g.gpa => h = x
    BY <2>1, <2>2, SameAddressOverlaps DEF Apart
  <2>4. \A h \in mem : h \in gone <=> h.gpa = g.gpa
    BY <2>1, <2>3
  <2>5. mem' = mappings'
    BY <1>2, <2>2, <2>4 DEF Retain
  <2>6. mem' \subseteq mem
    BY <1>2
  <2>7. \A a, b \in mem' : a # b => ~ Overlap(a, b)
    BY <2>2, <2>6 DEF Apart
  <2>8. maps' \in Nat
    BY <1>2 DEF MemInv
  <2>9. QED
    BY <2>2, <2>5, <2>6, <2>7, <2>8 DEF MemInv, Apart, MappingsMatchMemory, Overlap, LastAddr
<1>3. QED  BY <1>1, <1>2 DEF RemoveMemRegion

\* Every other step leaves the memory alone.
LEMMA MemInvNext == MemInv /\ [Next]_vars => MemInv'
<1> SUFFICES ASSUME MemInv, [Next]_vars  PROVE MemInv'
  OBVIOUS
<1>1. CASE \E t \in Tables : SetMemTable(t)
  BY <1>1, SetMemTableKeeps
<1>2. CASE \E g \in Regions : AddMemRegion(g) \/ RemoveMemRegion(g)
  BY <1>2, AddMemRegionKeeps, RemoveMemRegionKeeps
<1>3. CASE UNCHANGED memVars
  BY <1>3 DEF memVars, MemInv, Apart, MappingsMatchMemory
<1>4. ASSUME NEW r \in Rings, NEW a \in RingAddrs, SetVringAddr(r, a)
      PROVE  UNCHANGED memVars
  BY <1>4 DEF SetVringAddr, Refused, memVars
<1>5. ASSUME NEW r \in Rings,
             (\E b \in BOOLEAN : SetVringKick(r, b)) \/ SetVringCall(r) \/ GetVringBase(r)
      PROVE  UNCHANGED memVars
  BY <1>5 DEF SetVringKick, SetVringCall, GetVringBase, memVars
<1>6. CASE SetGpuSocket \/ ResetDevice \/ Disconnect \/ UNCHANGED vars
  BY <1>3, <1>6 DEF SetGpuSocket, ResetDevice, Disconnect, vars, memVars
<1>7. ASSUME NEW n \in LogLens, SetLogBase(n)  PROVE UNCHANGED memVars
  BY <1>7 DEF SetLogBase, NewLog, Refused, memVars
<1>8. CASE \E g \in todo : ReplaceBitmap(g)
  BY <1>3, <1>8 DEF ReplaceBitmap, memVars
<1>9. CASE Device
  BY <1>3, <1>9 DEF Device, DeviceWrites, MarkDirty, LoadMemory, memVars
<1>10. QED
  BY <1>1, <1>2, <1>3, <1>4, <1>5, <1>6, <1>7, <1>8, <1>9 DEF Next, Request

LEMMA MemInvInit == Init => MemInv
BY DEF Init, MemInv, Apart, MappingsMatchMemory

LEMMA MemInvariant == Spec => []MemInv
<1>1. QED  BY MemInvInit, MemInvNext, PTL DEF Spec

\* The mappings are the mapped regions, in every order of tables, additions and
\* removals, whatever the regions.
THEOREM MappingsCorrect == Spec => []MappingsMatchMemory
<1>1. MemInv => MappingsMatchMemory
  BY DEF MemInv
<1>2. QED  BY <1>1, MemInvariant, PTL

-----------------------------------------------------------------------------
(* The addresses of the rings. *)

\* A set of numbers has a smallest one.
LEMMA LeastNumber ==
  ASSUME NEW S, S \subseteq Nat, S # {}
  PROVE  \E x \in S : \A y \in S : x <= y
<1> DEFINE R == {ss \in Nat \X Nat : ss[1] < ss[2]}
<1>1. IsWellFoundedOn(R, Nat)
  BY NatLessThanWellFounded, Zenon DEF OpToRel
<1>2. PICK x \in S : \A y \in S : ~ (<<y, x>> \in R)
  <2> HIDE DEF R
  <2>1. QED  BY <1>1, WFMin, Zenon
<1>3. \A y \in S : ~ (y < x)
  BY <1>2
<1>4. QED  BY <1>3

\* vmm_va_to_gpa finds a mapping that has the address: some mapping that has it
\* comes before the others in the Vec.
LEMMA FirstCovering ==
  ASSUME MemInv, NEW va \in Nat, Translates(va)
  PROVE  \E m \in Covering(va) : \A n \in Covering(va) : Before(m, n)
<1> DEFINE C == Covering(va)
<1>1. C \subseteq Mapped /\ C # {}
  BY DEF MemInv, MappingsMatchMemory, Covering, Translates
<1> HIDE DEF C
<1> DEFINE Gens == {m.gen : m \in C}
<1>2. Gens \subseteq Nat /\ Gens # {}
  BY <1>1 DEF Mapped
<1>3. PICK g \in Gens : \A y \in Gens : g <= y
  BY <1>2, LeastNumber
<1> DEFINE First == {m \in C : m.gen = g}
           Gpas == {m.gpa : m \in First}
<1>4. Gpas \subseteq Nat /\ Gpas # {}
  BY <1>1 DEF Mapped
<1>5. PICK a \in Gpas : \A y \in Gpas : a <= y
  BY <1>4, LeastNumber
<1>6. PICK m \in First : m.gpa = a
  OBVIOUS
<1>7. ASSUME NEW n \in C  PROVE Before(m, n)
  <2>1. n.gen \in Nat /\ g \in Nat /\ g <= n.gen /\ m.gen = g
    BY <1>1, <1>3, <1>6 DEF Mapped
  <2>2. CASE n.gen = g
    BY <1>5, <1>6, <2>2 DEF Before
  <2>3. CASE n.gen # g
    BY <2>1, <2>3 DEF Before
  <2>4. QED  BY <2>2, <2>3
<1>8. QED  BY <1>6, <1>7 DEF C

\* What it answers lies in the mapped memory.
LEMMA TranslationInMemory ==
  ASSUME MemInv, NEW va \in Nat, Translates(va)
  PROVE  vmm_va_to_gpa(va) \in Nat /\ InMemory(vmm_va_to_gpa(va))
<1> DEFINE m == CHOOSE m \in Covering(va) : \A n \in Covering(va) : Before(m, n)
<1>1. m \in Covering(va)
  BY FirstCovering
<1>2. vmm_va_to_gpa(va) = va - m.va + m.gpa
  BY DEF vmm_va_to_gpa
<1> HIDE DEF m
<1>3. m \in mem /\ m \in Mapped /\ va >= m.va /\ va < m.va + m.size
  BY <1>1 DEF Covering, MemInv, MappingsMatchMemory
<1>4. /\ va - m.va + m.gpa \in Nat /\ va - m.va + m.gpa >= m.gpa
      /\ va - m.va + m.gpa <= LastAddr(m)
  BY <1>3 DEF Mapped, LastAddr
<1>5. QED  BY <1>2, <1>3, <1>4 DEF InMemory

RingAddr == [desc : Nat, avail : Nat, used : Nat, next_used : Nat]
AddrTyped == addr \in [Rings -> RingAddr]

LEMMA SetVringAddrStep ==
  ASSUME MemInv, AddrTyped, NEW r \in Rings, NEW a \in RingAddrs, SetVringAddr(r, a)
  PROVE  /\ AddrTyped'
         /\ \A q \in Rings, f \in {"desc", "avail", "used"} :
              addr'[q][f] # addr[q][f] => InMemory(addr'[q][f])
<1>1. CASE Refused
  BY <1>1 DEF Refused, ringVars, AddrTyped
<1>2. CASE ~ Refused
  <2> DEFINE d == vmm_va_to_gpa(a.desc)
             v == vmm_va_to_gpa(a.avail)
             u == vmm_va_to_gpa(a.used)
  <2>1. \A x \in {a.desc, a.avail, a.used} : Translates(x)
    BY <1>2 DEF SetVringAddr
  <2>2. a.desc \in Nat /\ a.avail \in Nat /\ a.used \in Nat
    BY ConstantsAssumption
  <2>3. /\ d \in Nat /\ InMemory(d) /\ v \in Nat /\ InMemory(v)
        /\ u \in Nat /\ InMemory(u)
    BY <2>1, <2>2, TranslationInMemory
  <2>4. PICK okd \in BOOLEAN, okv \in BOOLEAN, oku \in BOOLEAN, oki \in BOOLEAN :
          addr' = [addr EXCEPT ![r] = [desc |-> IF okd THEN d ELSE @.desc,
                                       avail |-> IF okv THEN v ELSE @.avail,
                                       used |-> IF oku THEN u ELSE @.used,
                                       next_used |-> IF oki THEN u ELSE @.next_used]]
    BY <1>2 DEF SetVringAddr
  <2> HIDE DEF d, v, u
  <2>5. addr[r] \in RingAddr
    BY DEF AddrTyped
  <2>6. /\ DOMAIN addr' = Rings /\ \A q \in Rings : q # r => addr'[q] = addr[q]
        /\ addr'[r] = [desc |-> IF okd THEN d ELSE addr[r].desc,
                       avail |-> IF okv THEN v ELSE addr[r].avail,
                       used |-> IF oku THEN u ELSE addr[r].used,
                       next_used |-> IF oki THEN u ELSE addr[r].next_used]
    BY <2>4 DEF AddrTyped
  <2>7. addr'[r] \in RingAddr
    BY <2>3, <2>5, <2>6 DEF RingAddr
  <2>8. AddrTyped'
    BY <2>4, <2>6, <2>7 DEF AddrTyped
  <2>9. /\ addr'[r].desc # addr[r].desc => InMemory(addr'[r].desc)
        /\ addr'[r].avail # addr[r].avail => InMemory(addr'[r].avail)
        /\ addr'[r].used # addr[r].used => InMemory(addr'[r].used)
    BY <2>3, <2>6
  <2>10. QED  BY <2>6, <2>8, <2>9
<1>3. QED  BY <1>1, <1>2

\* No other request changes the addresses of a ring.
LEMMA AddrFrame ==
  ASSUME [Next]_vars
  PROVE  \/ \E r \in Rings, a \in RingAddrs : SetVringAddr(r, a)
         \/ UNCHANGED addr
<1>1. CASE \E t \in Tables : SetMemTable(t)
  BY <1>1 DEF SetMemTable, Refused, ringVars
<1>2. CASE \E g \in Regions : AddMemRegion(g) \/ RemoveMemRegion(g)
  BY <1>2 DEF AddMemRegion, RemoveMemRegion, Refused, ringVars
<1>3. CASE \E r \in Rings : (\E b \in BOOLEAN : SetVringKick(r, b)) \/ SetVringCall(r)
                             \/ GetVringBase(r)
  BY <1>3 DEF SetVringKick, SetVringCall, GetVringBase
<1>4. CASE SetGpuSocket \/ ResetDevice \/ Disconnect \/ UNCHANGED vars
  BY <1>4 DEF SetGpuSocket, ResetDevice, Disconnect, vars, ringVars
<1>5. CASE (\E n \in LogLens : SetLogBase(n)) \/ (\E g \in todo : ReplaceBitmap(g))
  BY <1>5 DEF SetLogBase, NewLog, ReplaceBitmap, Refused, ringVars
<1>6. CASE Device
  BY <1>6 DEF Device, DeviceWrites, MarkDirty, LoadMemory, ringVars
<1>7. QED  BY <1>1, <1>2, <1>3, <1>4, <1>5, <1>6 DEF Next, Request

LEMMA AddrStep ==
  ASSUME MemInv, AddrTyped, [Next]_vars
  PROVE  /\ AddrTyped'
         /\ \A q \in Rings, f \in {"desc", "avail", "used"} :
              addr'[q][f] # addr[q][f] => InMemory(addr'[q][f])
<1>1. CASE \E r \in Rings, a \in RingAddrs : SetVringAddr(r, a)
  BY <1>1, SetVringAddrStep
<1>2. CASE UNCHANGED addr
  BY <1>2 DEF AddrTyped
<1>3. QED  BY <1>1, <1>2, AddrFrame

\* set_vring_addr gives a ring only addresses of the mapped memory, also when
\* set_queue_info stops half way, for any regions, overlapping in the front-end's
\* address space or not.
THEOREM AddressesCorrect == Spec => AddrInMemory
<1>1. Init => MemInv /\ AddrTyped
  BY MemInvInit DEF Init, AddrTyped, RingAddr, NoAddr
<1>2. (MemInv /\ AddrTyped) /\ [Next]_vars => (MemInv /\ AddrTyped)'
  BY MemInvNext, AddrStep
<1>3. (MemInv /\ AddrTyped) /\ [Next]_vars
        => [\A r \in Rings, f \in {"desc", "avail", "used"} :
              addr'[r][f] # addr[r][f] => InMemory(addr'[r][f])]_vars
  BY AddrStep
<1>4. QED  BY <1>1, <1>2, <1>3, PTL DEF Spec, AddrInMemory

-----------------------------------------------------------------------------
(* The start of the rings and of the device. *)

ActivationInv ==
  /\ device_activated \in BOOLEAN /\ ready \in [Rings -> BOOLEAN]
  /\ device_activated => dev # "none"
  /\ \A r \in Rings : ready[r] /\ r \notin early => device_activated

\* initialize_vring: a ring that starts after the memory table finds the device
\* activated, or activates it.
LEMMA InitializeVringKeeps ==
  ASSUME ActivationInv, NEW r \in Rings, InitializeVring(r)
  PROVE  ActivationInv'
<1> DEFINE starts == ~ ready[r] /\ kick'[r]
           activates == starts /\ ~ device_activated /\ memory_updated
<1>1. /\ ready' = IF starts THEN [ready EXCEPT ![r] = TRUE] ELSE ready
      /\ early' = IF starts /\ ~ memory_updated THEN early \cup {r} ELSE early
      /\ device_activated' = (device_activated \/ activates)
      /\ (activates /\ Activate) \/ (~ activates /\ UNCHANGED dev)
  BY DEF InitializeVring
<1>2. activates => dev' # "none"
  BY <1>1 DEF Activate
<1>3. device_activated' \in BOOLEAN /\ (device_activated' => dev' # "none")
  BY <1>1, <1>2 DEF ActivationInv
<1>4. ready' \in [Rings -> BOOLEAN]
  BY <1>1 DEF ActivationInv
<1>5. ASSUME NEW q \in Rings, ready'[q], q \notin early'  PROVE device_activated'
  <2>1. CASE ready[q] /\ q \notin early
    BY <1>1, <2>1 DEF ActivationInv
  <2>2. CASE ~ (ready[q] /\ q \notin early)
    <3>1. q \notin early
      BY <1>1, <1>5
    <3>2. starts /\ q = r
      BY <1>1, <1>5, <2>2, <3>1 DEF ActivationInv
    <3>3. memory_updated
      BY <1>1, <1>5, <3>2
    <3>4. QED  BY <1>1, <3>2, <3>3
  <2>3. QED  BY <2>1, <2>2
<1>6. QED  BY <1>3, <1>4, <1>5 DEF ActivationInv

LEMMA ActivationNext == ActivationInv /\ [Next]_vars => ActivationInv'
<1> SUFFICES ASSUME ActivationInv, [Next]_vars  PROVE ActivationInv'
  OBVIOUS
<1>1. CASE UNCHANGED <<device_activated, dev, ready, early>>
  BY <1>1 DEF ActivationInv
<1>2. CASE \E t \in Tables : SetMemTable(t)
  BY <1>1, <1>2 DEF SetMemTable, Refused, ringVars, devVars
<1>3. CASE \E g \in Regions : AddMemRegion(g) \/ RemoveMemRegion(g)
  BY <1>1, <1>3 DEF AddMemRegion, RemoveMemRegion, Refused, ringVars, devVars
<1>4. CASE \E r \in Rings, a \in RingAddrs : SetVringAddr(r, a)
  BY <1>1, <1>4 DEF SetVringAddr, Refused, ringVars, devVars
<1>5. CASE \E r \in Rings : (\E b \in BOOLEAN : SetVringKick(r, b)) \/ SetVringCall(r)
  BY <1>5, InitializeVringKeeps DEF SetVringKick, SetVringCall
<1>6. ASSUME NEW r \in Rings, GetVringBase(r)  PROVE ActivationInv'
  <2>1. /\ UNCHANGED <<device_activated, dev>> /\ early' = early \ {r}
        /\ ready' = [ready EXCEPT ![r] = FALSE]
    BY <1>6 DEF GetVringBase
  <2>2. QED  BY <2>1 DEF ActivationInv
<1>7. ASSUME ResetDevice \/ Disconnect  PROVE ActivationInv'
  <2>1. UNCHANGED device_activated /\ (dev # "none" => dev' # "none")
    BY <1>7 DEF ResetDevice, Disconnect, StopDevice
  <2>2. CASE ready' = [r \in Rings |-> FALSE]
    BY <2>1, <2>2 DEF ActivationInv
  <2>3. CASE UNCHANGED <<ready, early>>
    BY <2>1, <2>3 DEF ActivationInv
  <2>4. QED  BY <1>7, <2>2, <2>3 DEF ResetDevice, Disconnect, ringVars
<1>8. CASE SetGpuSocket \/ UNCHANGED vars
  BY <1>1, <1>8 DEF SetGpuSocket, vars, ringVars, devVars
<1>9. CASE (\E n \in LogLens : SetLogBase(n)) \/ (\E g \in todo : ReplaceBitmap(g))
  BY <1>1, <1>9 DEF SetLogBase, NewLog, ReplaceBitmap, Refused, ringVars, devVars
<1>10. CASE Device
  BY <1>1, <1>10 DEF Device, DeviceWrites, MarkDirty, LoadMemory, ringVars, devVars
<1>11. QED
  BY <1>2, <1>3, <1>4, <1>5, <1>6, <1>7, <1>8, <1>9, <1>10 DEF Next, Request

\* Whatever the order of memory tables, kicks, resets and disconnections, a ring
\* that runs and did not start before the memory table found activate called, by
\* itself or by an earlier ring; the call may have failed.
THEOREM ActivationReached == Spec => []ActivationNotSkipped
<1>1. Init => ActivationInv
  BY DEF Init, ActivationInv
<1>2. ActivationInv => ActivationNotSkipped
  BY DEF ActivationInv, ActivationNotSkipped
<1>3. QED  BY <1>1, <1>2, ActivationNext, PTL DEF Spec

-----------------------------------------------------------------------------
(* Requests that are refused. *)

\* set_log_base has accepted the log when it replaces bitmaps.
ReplyInv == conn = "replacing" => reply = "Ok"

\* What every step does to the reply.
LEMMA ReplyStep ==
  ASSUME ReplyInv, [Next]_vars
  PROVE  /\ ReplyInv'
         /\ reply' = "Err" => UNCHANGED <<mem, mappings, log, logged>>
<1> USE DEF memVars, devVars, ringVars, logVars
<1>1. CASE Refused /\ conn = "up"
  BY <1>1 DEF Refused, ReplyInv
<1>2. CASE \E t \in Tables : SetMemTable(t)
  BY <1>1, <1>2 DEF SetMemTable, ReplyInv
<1>3. CASE \E g \in Regions : AddMemRegion(g) \/ RemoveMemRegion(g)
  BY <1>1, <1>3 DEF AddMemRegion, RemoveMemRegion, ReplyInv
<1>4. CASE \E r \in Rings, a \in RingAddrs : SetVringAddr(r, a)
  BY <1>1, <1>4 DEF SetVringAddr, ReplyInv
<1>5. CASE \E r \in Rings : (\E b \in BOOLEAN : SetVringKick(r, b)) \/ SetVringCall(r)
                             \/ GetVringBase(r)
  BY <1>5 DEF SetVringKick, SetVringCall, GetVringBase, ReplyInv
<1>6. CASE SetGpuSocket \/ ResetDevice \/ Disconnect \/ UNCHANGED vars
  BY <1>6 DEF SetGpuSocket, ResetDevice, Disconnect, vars, ReplyInv
<1>7. ASSUME NEW n \in LogLens, SetLogBase(n)
      PROVE  /\ ReplyInv'
             /\ reply' = "Err" => UNCHANGED <<mem, mappings, log, logged>>
  BY <1>1, <1>7 DEF SetLogBase, ReplyInv
<1>8. CASE \E g \in todo : ReplaceBitmap(g)
  BY <1>8 DEF ReplaceBitmap, ReplyInv
<1>9. CASE Device
  BY <1>9 DEF Device, DeviceWrites, MarkDirty, LoadMemory, ReplyInv
<1>10. QED
  BY <1>2, <1>3, <1>4, <1>5, <1>6, <1>7, <1>8, <1>9 DEF Next, Request

\* A refused request leaves the memory, its mappings and the log as they were;
\* set_log_base is refused before the first bitmap is replaced.
THEOREM RefusedAtomic == Spec => RefusedIsAtomic
<1>1. Init => ReplyInv
  BY DEF Init, ReplyInv
<1>2. ReplyInv /\ [Next]_vars => ReplyInv'
  BY ReplyStep
<1>3. ReplyInv /\ [Next]_vars
        => [reply' = "Err" => UNCHANGED <<mem, mappings, log, logged>>]_vars
  BY ReplyStep
<1>4. QED  BY <1>1, <1>2, <1>3, PTL DEF Spec, RefusedIsAtomic

-----------------------------------------------------------------------------
(* Division by the size of a page and by that of a word. *)

LEMMA DivMod ==
  ASSUME NEW a \in Nat, NEW n \in Nat \ {0}
  PROVE  /\ a \div n \in Nat /\ a % n \in 0 .. n - 1
         /\ a = n * (a \div n) + (a % n)
OBVIOUS

LEMMA Multiples ==
  ASSUME NEW n \in Nat \ {0}, NEW x \in Int, NEW y \in Int
  PROVE  /\ n * x \in Int /\ n * y \in Int
         /\ x < y => n * x + n <= n * y
OBVIOUS

LEMMA DivUnique ==
  ASSUME NEW n \in Nat \ {0}, NEW q \in Nat, NEW r \in 0 .. n - 1
  PROVE  (n * q + r) \div n = q /\ (n * q + r) % n = r
<1> DEFINE a == n * q + r
           s == a \div n
           t == a % n
<1>1. a \in Nat
  OBVIOUS
<1>2. s \in Nat /\ t \in 0 .. n - 1 /\ a = n * s + t
  BY <1>1, DivMod
<1>3. n * q + r = n * s + t /\ n * q \in Int /\ n * s \in Int
  BY <1>2, Multiples
<1> HIDE DEF a, s, t
<1>4. ~ q < s
  BY <1>2, <1>3, Multiples
<1>5. ~ s < q
  BY <1>2, <1>3, Multiples
<1>6. q = s
  BY <1>2, <1>4, <1>5
<1>7. r = t
  BY <1>2, <1>3, <1>6
<1>8. QED  BY <1>6, <1>7 DEF a, s, t

LEMMA DivMonotone ==
  ASSUME NEW n \in Nat \ {0}, NEW a \in Nat, NEW b \in Nat, a <= b
  PROVE  a \div n <= b \div n
<1> DEFINE s == a \div n
           t == b \div n
<1>1. /\ s \in Nat /\ a = n * s + (a % n) /\ a % n \in 0 .. n - 1
      /\ t \in Nat /\ b = n * t + (b % n) /\ b % n \in 0 .. n - 1
  BY DivMod
<1> HIDE DEF s, t
<1>2. ~ t < s
  BY <1>1, Multiples
<1>3. QED  BY <1>1, <1>2 DEF s, t

\* A number that starts at a multiple is divided from there.
LEMMA DivAligned ==
  ASSUME NEW n \in Nat \ {0}, NEW a \in Nat, NEW x \in Nat, a % n = 0
  PROVE  (a + x) \div n = (a \div n) + (x \div n) /\ (a + x) % n = x % n
<1> DEFINE s == a \div n
           t == x \div n
           r == x % n
<1>1. s \in Nat /\ t \in Nat /\ r \in 0 .. n - 1 /\ a = n * s /\ x = n * t + r
  BY DivMod
<1> HIDE DEF s, t, r
<1>2. n * (s + t) = n * s + n * t
  BY <1>1
<1>3. a + x = n * (s + t) + r /\ s + t \in Nat
  BY <1>1, <1>2, Multiples
<1>4. (n * (s + t) + r) \div n = s + t /\ (n * (s + t) + r) % n = r
  BY <1>1, <1>3, DivUnique
<1>5. QED  BY <1>3, <1>4 DEF s, t, r

\* What ends with a full page has no page of which only a part is there.
LEMMA DivLast ==
  ASSUME NEW n \in Nat \ {0}, NEW x \in Nat \ {0}, NEW q \in Nat,
         x \div n <= q, q <= (x - 1) \div n
  PROVE  x % n # 0 /\ q = (x - 1) \div n
<1>1. x - 1 \in Nat /\ (x - 1) \div n \in Nat /\ x \div n \in Nat
  BY DivMod
<1>2. (x - 1) \div n <= x \div n
  BY <1>1, DivMonotone
<1>3. q = (x - 1) \div n /\ q = x \div n
  BY <1>1, <1>2
<1>4. x % n # 0
  <2> SUFFICES ASSUME x % n = 0 PROVE FALSE
    OBVIOUS
  <2>1. x = n * q
    BY <1>3, DivMod
  <2>2. x - 1 = n * q + ((x - 1) % n) /\ (x - 1) % n \in Nat
    BY <1>1, <1>3, DivMod
  <2>3. QED  BY <2>1, <2>2
<1>5. QED  BY <1>3, <1>4

\* A page has a bit of its own.
LEMMA DivInjective ==
  ASSUME NEW n \in Nat \ {0}, NEW a \in Nat, NEW b \in Nat,
         a \div n = b \div n, a % n = b % n
  PROVE  a = b
BY DivMod

-----------------------------------------------------------------------------
(* The log of dirty pages. *)

\* In a region that starts at a page, mark_dirty marks the pages that a write touches
\* but for the partial last page of the region, which is past number_of_pages.
LEMMA WritePages ==
  ASSUME NEW g, IsRegion(g), g.gpa % LOG_PAGE_SIZE = 0, NEW w \in Writes,
         w.off + w.len <= g.size
  PROVE  /\ Touched(g, w) \subseteq Nat
         /\ MarkedPages(g, w) \subseteq Touched(g, w)
         /\ \A p \in Touched(g, w) : p <= page_number(LastAddr(g))
         /\ \A p \in Touched(g, w) :
              \/ p \in MarkedPages(g, w)
              \/ p = page_number(LastAddr(g)) /\ (LastAddr(g) + 1) % LOG_PAGE_SIZE # 0
<1> DEFINE n == LOG_PAGE_SIZE
           a == g.gpa \div n
           u == w.off \div n
           v == (w.off + w.len - 1) \div n
           z == (g.size - 1) \div n
           k == g.size \div n
<1>1. /\ n \in Nat \ {0} /\ w.off \in Nat /\ w.len \in Nat \ {0}
      /\ g.gpa \in Nat /\ g.size \in Nat \ {0} /\ g.gpa % n = 0
  BY ConstantsAssumption DEF IsRegion
<1>2. w.off + w.len - 1 \in Nat /\ g.size - 1 \in Nat /\ w.off + w.len - 1 <= g.size - 1
  BY <1>1
<1>3. a \in Nat /\ u \in Nat /\ v \in Nat /\ z \in Nat /\ k \in Nat
  BY <1>1, <1>2, DivMod
<1>4. v <= z
  BY <1>1, <1>2, DivMonotone
<1>5. (g.gpa + w.off) \div n = a + u
  BY <1>1, DivAligned
<1>6. (g.gpa + (w.off + w.len - 1)) \div n = a + v
  BY <1>1, <1>2, DivAligned
<1>7. (g.gpa + (g.size - 1)) \div n = a + z
  BY <1>1, <1>2, DivAligned
<1>8. (g.gpa + g.size) % n = g.size % n
  BY <1>1, DivAligned
<1>9. g.gpa + w.off + w.len - 1 = g.gpa + (w.off + w.len - 1)
      /\ LastAddr(g) = g.gpa + (g.size - 1) /\ LastAddr(g) + 1 = g.gpa + g.size
  BY <1>1 DEF LastAddr
<1>10. Touched(g, w) = (a + u) .. (a + v) /\ page_number(LastAddr(g)) = a + z
       /\ (LastAddr(g) + 1) % n = g.size % n
  BY <1>5, <1>6, <1>7, <1>8, <1>9 DEF Touched, page_number
<1>11. MarkedPages(g, w) = {a + q : q \in {i \in u .. v : i < k}}
  BY DEF MarkedPages, page_number
<1>12. \A q \in Nat : k <= q /\ q <= z => g.size % n # 0 /\ q = z
  BY <1>1, DivLast
<1> HIDE DEF n, a, u, v, z, k
<1>13. ASSUME NEW p \in Touched(g, w), p \notin MarkedPages(g, w)
       PROVE  p = a + z /\ g.size % n # 0
  <2>1. p \in Int /\ a + u <= p /\ p <= a + v
    BY <1>3, <1>10, <1>13
  <2>2. p - a \in u .. v /\ p = a + (p - a) /\ p - a \in Nat
    BY <1>3, <2>1
  <2>3. ~ (p - a < k)
    BY <1>11, <1>13, <2>2
  <2>4. k <= p - a /\ p - a <= z
    BY <1>3, <1>4, <2>2, <2>3
  <2>5. QED  BY <1>3, <1>12, <2>2, <2>4
<1>14. Touched(g, w) \subseteq Nat /\ \A p \in Touched(g, w) : p <= a + z
  BY <1>3, <1>4, <1>10
<1>15. MarkedPages(g, w) \subseteq Touched(g, w)
  BY <1>3, <1>10, <1>11
<1>16. QED  BY <1>10, <1>13, <1>14, <1>15 DEF n

LEMMA PagesNat == Pages \subseteq Nat
<1>1. ASSUME NEW g \in Regions, NEW p \in page_number(g.gpa) .. page_number(LastAddr(g))
      PROVE  p \in Nat
  <2>1. g.gpa \in Nat /\ LOG_PAGE_SIZE \in Nat \ {0}
    BY ConstantsAssumption DEF Region
  <2>2. page_number(g.gpa) \in Nat
    BY <2>1, DivMod DEF page_number
  <2>3. QED  BY <2>2
<1>2. QED  BY <1>1 DEF Pages

\* Two pages have different bits.
LEMMA MarkedOnce ==
  ASSUME NEW p \in Nat, NEW q \in Nat,
         <<page_word(p), page_bit(p)>> = <<page_word(q), page_bit(q)>>
  PROVE  p = q
BY ConstantsAssumption, DivInjective DEF page_word, page_bit

LEMMA WordMonotone ==
  ASSUME NEW p \in Nat, NEW q \in Nat, p <= q
  PROVE  page_word(p) <= page_word(q) /\ page_word(p) \in Nat /\ page_word(q) \in Nat
BY ConstantsAssumption, DivMonotone, DivMod DEF page_word

\* Wherever a region starts, the sum of the pages before it and of its full pages is
\* not past its end.
LEMMA DivSum ==
  ASSUME NEW n \in Nat \ {0}, NEW a \in Nat, NEW x \in Nat \ {0}, NEW q \in Nat, q < x \div n
  PROVE  (a \div n) + q <= (a + x - 1) \div n
<1> DEFINE s == a \div n
           t == x \div n
           z == (a + x - 1) \div n
<1>1. a + x - 1 \in Nat
  OBVIOUS
<1>2. /\ s \in Nat /\ a = n * s + (a % n) /\ a % n \in 0 .. n - 1
      /\ t \in Nat /\ x = n * t + (x % n) /\ x % n \in 0 .. n - 1
      /\ z \in Nat /\ a + x - 1 = n * z + ((a + x - 1) % n)
      /\ (a + x - 1) % n \in 0 .. n - 1
  BY <1>1, DivMod
<1>3. q < t
  OBVIOUS
<1> HIDE DEF s, t, z
<1>4. n * q + n <= n * t /\ n * q \in Int /\ n * t \in Int
  BY <1>2, <1>3, Multiples
<1>5. n * (s + q) = n * s + n * q /\ n * s \in Int /\ n * z \in Int
  BY <1>2, Multiples
<1>6. ~ z < s + q
  <2> SUFFICES ASSUME z < s + q  PROVE FALSE
    OBVIOUS
  <2>1. n * z + n <= n * (s + q)
    BY <1>2, Multiples
  <2>2. n * z + n <= n * s + n * q
    BY <1>5, <2>1
  <2>3. a + x - 1 < n * z + n
    BY <1>2, <1>5
  <2>4. a + x - 1 >= n * s + n * q + n - 1
    BY <1>2, <1>4, <1>5
  <2>5. QED  BY <1>2, <1>4, <1>5, <2>2, <2>3, <2>4
<1>7. QED  BY <1>2, <1>6 DEF s, t, z

\* mark_dirty marks no page past the last one of the region.
LEMMA MarkedWithin ==
  ASSUME NEW g, IsRegion(g), NEW w \in Writes, NEW p \in MarkedPages(g, w)
  PROVE  /\ p \in Nat /\ p <= page_number(LastAddr(g))
         /\ page_number(LastAddr(g)) \in Nat
<1>1. /\ LOG_PAGE_SIZE \in Nat \ {0} /\ w.off \in Nat /\ w.len \in Nat \ {0}
      /\ g.gpa \in Nat /\ g.size \in Nat \ {0}
  BY ConstantsAssumption DEF IsRegion
<1>2. PICK q \in page_number(w.off) .. page_number(w.off + w.len - 1) :
        q < page_number(g.size) /\ p = page_number(g.gpa) + q
  BY DEF MarkedPages
<1>3. page_number(w.off) \in Nat /\ page_number(g.gpa) \in Nat
  BY <1>1, DivMod DEF page_number
<1>4. q \in Nat
  BY <1>2, <1>3
<1>5. page_number(g.gpa) + q <= page_number(LastAddr(g))
  BY <1>1, <1>2, <1>4, DivSum DEF page_number, LastAddr
<1>6. LastAddr(g) \in Nat
  BY <1>1 DEF LastAddr
<1>7. page_number(LastAddr(g)) \in Nat
  BY <1>1, <1>6, DivMod DEF page_number
<1>8. QED  BY <1>2, <1>3, <1>4, <1>5, <1>7

\* A write notes its pages; those that are due wait for their mark.
LEMMA DeviceWritesKeeps ==
  ASSUME LogInv, NEW g \in snap, NEW w \in Writes, DeviceWrites(g, w)
  PROVE  LogInv'
<1>1. PICK is \in {"due", "maybe"} :
        /\ is = "due" => g \in base /\ conn # "replacing"
        /\ written' = [p \in Pages |-> IF p \in Touched(g, w) /\ written[p] # "due" THEN is
                                       ELSE written[p]]
  BY DEF DeviceWrites
<1>2. /\ UNCHANGED <<mem, snap, base, log, logged, todo, conn, dirty>>
      /\ w.off + w.len <= g.size /\ pending' = pending \cup {<<g, w>>}
  BY DEF DeviceWrites, memVars
<1>3. \A x \in pending' : IsWrite(x)
  BY <1>2 DEF LogInv, IsWrite
<1>4. written' \in [Pages -> {"no", "maybe", "due"}]
  BY <1>1 DEF LogInv
<1>5. is = "due" => g \in logged
  BY <1>1 DEF LogInv
<1>6. ASSUME Aligned, NEW p \in Pages, written'[p] = "due", ~ Partial(p)
      PROVE  Marked(p) \/ \E x \in pending' : Covers(x, p)
  <2>1. CASE written[p] = "due"
    BY <1>2, <1>6, <2>1 DEF LogInv, DueMarked
  <2>2. CASE written[p] # "due"
    <3>1. p \in Touched(g, w) /\ is = "due"
      BY <1>1, <1>6, <2>2
    <3>2. Covers(<<g, w>>, p)
      BY <1>5, <3>1 DEF Covers
    <3>3. QED  BY <1>2, <3>2
  <2>3. QED  BY <2>1, <2>2
<1>7. ASSUME Aligned, NEW p \in Pages, Marked(p) \/ \E x \in pending' : p \in Touched(x[1], x[2])
      PROVE  written'[p] # "no"
  <2>1. CASE p \in Touched(g, w)
    BY <1>1, <2>1
  <2>2. CASE p \notin Touched(g, w)
    <3>1. Marked(p) \/ InFlight(p)
      BY <1>2, <1>7, <2>2 DEF InFlight
    <3>2. written[p] # "no"
      BY <1>7, <3>1 DEF LogInv, MarkedNoted
    <3>3. QED  BY <1>1, <2>2, <3>2
  <2>3. QED  BY <2>1, <2>2
<1>8. (Aligned' => Aligned) /\ \A p : (Partial(p)' <=> Partial(p)) /\ (Marked(p)' <=> Marked(p))
  BY <1>2 DEF Aligned, Partial, Marked
<1>9. (Aligned => DueMarked)'
  BY <1>2, <1>6, <1>8 DEF DueMarked, Covers, Touched
<1>10. (Aligned => MarkedNoted)'
  BY <1>7, <1>8 DEF MarkedNoted, InFlight, Touched
<1>11. QED  BY <1>2, <1>3, <1>4, <1>9, <1>10 DEF LogInv, IsRegion, Fits

\* mark_dirty keeps its promise.
LEMMA MarkDirtyKeeps ==
  ASSUME LogInv, NEW y \in pending, MarkDirty(y[1], y[2])
  PROVE  LogInv'
<1> DEFINE g == y[1]
           w == y[2]
           bits == {<<page_word(p), page_bit(p)>> :
                       p \in IF g \in logged THEN MarkedPages(g, w) ELSE {}}
<1>1. /\ UNCHANGED <<mem, snap, base, log, logged, todo, conn, written>>
      /\ pending' = pending \ {y} /\ dirty' = dirty \cup bits
  BY DEF MarkDirty, memVars, LogInv, IsWrite
<1>2. y = <<g, w>> /\ w \in Writes /\ IsRegion(g) /\ w.off + w.len <= g.size
  BY DEF LogInv, IsWrite
<1> HIDE DEF g, w
<1>3. ASSUME Aligned, g \in logged
      PROVE  /\ Touched(g, w) \subseteq Nat /\ MarkedPages(g, w) \subseteq Touched(g, w)
             /\ \A p \in Touched(g, w) : p \in MarkedPages(g, w) \/ Partial(p)
  <2>1. g \in base /\ g.gpa % LOG_PAGE_SIZE = 0
    BY <1>3 DEF LogInv, Aligned
  <2>2. QED  BY <1>2, <2>1, WritePages DEF Partial
<1>4. \A p : Marked(p) => Marked(p)'
  BY <1>1 DEF Marked
<1>5. ASSUME Aligned, NEW p \in Pages, written[p] = "due", ~ Partial(p)
      PROVE  Marked(p)' \/ \E x \in pending' : Covers(x, p)
  <2>1. CASE Marked(p) \/ \E x \in pending : x # y /\ Covers(x, p)
    BY <1>1, <1>4, <2>1
  <2>2. CASE Covers(y, p)
    <3>1. p \in Touched(g, w) /\ g \in logged
      BY <2>2 DEF Covers, g, w
    <3>2. p \in MarkedPages(g, w)
      BY <1>3, <1>5, <3>1
    <3>3. <<page_word(p), page_bit(p)>> \in bits
      BY <3>1, <3>2
    <3>4. QED  BY <1>1, <3>3 DEF Marked
  <2>3. QED  BY <1>5, <2>1, <2>2 DEF LogInv, DueMarked
<1>6. ASSUME Aligned, NEW p \in Pages, Marked(p)' \/ InFlight(p)'
      PROVE  written[p] # "no"
  <2>1. CASE Marked(p) \/ InFlight(p)
    BY <1>6, <2>1 DEF LogInv, MarkedNoted
  <2>2. CASE ~ (Marked(p) \/ InFlight(p))
    <3>1. ~ InFlight(p)'
      BY <1>1, <2>2 DEF InFlight, Touched
    <3>2. <<page_word(p), page_bit(p)>> \in bits
      BY <1>1, <1>6, <2>2, <3>1 DEF Marked
    <3>3. PICK q \in MarkedPages(g, w) :
            <<page_word(p), page_bit(p)>> = <<page_word(q), page_bit(q)>> /\ g \in logged
      BY <3>2
    <3>4. q \in Touched(g, w) /\ q \in Nat
      BY <1>3, <1>6, <3>3
    <3>5. p = q
      BY <3>3, <3>4, PagesNat, MarkedOnce
    <3>6. InFlight(p)
      BY <3>4, <3>5 DEF InFlight, g, w
    <3>7. QED  BY <2>2, <3>6
  <2>3. QED  BY <2>1, <2>2
<1>7. ASSUME NEW b \in dirty'  PROVE b[1] < log
  <2>1. CASE b \in dirty
    BY <2>1 DEF LogInv
  <2>2. CASE b \in bits
    <3>1. PICK q \in MarkedPages(g, w) : b = <<page_word(q), page_bit(q)>> /\ g \in logged
      BY <2>2
    <3>2. /\ q \in Nat /\ q <= page_number(LastAddr(g))
          /\ page_number(LastAddr(g)) \in Nat
      BY <1>2, <3>1, MarkedWithin
    <3>3. Fits(g, log) /\ log \in Nat
      BY <3>1 DEF LogInv
    <3>4. page_word(q) < log
      BY <3>2, <3>3, WordMonotone DEF Fits
    <3>5. QED  BY <3>1, <3>4
  <2>3. QED  BY <1>1, <1>7, <2>1, <2>2
<1>8. (Aligned' => Aligned) /\ \A p : (Partial(p)' <=> Partial(p))
  BY <1>1 DEF Aligned, Partial
<1>9. (Aligned => DueMarked)'
  BY <1>1, <1>5, <1>8 DEF DueMarked, Covers, Touched
<1>10. (Aligned => MarkedNoted)'
  BY <1>1, <1>6, <1>8 DEF MarkedNoted
<1>11. \A x \in pending' : IsWrite(x)
  BY <1>1 DEF LogInv, IsWrite
<1>12. QED  BY <1>1, <1>7, <1>9, <1>10, <1>11 DEF LogInv, IsRegion, Fits

\* The steps that leave the log alone, and what they do to the memory.
LEMMA LogFrame ==
  ASSUME LogInv, UNCHANGED logVars, conn = "replacing" => conn' = "replacing",
         \A g \in mem' \cup snap' : IsRegion(g)
  PROVE  LogInv'
<1>1. (Aligned => DueMarked /\ MarkedNoted)'
  BY DEF LogInv, Aligned, DueMarked, MarkedNoted, Marked, Partial, InFlight, Touched, Covers,
         logVars
<1>2. \A x \in pending' : IsWrite(x)
  BY DEF LogInv, IsWrite, logVars
<1>3. QED  BY <1>1, <1>2 DEF LogInv, logVars, IsRegion, Fits

\* What is mapped is a region.
LEMMA MapIsRegion ==
  ASSUME NEW g \in Regions, NEW n
  PROVE  IsRegion(Map(g, n))
BY ConstantsAssumption DEF Map, IsRegion, Region

LEMMA LogNext == LogInv /\ [Next]_vars => LogInv'
<1> SUFFICES ASSUME LogInv, [Next]_vars PROVE LogInv'
  OBVIOUS
<1> USE DEF memVars, devVars, ringVars
<1>0. \A g \in mem \cup snap : IsRegion(g)
  BY DEF LogInv
<1>1. ASSUME Refused PROVE LogInv'
  BY <1>0, <1>1, LogFrame DEF Refused
<1>2. ASSUME NEW t \in Tables, SetMemTable(t) PROVE LogInv'
  <2>1. \A i \in 1 .. Len(t) : t[i] \in Regions
    BY ConstantsAssumption
  <2>2. CASE mem' = {Map(t[i], maps + 1) : i \in 1 .. Len(t)} /\ UNCHANGED <<logVars, snap, conn>>
    BY <1>0, <2>1, <2>2, MapIsRegion, LogFrame
  <2>3. QED  BY <1>1, <1>2, <2>2 DEF SetMemTable
<1>3. ASSUME NEW g \in Regions, AddMemRegion(g) PROVE LogInv'
  BY <1>0, <1>1, <1>3, MapIsRegion, LogFrame DEF AddMemRegion
<1>4. ASSUME NEW g \in Regions, RemoveMemRegion(g) PROVE LogInv'
  BY <1>0, <1>1, <1>4, LogFrame DEF RemoveMemRegion
<1>5. ASSUME NEW r \in Rings, NEW a \in RingAddrs, SetVringAddr(r, a) PROVE LogInv'
  BY <1>0, <1>1, <1>5, LogFrame DEF SetVringAddr
<1>6. ASSUME NEW r \in Rings, (\E b \in BOOLEAN : SetVringKick(r, b)) \/ SetVringCall(r)
      PROVE  LogInv'
  <2>1. (snap' = snap \/ snap' = mem) /\ UNCHANGED <<mem, logVars, conn>>
    BY <1>6 DEF SetVringKick, SetVringCall, InitializeVring, Activate
  <2>2. QED  BY <1>0, <2>1, LogFrame
<1>7. CASE \/ \E r \in Rings : GetVringBase(r)
           \/ SetGpuSocket \/ ResetDevice \/ Disconnect \/ LoadMemory \/ UNCHANGED vars
  BY <1>0, <1>7, LogFrame DEF GetVringBase, SetGpuSocket, ResetDevice, Disconnect,
                              LoadMemory, vars
<1>8. ASSUME NEW n \in LogLens, SetLogBase(n) PROVE LogInv'
  <2>1. CASE BitmapsFit(n) /\ ~ Refused
    <3>1. /\ \A g \in mem : Fits(g, n)
          /\ log' = n /\ dirty' = {} /\ logged' = {} /\ base' = mem
          /\ todo' = mem /\ conn' = IF mem = {} THEN "up" ELSE "replacing"
          /\ written' = [p \in Pages |-> IF InFlight(p) THEN "maybe" ELSE "no"]
          /\ UNCHANGED <<mem, snap, pending>>
      BY <1>8, <2>1 DEF SetLogBase, NewLog, BitmapsFit
    <3>2. n \in Nat
      BY ConstantsAssumption
    <3>3. \A p : InFlight(p)' <=> InFlight(p)
      BY <3>1 DEF InFlight, Touched
    <3>4. DueMarked' /\ MarkedNoted'
      BY <3>1, <3>3 DEF DueMarked, MarkedNoted, Marked
    <3>5. \A x \in pending' : IsWrite(x)
      BY <3>1 DEF LogInv
    <3>6. QED  BY <1>0, <3>1, <3>2, <3>4, <3>5 DEF LogInv, IsRegion, Fits
  <2>2. QED  BY <1>1, <1>8, <2>1 DEF SetLogBase
<1>9. ASSUME NEW g \in todo, ReplaceBitmap(g) PROVE LogInv'
  <2>1. /\ todo' = todo \ {g} /\ logged' = logged \cup {g}
        /\ conn' = IF todo' = {} THEN "up" ELSE "replacing"
        /\ UNCHANGED <<mem, snap, base, log, dirty, written, pending>>
    BY <1>9 DEF ReplaceBitmap
  <2>2. (Aligned => DueMarked /\ MarkedNoted)'
    BY <2>1 DEF LogInv, Aligned, DueMarked, MarkedNoted, Marked, Partial, InFlight, Touched,
                Covers
  <2>3. \A x \in pending' : IsWrite(x)
    BY <2>1 DEF LogInv
  <2>4. QED  BY <1>9, <2>1, <2>2, <2>3 DEF LogInv, IsRegion, Fits
<1>10. ASSUME NEW g \in snap, NEW w \in Writes, DeviceWrites(g, w) PROVE LogInv'
  BY <1>10, DeviceWritesKeeps
<1>11. ASSUME NEW x \in pending, MarkDirty(x[1], x[2]) PROVE LogInv'
  BY <1>11, MarkDirtyKeeps
<1>12. QED
  BY <1>2, <1>3, <1>4, <1>5, <1>6, <1>7, <1>8, <1>9, <1>10, <1>11 DEF Next, Request, Device

\* For any regions, page and word sizes and logs, any number of writers, and whatever
\* the front-end maps and unmaps: no bit is beyond the end of the log; and if its regions
\* start at a page, the log has every full page that was written since SET_LOG_BASE was
\* answered and is not still being written, and no page the device left alone.
THEOREM DirtyLogSound == Spec => []DirtyTracked
<1>1. Init => LogInv
  BY DEF Init, LogInv, DueMarked, MarkedNoted, Marked, InFlight, Clean
<1>2. LogInv => DirtyTracked
  BY DEF LogInv, DirtyTracked, DueMarked, MarkedNoted, InFlight, Covers
<1>3. QED  BY <1>1, <1>2, LogNext, PTL DEF Spec
=============================================================================
