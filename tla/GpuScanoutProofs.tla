-------------------------- MODULE GpuScanoutProofs --------------------------
(***************************************************************************)
(* For any set of resources and scanouts: the two records of GpuScanout's  *)
(* association agree and every flush goes to the right scanouts, as long   *)
(* as no command was refused half-way.                                     *)
(***************************************************************************)
EXTENDS GpuScanout, TLAPS

\* All maps are empty at first.
LEMMA ScanoutInvInit == Init => ScanoutInv
BY ConstantsAssumption
   DEF Init, ScanoutInv, TypeOK, ResourcesOnHost, ScanoutIsShown,
       AssociationTracks, UntornHasResource, ScanoutHasResource

\* AssociatedScanouts::disable of a scanout that is enabled takes it out, and
\* touches no other.
LEMMA DisableRemoves ==
  ASSUME NEW ss, NEW s \in ss
  PROVE  Disable(ss, s) = ss \ {s}
BY DEF Disable

\* set_scanout's first step leaves a well-formed map, in which no resource has
\* the scanout if the records agreed before.
LEMMA DetachedFacts ==
  ASSUME ScanoutInv, NEW s \in Scanouts, CanDetach(s)
  PROVE  /\ Detached(s) \in [ResIds -> SUBSET Scanouts]
         /\ \A r \in ResIds \ resources : Detached(s)[r] = {}
         /\ ~ torn => \A r \in ResIds : Detached(s)[r] = assoc[r] \ {s}
<1>1. CASE scanouts[s] = NoRes
  BY <1>1, ConstantsAssumption
     DEF ScanoutInv, TypeOK, AssociationTracks, Detached
<1>2. CASE scanouts[s] # NoRes
  <2>1. scanouts[s] \in ResIds /\ scanouts[s] \in resources
    BY <1>2 DEF ScanoutInv, TypeOK, CanDetach
  <2>2. Detached(s) = [assoc EXCEPT ![scanouts[s]] = Disable(assoc[scanouts[s]], s)]
    BY <1>2 DEF Detached
  <2>3. Disable(assoc[scanouts[s]], s) \in SUBSET Scanouts
    BY <2>1 DEF Disable, ScanoutInv, TypeOK
  <2>4. Detached(s) \in [ResIds -> SUBSET Scanouts]
    BY <2>1, <2>2, <2>3 DEF ScanoutInv, TypeOK
  <2>5. \A r \in ResIds \ resources : Detached(s)[r] = {}
    BY <2>1, <2>2 DEF ScanoutInv, TypeOK
  <2>6. ASSUME ~ torn, NEW r \in ResIds
        PROVE  Detached(s)[r] = assoc[r] \ {s}
    <3>1. CASE r = scanouts[s]
      <4>1. s \in assoc[r]
        BY <2>1, <2>6, <3>1 DEF ScanoutInv, AssociationTracks
      <4>2. Disable(assoc[r], s) = assoc[r] \ {s}
        BY <4>1, DisableRemoves
      <4>3. QED  BY <2>1, <2>2, <3>1, <4>2 DEF ScanoutInv, TypeOK
    <3>2. CASE r # scanouts[s]
      <4>1. s \notin assoc[r]
        BY <2>6, <3>2 DEF ScanoutInv, AssociationTracks
      <4>2. Detached(s)[r] = assoc[r]
        BY <2>1, <2>2, <3>2 DEF ScanoutInv, TypeOK
      <4>3. QED  BY <4>1, <4>2
    <3>3. QED  BY <3>1, <3>2
  <2>7. QED  BY <2>4, <2>5, <2>6
<1>3. QED  BY <1>1, <1>2

\* Every command preserves the invariant.
LEMMA ScanoutInvNext == ScanoutInv /\ [Next]_vars => ScanoutInv'
<1> SUFFICES ASSUME ScanoutInv, [Next]_vars PROVE ScanoutInv'
  OBVIOUS
<1> USE ConstantsAssumption
<1>1. ASSUME NEW r \in ResIds, ResourceCreate3d(r) PROVE ScanoutInv'
  BY <1>1
     DEF ResourceCreate3d, ScanoutInv, TypeOK, ResourcesOnHost, ScanoutIsShown,
         AssociationTracks, UntornHasResource, ScanoutHasResource
<1>2. ASSUME NEW r \in ResIds, UnrefResource(r) PROVE ScanoutInv'
  <2>1. TypeOK' /\ ResourcesOnHost' /\ ScanoutIsShown'
    BY <1>2 DEF UnrefResource, ScanoutInv, TypeOK, ResourcesOnHost, ScanoutIsShown
  <2>2. UntornHasResource'
    BY <1>2 DEF UnrefResource, ScanoutInv, TypeOK, AssociationTracks,
                UntornHasResource, ScanoutHasResource
  <2>3. AssociationTracks'
    BY <1>2 DEF UnrefResource, ScanoutInv, TypeOK, AssociationTracks
  <2>4. QED  BY <2>1, <2>2, <2>3 DEF ScanoutInv
<1>3. ASSUME NEW s \in Scanouts, DisableScanout(s) PROVE ScanoutInv'
  <2>1. /\ assoc' = Detached(s)
        /\ scanouts' = [scanouts EXCEPT ![s] = NoRes]
        /\ shown' \in {shown, shown \ {s}}
        /\ UNCHANGED <<host, resources, painted, torn>>
    BY <1>3 DEF DisableScanout
  <2>2. /\ assoc' \in [ResIds -> SUBSET Scanouts]
        /\ \A r \in ResIds \ resources : assoc'[r] = {}
        /\ ~ torn => \A r \in ResIds : assoc'[r] = assoc[r] \ {s}
    BY <1>3, <2>1, DetachedFacts DEF DisableScanout
  <2>3. TypeOK' /\ ResourcesOnHost' /\ ScanoutIsShown'
    BY <2>1, <2>2 DEF ScanoutInv, TypeOK, ResourcesOnHost, ScanoutIsShown
  <2>4. AssociationTracks' /\ UntornHasResource'
    BY <2>1, <2>2 DEF ScanoutInv, TypeOK, AssociationTracks, UntornHasResource,
                      ScanoutHasResource
  <2>5. QED  BY <2>3, <2>4 DEF ScanoutInv
<1>4. ASSUME NEW s \in Scanouts, NEW r \in ResIds, SetScanout(s, r)
      PROVE  ScanoutInv'
  <2>1. /\ r \in resources
        /\ assoc' = [Detached(s) EXCEPT ![r] = Detached(s)[r] \cup {s}]
        /\ scanouts' = [scanouts EXCEPT ![s] = r]
        /\ shown' = IF scanouts[s] = NoRes THEN shown \cup {s} ELSE shown
        /\ UNCHANGED <<host, resources, painted, torn>>
    BY <1>4 DEF SetScanout
  <2>2. /\ Detached(s) \in [ResIds -> SUBSET Scanouts]
        /\ \A q \in ResIds \ resources : Detached(s)[q] = {}
        /\ ~ torn => \A q \in ResIds : Detached(s)[q] = assoc[q] \ {s}
    BY <1>4, DetachedFacts DEF SetScanout
  <2>3. /\ assoc' \in [ResIds -> SUBSET Scanouts]
        /\ assoc'[r] = Detached(s)[r] \cup {s}
        /\ \A q \in ResIds \ {r} : assoc'[q] = Detached(s)[q]
    BY <2>1, <2>2
  <2>4. TypeOK' /\ ResourcesOnHost' /\ ScanoutIsShown'
    BY <2>1, <2>2, <2>3 DEF ScanoutInv, TypeOK, ResourcesOnHost, ScanoutIsShown
  <2>5. UntornHasResource'
    BY <2>1 DEF ScanoutInv, TypeOK, UntornHasResource, ScanoutHasResource
  <2>6. ASSUME ~ torn', NEW q \in ResIds, NEW t \in Scanouts
        PROVE  t \in assoc'[q] <=> scanouts'[t] = q /\ q \in resources'
    <3>1. t \in assoc[q] <=> scanouts[t] = q /\ q \in resources
      BY <2>1, <2>6 DEF ScanoutInv, AssociationTracks
    <3>2. Detached(s)[q] = assoc[q] \ {s}
      BY <2>1, <2>2, <2>6
    <3>3. QED  BY <2>1, <2>3, <3>1, <3>2 DEF ScanoutInv, TypeOK
  <2>7. QED  BY <2>4, <2>5, <2>6 DEF ScanoutInv, AssociationTracks
<1>5. ASSUME NEW s \in Scanouts, NEW r \in ResIds, SetScanoutUnknown(s, r)
      PROVE  ScanoutInv'
  <2>1. /\ assoc' = Detached(s)
        /\ shown' = IF scanouts[s] = NoRes THEN shown \cup {s} ELSE shown
        /\ torn' = (torn \/ scanouts[s] # NoRes)
        /\ UNCHANGED <<host, resources, scanouts, painted>>
    BY <1>5 DEF SetScanoutUnknown
  <2>2. /\ assoc' \in [ResIds -> SUBSET Scanouts]
        /\ \A q \in ResIds \ resources : assoc'[q] = {}
    BY <1>5, <2>1, DetachedFacts DEF SetScanoutUnknown
  <2>3. TypeOK' /\ ResourcesOnHost' /\ ScanoutIsShown'
    BY <2>1, <2>2 DEF ScanoutInv, TypeOK, ResourcesOnHost, ScanoutIsShown
  <2>4. ~ torn' => assoc' = assoc /\ ~ torn
    BY <2>1 DEF Detached, ScanoutInv, TypeOK
  <2>5. AssociationTracks' /\ UntornHasResource'
    BY <2>1, <2>4 DEF ScanoutInv, AssociationTracks, UntornHasResource,
                      ScanoutHasResource
  <2>6. QED  BY <2>3, <2>5 DEF ScanoutInv
<1>6. ASSUME NEW r \in ResIds, NEW ss \in SUBSET Scanouts, FlushResource(r, ss)
      PROVE  ScanoutInv'
  BY <1>6
     DEF FlushResource, ScanoutInv, TypeOK, ResourcesOnHost, ScanoutIsShown,
         AssociationTracks, UntornHasResource, ScanoutHasResource
<1>7. CASE UNCHANGED vars
  BY <1>7
     DEF vars, ScanoutInv, TypeOK, ResourcesOnHost, ScanoutIsShown,
         AssociationTracks, UntornHasResource, ScanoutHasResource
<1>8. QED  BY <1>1, <1>2, <1>3, <1>4, <1>5, <1>6, <1>7 DEF Next

\* The inductive invariant holds.
LEMMA ScanoutInvAlways == Spec => []ScanoutInv
<1>1. QED  BY ScanoutInvInit, ScanoutInvNext, PTL DEF Spec

\* The maps keep their types, and a resource that unref_resource has removed from
\* the map has no scanouts.
THEOREM ScanoutTypeCorrect == Spec => []TypeOK
<1>1. ScanoutInv => TypeOK  BY DEF ScanoutInv
<1>2. QED  BY <1>1, ScanoutInvAlways, PTL

\* set_scanout and unref_resource keep the scanout bits of the resources and the
\* resources of the scanouts in step, until a command is refused half-way.
THEOREM AssociationAgrees == Spec => []AssociationTracks
<1>1. ScanoutInv => AssociationTracks  BY DEF ScanoutInv
<1>2. QED  BY <1>1, ScanoutInvAlways, PTL

\* set_scanout may leave out the message to the front-end for a scanout that has
\* a resource, even after commands were refused half-way.
THEOREM ScanoutAlwaysShown == Spec => []ScanoutIsShown
<1>1. ScanoutInv => ScanoutIsShown  BY DEF ScanoutInv
<1>2. QED  BY <1>1, ScanoutInvAlways, PTL

\* The debug_assert of resource_create_3d never fires: rutabaga has every
\* resource of the map.
THEOREM HostHasResources == Spec => []ResourcesOnHost
<1>1. ScanoutInv => ResourcesOnHost  BY DEF ScanoutInv
<1>2. QED  BY <1>1, ScanoutInvAlways, PTL

\* flush_resource paints a resource only on scanouts that are shown and show it,
\* until a command is refused half-way.
THEOREM FlushIsOnTarget == Spec => FlushPaintsOwnScanouts
<1> DEFINE OnTarget ==
      \A s \in Scanouts :
        painted'[s] # painted[s] /\ ~ torn
          => scanouts[s] = painted'[s] /\ s \in shown
<1>1. ASSUME ScanoutInv, [Next]_vars PROVE [OnTarget]_vars
  <2>1. ASSUME NEW r \in ResIds, NEW ss \in SUBSET Scanouts, FlushResource(r, ss)
        PROVE  OnTarget
    BY <1>1, <2>1, ConstantsAssumption
       DEF FlushResource, ScanoutInv, TypeOK, ScanoutIsShown, AssociationTracks
  <2>2. painted' = painted => OnTarget
    OBVIOUS
  <2>3. QED
    BY <1>1, <2>1, <2>2
       DEF Next, vars, ResourceCreate3d, UnrefResource, DisableScanout, SetScanout,
           SetScanoutUnknown
<1>2. QED  BY <1>1, ScanoutInvAlways, PTL DEF Spec, FlushPaintsOwnScanouts
=============================================================================
