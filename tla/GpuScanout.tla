----------------------------- MODULE GpuScanout -----------------------------
(***************************************************************************)
(* The resources and scanouts of the gpu (RutabagaVirtioGpu in             *)
(* virtio_gpu.rs), as the commands the worker takes off the control queue  *)
(* change them.  Two parties are outside: rutabaga, which keeps the        *)
(* resources themselves and may refuse any call, and the front-end behind  *)
(* gpu_backend, which shows the scanouts and whose socket may fail.        *)
(*                                                                         *)
(* The association of resources and scanouts is kept twice: every scanout  *)
(* names its resource, every resource has the set of its scanouts.         *)
(***************************************************************************)
EXTENDS FiniteSets

CONSTANTS
  ResIds,       \* resource ids, other than 0, which no scanout can show
  Scanouts,     \* 0 .. VIRTIO_GPU_MAX_SCANOUTS - 1
  NoRes         \* resource id 0, a scanout that is None

ASSUME ConstantsAssumption == NoRes \notin ResIds

VARIABLES
  host,         \* the resources rutabaga has
  resources,    \* the keys of RutabagaVirtioGpu::resources
  assoc,        \* VirtioGpuResource::scanouts, an AssociatedScanouts
  scanouts,     \* RutabagaVirtioGpu::scanouts
  shown,        \* scanouts the front-end was told to show
  painted,      \* the resource a flush last painted on a scanout
  torn          \* a command was refused after it had changed something

vars == <<host, resources, assoc, scanouts, shown, painted, torn>>

Init ==
  /\ host = {} /\ resources = {}
  /\ assoc = [r \in ResIds |-> {}]
  /\ scanouts = [s \in Scanouts |-> NoRes]
  /\ shown = {} /\ painted = [s \in Scanouts |-> NoRes]
  /\ torn = FALSE

-----------------------------------------------------------------------------
(* The commands.  A command that changes nothing (a scanout id out of range, *)
(* an unknown resource, a call rutabaga refuses) is a stuttering step.       *)

M_ResourceCreateFirst(r) ==
  /\ resources' = resources \cup {r}
  /\ assoc' = [assoc EXCEPT ![r] = {}]
  /\ host' \in {host, host \cup {r}}
  /\ UNCHANGED <<scanouts, shown, painted, torn>>

\* resource_create_3d: rutabaga refuses an id it has.
ResourceCreate3d(r) ==
  /\ r \notin host
  /\ host' = host \cup {r}
  /\ resources' = resources \cup {r}
  /\ assoc' = [assoc EXCEPT ![r] = {}]
  /\ UNCHANGED <<scanouts, shown, painted, torn>>

\* unref_resource: the entry is removed first; with a scanout enabled the
\* command is refused then, and rutabaga may refuse it too.
UnrefResource(r) ==
  /\ r \in resources
  /\ resources' = resources \ {r}
  /\ \/ assoc[r] # {} /\ torn' = TRUE /\ UNCHANGED host
     \/ assoc[r] = {} /\ host' \in {host, host \ {r}} /\ UNCHANGED torn
  /\ assoc' = [assoc EXCEPT ![r] = {}]
  /\ UNCHANGED <<scanouts, shown, painted>>

\* AssociatedScanouts::disable, an exclusive or.
Disable(ss, s) == (ss \ {s}) \cup ({s} \ ss)

\* set_scanout begins with the resource the scanout shows; the command is
\* refused if that is gone.
Detached(s) ==
  IF scanouts[s] = NoRes THEN assoc
  ELSE [assoc EXCEPT ![scanouts[s]] = Disable(@, s)]

CanDetach(s) == scanouts[s] # NoRes => scanouts[s] \in resources

\* set_scanout with resource id 0.  The front-end may not get the message.
DisableScanout(s) ==
  /\ CanDetach(s)
  /\ assoc' = Detached(s)
  /\ scanouts' = [scanouts EXCEPT ![s] = NoRes]
  /\ shown' \in {shown, shown \ {s}}
  /\ UNCHANGED <<host, resources, painted, torn>>

M_SetScanoutNoDisable(s, r) ==
  /\ CanDetach(s)
  /\ r \in resources
  /\ assoc' = [assoc EXCEPT ![r] = @ \cup {s}]
  /\ scanouts' = [scanouts EXCEPT ![s] = r]
  /\ shown' = shown \cup {s}
  /\ UNCHANGED <<host, resources, painted, torn>>

M_SetScanoutNeverShown(s, r) ==
  /\ CanDetach(s)
  /\ r \in resources
  /\ assoc' = [Detached(s) EXCEPT ![r] = @ \cup {s}]
  /\ scanouts' = [scanouts EXCEPT ![s] = r]
  /\ shown' = IF scanouts[s] = NoRes THEN shown ELSE shown \cup {s}
  /\ UNCHANGED <<host, resources, painted, torn>>

\* set_scanout with a resource: the front-end is told only when the scanout was
\* off.
SetScanout(s, r) ==
  /\ CanDetach(s)
  /\ r \in resources
  /\ assoc' = [Detached(s) EXCEPT ![r] = @ \cup {s}]
  /\ scanouts' = [scanouts EXCEPT ![s] = r]
  /\ shown' = IF scanouts[s] = NoRes THEN shown \cup {s} ELSE shown
  /\ UNCHANGED <<host, resources, painted, torn>>

\* set_scanout with an unknown resource is refused at the end: the old resource
\* has lost the scanout, or the front-end was told to show it.
SetScanoutUnknown(s, r) ==
  /\ CanDetach(s)
  /\ r \notin resources
  /\ assoc' = Detached(s)
  /\ shown' = IF scanouts[s] = NoRes THEN shown \cup {s} ELSE shown
  /\ torn' = (torn \/ scanouts[s] # NoRes)
  /\ UNCHANGED <<host, resources, scanouts, painted>>

M_FlushAll(r, ss) ==
  /\ r \in resources
  /\ ss \subseteq shown
  /\ painted' = [s \in Scanouts |-> IF s \in ss THEN r ELSE painted[s]]
  /\ UNCHANGED <<host, resources, assoc, scanouts, shown, torn>>

\* flush_resource: the scanouts of the resource are painted; a read that fails
\* skips one, an update that fails ends the loop.
FlushResource(r, ss) ==
  /\ r \in resources
  /\ ss \subseteq assoc[r]
  /\ painted' = [s \in Scanouts |-> IF s \in ss THEN r ELSE painted[s]]
  /\ UNCHANGED <<host, resources, assoc, scanouts, shown, torn>>

Next ==
  \/ \E r \in ResIds : ResourceCreate3d(r) \/ UnrefResource(r)
  \/ \E s \in Scanouts : DisableScanout(s)
  \/ \E s \in Scanouts, r \in ResIds : SetScanout(s, r) \/ SetScanoutUnknown(s, r)
  \/ \E r \in ResIds : \E ss \in SUBSET Scanouts : FlushResource(r, ss)

Spec == Init /\ [][Next]_vars

-----------------------------------------------------------------------------
(* Properties. *)

\* The type of the maps; a resource that is not in the map has no scanouts.
TypeOK ==
  /\ host \subseteq ResIds /\ resources \subseteq ResIds
  /\ assoc \in [ResIds -> SUBSET Scanouts]
  /\ \A r \in ResIds \ resources : assoc[r] = {}
  /\ scanouts \in [Scanouts -> ResIds \cup {NoRes}]
  /\ shown \subseteq Scanouts
  /\ painted \in [Scanouts -> ResIds \cup {NoRes}]
  /\ torn \in BOOLEAN

\* The debug_assert of resource_create_3d: rutabaga knows every resource of the
\* map, so relying on it to refuse duplicate ids is enough.
ResourcesOnHost == resources \subseteq host

\* set_scanout tells the front-end to show a scanout only when it is None, which
\* is right because a scanout with a resource is always shown already.
ScanoutIsShown == \A s \in Scanouts : scanouts[s] # NoRes => s \in shown

\* The two records of the association agree, as long as no command was refused
\* half-way: disable's exclusive or never turns a scanout on.
AssociationTracks ==
  ~ torn => \A r \in ResIds, s \in Scanouts :
              s \in assoc[r] <=> scanouts[s] = r /\ r \in resources

\* A flush paints only scanouts that show the resource (while nothing is torn),
\* and only scanouts the front-end shows.
FlushPaintsOwnScanouts ==
  [][\A s \in Scanouts :
       painted'[s] # painted[s] /\ ~ torn
         => scanouts[s] = painted'[s] /\ s \in shown]_vars

\* What the comment in unref_resource asks for: a resource that is on a scanout
\* is not deleted.  Without its entry the scanout can neither be flushed nor
\* changed, nor be disabled with resource id 0.
ScanoutHasResource ==
  \A s \in Scanouts : scanouts[s] # NoRes => scanouts[s] \in resources

\* While nothing is torn the resource of every scanout is there.  With it the
\* properties above are inductive.
UntornHasResource == ~ torn => ScanoutHasResource

ScanoutInv ==
  TypeOK /\ ResourcesOnHost /\ ScanoutIsShown /\ AssociationTracks /\ UntornHasResource
=============================================================================
