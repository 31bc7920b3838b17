\* Two scanouts, mirrored and switched between two resources.  A command that
\* changes nothing is a stuttering step, so the state in which every command is
\* refused has no successor.
SPECIFICATION Spec
CONSTANTS
  ResIds = {res1, res2}
  Scanouts = {s1, s2}
  NoRes = NoRes
CHECK_DEADLOCK FALSE
INVARIANTS
  ResourcesOnHost
  ScanoutIsShown
  AssociationTracks
PROPERTIES
  FlushPaintsOwnScanouts
