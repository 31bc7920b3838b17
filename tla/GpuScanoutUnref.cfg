\* Is a resource that is on a scanout kept?
SPECIFICATION Spec
CONSTANTS
  ResIds = {res1, res2}
  Scanouts = {s1, s2}
  NoRes = NoRes
INVARIANT ScanoutHasResource
