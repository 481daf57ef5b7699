SPECIFICATION Spec
CONSTANTS
  Starts = {s1, s2}
  Probes = {r1}
  NoPid = NoPid
  MaxUnlink = 1
INVARIANTS OneOwner OwnerIsNamed
