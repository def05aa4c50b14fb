CONSTANTS
  s1 = s1
  s2 = s2
  s3 = s3
  alice = alice
  bob = bob
  None = None
  Sessions = {s1, s2, s3}
  Names = {alice, bob}
  Workers = 3
SPECIFICATION Spec
SYMMETRY Symmetry
INVARIANT ChatInv
INVARIANT LiveEntries
INVARIANT ReachesAllButNamesake
INVARIANT ListedWereTold
