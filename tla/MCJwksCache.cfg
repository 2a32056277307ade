SPECIFICATION Spec
CONSTANTS
  Task = {t1, t2}
  Kid = {k1, k2}
  NoKid = NoKid
  TTL = 3
  Cooldown = 2
  MaxTime = 4
SYMMETRY Symmetry
INVARIANTS
  KeysAreRecent
  PublishedKeysAreFound
PROPERTIES
  ForcedApart
  ReplacesWithReason
