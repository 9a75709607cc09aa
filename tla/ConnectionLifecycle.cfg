SPECIFICATION Spec
CONSTANTS
  a = a
  b = b
  d = d
  h1 = h1
  h2 = h2
  u1 = u1
  u2 = u2
  Conn = {a, b}
  Challenge = {h1}
  ChallengeOf <- Shared
  Caller = {u1, u2}
  MaxToken = 3
  MaxFaults = 2
  MaxCrashes = 2
INVARIANTS
  TypeOK
  OneConnectionPerChallenge
  RowHasSecret
  KeySecretsGone
  StoredIsAccepted
  ProxyOutlivesByRace
PROPERTIES
  StoredNeverOlder
SYMMETRY Symmetric
