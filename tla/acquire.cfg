CONSTANTS
  p1 = p1
  p2 = p2
  h1 = h1
  h2 = h2
  Passes = {p1, p2}
  Releases = {h1, h2}
  Unannounced = {h2}
  Floorless = {h2}
  NoHash = NoHash
  MaxTrouble = 2
SPECIFICATION Spec
INVARIANT TypeOK
INVARIANT EveryTorrentNamed
INVARIANT GrabbedIsOwed
SYMMETRY Symmetries
VIEW AheadOfRaces
