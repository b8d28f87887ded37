CONSTANTS
  p1 = p1
  p2 = p2
  h1 = h1
  h2 = h2
  Passes = {p1, p2}
  Releases = {h1}
  Unannounced = {}
  Floorless = {}
  NoHash = NoHash
  MaxTrouble = 1
SPECIFICATION Spec
PROPERTY ClaimsEnd
PROPERTY OwnedCloses
PROPERTY VanishedIsNoticed
VIEW Acting
