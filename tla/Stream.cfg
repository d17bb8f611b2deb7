SPECIFICATION MCSpec
CONSTANTS
  api1 = api1
  api2 = api2
  r1 = r1
  r2 = r2
  r3 = r3
  x1 = x1
  x2 = x2
  x3 = x3
  kid = kid
  w = w
  Api = {api1, api2}
  Worker = {w}
  Reader = {r1, r2, r3}
  HomeOf <- Homes
  MaxInbox = 2
  Run = {x1, x2, x3, kid}
  Child = {kid}
  FromOf <- Froms
  MaxDeltas <- Deltas
  MaxTurns <- Turns
  Scenes <- AllScenes
INVARIANTS BoundWhileRead OnceInOrder ShownAsIs
PROPERTIES StreamsClose
CHECK_DEADLOCK FALSE
