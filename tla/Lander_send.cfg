SPECIFICATION FairSpec
CONSTANTS
  Routes = {r1, r2, r3}
  Pools = {p1, p2}
  MaxTip = 2
  MaxTotal = 3
  NoRoute = NoRoute
INVARIANTS
  FailureIsUnanimous
  TipsCovered
  OneExecutesUntilSold
PROPERTIES
  AcceptedWins
  Answered
