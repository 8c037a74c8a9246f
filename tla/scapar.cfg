CONSTANTS
  Kw <- MixKw
  Section <- MixSection
  Top = "top"
  Schema <- MixSchema
  ItemOrder <- MixOrder
  Base0 <- MixBase
  Wild = Wild
  Str = {"a"}
  Inside = {"c", "v"}
  Converts = {"sub"}
  Shows = {"sub"}
  MaxLines = 5
  MaxUser = 1
  MaxParses = 2
  MaxFinals = 2
SPECIFICATION FairScSpec
INVARIANTS OncePerObject AllReachable FreedOnce NoDangling OwnerLast OnlyStringsLeft
PROPERTY CallsReturn
