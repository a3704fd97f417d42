SPECIFICATION FairSpec
CONSTANTS
  Resolution = 12
  Length = 3
INVARIANTS FreshUnlessGlitch ZeroOnlyFromShort 
PROPERTY Recovers
