\* Visits that change texts, that save the profile while members change, and that
\* invite; two calls in flight.
CONSTANTS
  None = None
  me = me  other = other  mate = mate
  s1 = s1  s2 = s2
  a = a  b = b  bad = bad
  Mates = {mate}
  Texts = {a, b, bad}
  InitText <- Names
  InitRole <- Members
  BadSlugs = {bad}
  TakenSlugs = {b}
  Visits <- OneAtATime
  Slots = {s1, s2}
  MaxOthers = 1
  MaxActs = 2
SYMMETRY SlotSymmetry
SPECIFICATION Spec
CHECK_DEADLOCK FALSE
INVARIANT
  LastPickWins

  
