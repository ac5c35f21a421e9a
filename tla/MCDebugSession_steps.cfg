CONSTANTS
  Entry = "entry"
  MaxChanges = 2
  None = None
  Launches <- MCLaunches
SPECIFICATION Spec
INVARIANTS
  TypeOK
  ShownIsHeld
  StopsWhereAsked
PROPERTY CommandsAreAnswered
