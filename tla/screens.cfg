SPECIFICATION Spec
CONSTANTS
  Evenings = {tonight, tomorrow}
  KeptAside = 0
  MaxAsked = 3
  MaxChanges = 2
SYMMETRY Symmetry
INVARIANTS TypeOK ScreenKeepsUp FailuresAreNews
PROPERTY KeepsBoard
