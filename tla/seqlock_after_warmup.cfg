SPECIFICATION FairSpec
CONSTANTS
  Attempts = 2
  MaxCommands = 3
  EarlyCommands = FALSE
INVARIANTS TypeOK CommandUntorn
PROPERTIES ReadIsRecent CommandAdopted
