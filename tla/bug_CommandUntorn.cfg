SPECIFICATION Spec
CONSTANTS
  Attempts = 2
  MaxCommands = 2
  EarlyCommands = TRUE
INVARIANT CommandUntorn
