CONSTANTS
  Arguments <- MCArguments
  DefaultPage = 2
  Devices = {8, 16}
  MaxCommands = 2
  NULL = NULL
  Zero = Zero
SPECIFICATION Spec
INVARIANT PartsUntouched
CHECK_DEADLOCK FALSE
