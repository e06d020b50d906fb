CONSTANTS
  Arguments <- MCArguments
  DefaultPage = 2
  Devices = {8, 16}
  MaxCommands = 2
  NULL = NULL
  Zero = Zero
SPECIFICATION Spec
INVARIANTS TypeOK Stored Extracted RefusedUpdateKeeps SizeAsAsked InFront
CHECK_DEADLOCK FALSE
