SPECIFICATION Spec
CONSTANTS
  MaxCycles = 2
  MaxCommands = 2
PROPERTY SwitchPersists
