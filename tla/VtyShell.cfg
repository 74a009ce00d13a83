CONSTANTS
  k1 = k1 k2 = k2 k3 = k3 NoClient = NoClient
  Printable <- MCPrintable
  Commands <- MCCommands
  Effect <- MCEffect
  Byte <- MCByte
  Slots <- MCSlots
  Client <- MCClient
  Site <- MCSite
  InitialSize = 2
  HistorySize = 3
  ReadSize = 5
SPECIFICATION Spec
CHECK_DEADLOCK FALSE
INVARIANTS ScreenShowsLine HistoryKept StartupStops RibHeld
PROPERTY Served
