CONSTANTS
  Nil = Nil
  Drives <- TwoDrives
  Trims <- OneTrim
  ImageDrive = "sda"
  Formats <- AllFormats
  Tables <- AllTables
  Callers = {c1, c2}
SPECIFICATION Spec
INVARIANTS
  AgentTypeOK
  ReportsAreTrue
PROPERTIES
  ContractIsKept
  ActionsFinish
