CONSTANTS
  Nil = Nil
  m1 = m1
  r1 = r1
  r2 = r2
  Machines <- OneMachine
  Hardware <- OneHardware
  MachineOf <- OnThatMachine
  Specs <- Asked
  Reports <- Found
  Requests <- TwoRequests
  Lag = 2
SPECIFICATION Spec
INVARIANTS
  IntakeTypeOK
  ReadyIsDiscovered
  RefusedIsNeverReady
  IdleIsDone
PROPERTIES
  HardwareIsKept
  DiscoveryIsKept
  ReadinessSettles
  DiscoveryIsCopied
