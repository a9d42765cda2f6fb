SPECIFICATION Spec
CONSTANTS
  Programs <- AllPrograms
  Size <- SizeOf
  Rom <- WordAt
  Registers <- Files
  Starts <- Beginnings
  Memory <- Ram
  GpiValues <- Inputs
  GpiPorts = {1}
INVARIANTS
  TypeOK
  StackHoldsCalls
PROPERTIES
  ImplementsIsa
  ThrowLeavesMachine
