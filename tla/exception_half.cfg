CONSTANTS
  a = a
  b = b
  file = file
  socket = socket
  Stdout = Stdout
  Contexts = {a, b}
  Sinks = {file, socket}
  Setups <- MC_HalfSetups
  Usage <- MC_Usage
  Answers <- MC_Answers
SPECIFICATION Spec
INVARIANT
  ExceptionIsWhole
CHECK_DEADLOCK FALSE
