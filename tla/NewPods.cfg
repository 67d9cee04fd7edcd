SPECIFICATION LogSpec
CONSTANTS
  Name = {a}
  MaxBirths = 2
  MaxLines = 2
  Cap = 1
  BufferCap = 2
CHECK_DEADLOCK FALSE
PROPERTY NewPodsPickedUp
