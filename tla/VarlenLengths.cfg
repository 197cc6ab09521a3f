SPECIFICATION Spec
CONSTANTS
  Align = 2
  ExactNr = 8
  VarNr = 4
  InitialSubarea = 16
  MinimalSubarea = 16
  SubareaArray = 3
  SegmentSize = 85
  HeaderSize = 2
  Lengths = {5, 8}
PROPERTIES
  LengthKept
