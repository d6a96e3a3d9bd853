SPECIFICATION Spec
CONSTANTS
  Words = 2
  WordBits = 2
  ByteBits = 1
  CellsPerByte = 2
  Index <- MCIndex
  Value <- MCValue
  Operands <- MCOperands
INVARIANTS AgreesWithV2
PROPERTY RefusedRestoreInventsNothing
