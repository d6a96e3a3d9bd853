SPECIFICATION Spec
CONSTANTS
  Words = 2
  WordBits = 2
  ByteBits = 1
  Index <- MCIndex
  Value <- MCValue
  Operands <- MCOperands
INVARIANTS OrdersAreCellwise Lattices
PROPERTY ImplementsCellArray
