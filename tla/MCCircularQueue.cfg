CONSTANTS
  Default = d0
  T = {d0, a, b}
  Nullptr = nullptr
  BUFF_SZ = 3
SPECIFICATION Spec
INVARIANT TypeOK
PROPERTY ImplementsDeque
