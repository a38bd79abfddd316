SPECIFICATION Spec
CONSTANTS
  ann = ann  bob = bob  c1 = c1  c2 = c2
  Nil = Nil
  Names <- OneName
  Known <- Registered
  Requests <- Logins
  Conns <- TwoConns
  MaxOp = 2
  MaxRow = 3
  Traffic <- TwoTogether
CHECK_DEADLOCK FALSE
SYMMETRY Pool
PROPERTY TokenSet
