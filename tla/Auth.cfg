SPECIFICATION Spec
CONSTANTS
  ann = ann  bob = bob  c1 = c1  c2 = c2
  Nil = Nil
  Names <- TwoNames
  Known <- Registered
  Requests <- All
  Conns <- TwoConns
  MaxOp = 5
  MaxRow = 3
  Traffic <- ApartOrTogether
CHECK_DEADLOCK FALSE
SYMMETRY Pool
INVARIANT TypeOK
INVARIANT LogoutFinal
INVARIANT CurrentLive
INVARIANT LoggedOut
INVARIANT OneSession
INVARIANT OneUser
