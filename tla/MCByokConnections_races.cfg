SPECIFICATION Spec
CONSTANTS
  Connection = {c1, c2, c3, c4}
  Provider = {p1}
  Nickname = {n1}
  Key = {k1, k2}
  Client = {q1, q2}
  MaxProviders = 2
  NoNickname = NoNickname
  NoKey = NoKey
  NoConnection = NoConnection
INVARIANTS
  TypeOK
  LimitOvershoot
  DefaultsBounded
  NicknamesDistinct
PROPERTIES
  NothingWrittenBack
CHECK_DEADLOCK FALSE
SYMMETRY MCSymmetry
