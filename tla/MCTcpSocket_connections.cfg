SPECIFICATION Spec
CONSTANTS
  Threads = {t1, t2}
  Sockets = {s1, s2}
  Conns = {c1, c2}
  Handles = {h1, h2, h3}
  Buffers = {b1, b2}
  NullPtr = NullPtr
  NoData = NoData
  Eof = Eof
  Nobody = Nobody
  MessageSize = 1
  MaxSent = 2
  MaxWrites = 1
PROPERTY
  TerminatesOnlyOnSameSocket
