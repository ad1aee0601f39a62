SPECIFICATION Spec
CONSTANTS
  Threads = {t1}
  Sockets = {s1, s2}
  Conns = {c1}
  Handles = {h1, h2, h3}
  Buffers = {b1, b2}
  NullPtr = NullPtr
  NoData = NoData
  Eof = Eof
  Nobody = Nobody
  MessageSize = 2
  MaxSent = 1
  MaxWrites = 2
INVARIANT
  WritesAreWhole
