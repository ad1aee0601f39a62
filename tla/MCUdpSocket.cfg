SPECIFICATION Spec
CONSTANTS
  Threads = {t1, t2}
  Sockets = {o1, o2, o3}
  Conns = {}
  Handles = {h1, h2}
  Buffers = {b1, b2}
  NullPtr = NullPtr
  Addresses = {a1, a2}
  Payloads = {x, y}
  NoData = NoData
  Eof = Eof
  Error = Error
  Nobody = Nobody
  MaxSent = 2
  MaxInbox = 2
SYMMETRY UdpSymmetry
INVARIANTS
  TypeOK
  ExclusiveBuffer
  ReturnedDatagramIntact
  HandleOwnership
  FlagHasHolder
PROPERTY
  ImplementsMailbox
