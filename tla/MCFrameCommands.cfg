SPECIFICATION Spec
CONSTANTS
  FRAME_OVERLAP = 2
  ImageCount = 3
  Images = {i1, i2, i3}
  DrawImage = DrawImage
  Effects = {0, 1}
  Data = {d1}
  Undefined = Undefined
  NoUi = NoUi
SYMMETRY ImageSymmetry
INVARIANTS
  TypeOK
  BackgroundIsOwn
  UiIsOwn
  ExecutionIsSerial
  LayoutsAsNamed
PROPERTIES
  NoWriteWhileRead
  ImplementsShow
