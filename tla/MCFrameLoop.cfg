SPECIFICATION FairSpec
CONSTANTS
  FRAME_OVERLAP = 2
  FrameWrap = 4
  Images = {i1, i2, i3}
  NoImage = NoImage
  Imm = Imm
  PresentInIssueOrder = TRUE
INVARIANTS
  TypeOK
  SlotExclusive
  FenceNeverLost
  AcquireSemaphoreFree
  CommandBufferIntact
  NoTearing
  OnlyRenderedShown
  SettledAtDestroy
PROPERTIES
  CallReturns
  PresentedIsShown
  ImplementsPipeline
