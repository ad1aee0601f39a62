SPECIFICATION SpecRun
CONSTANTS
  FRAME_OVERLAP = 2
  FrameWrap = 2
  Images = {i1, i2}
  NoImage = NoImage
  Imm = Imm
  PresentInIssueOrder = TRUE
  MaxPosts = 3
PROPERTY
  NoDrawWhileMinimised
