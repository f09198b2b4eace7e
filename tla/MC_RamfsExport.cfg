CONSTANTS
  Stage2Sizes <- MCStage2Sizes
  Stage3Sizes <- MCStage3Sizes
  FsSizes <- MCFsSizes
  MinimumDiskSize <- MCMinimumDiskSize
  MbrDataSize = 512
  RawDap = RawDap
SPECIFICATION Spec
INVARIANTS
  TypeOK
  Stage2Intact
  SuccessImagePadded
  DapsDescribeStages
