CONSTANTS
  Stage2Size = 700
  Stage3Size = 600
  DiskLocation <- MCDiskLocationPadding
  Names <- MCNames
  DashArgs <- MCDashArgs
  ArgVectors <- MCArgVectors
  NULL = NULL
SPECIFICATION Spec
PROPERTY
  ImportReadsExported
