CONSTANTS
  ArgLists <- MCArgLists
  InitialDiskSize = 1048576
  NULL = NULL
SPECIFICATION Spec
PROPERTY DiskSizeOptionAccepted
