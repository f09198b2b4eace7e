--------------------------- MODULE MC_RamfsExport ---------------------------
(***************************************************************************)
(* Model-checking instance of RamfsExport.  The stage sizes straddle the   *)
(* sector boundary (1, 512, 600/700) and the 0x7f-sector BIOS limit        *)
(* (65024 = 0x7f * 512 is accepted, 65025 is not); the tree sizes put the  *)
(* end of the file system below the minimum disk size, exactly on a       *)
(* sector boundary past it, and off a sector boundary past it.             *)
(***************************************************************************)
EXTENDS RamfsExport

MCStage2Sizes == {1, 512, 700, 65024, 65025}
MCStage3Sizes == {1, 512, 600, 65024}
MCFsSizes == {24, 1000000, 1048576, 1100000}
MCMinimumDiskSize == 1048576
=============================================================================
