------------------------------- MODULE MC_Cli -------------------------------
(***************************************************************************)
(* Model-checking instance of Cli.  The build has a 700-byte 2nd stage    *)
(* and a 600-byte 3rd stage, so fs_offset is 9728.  PURE64_FS_SECTOR is  *)
(* defined in fs.h, which is not in the repository, so both locations are *)
(* hypothetical builds: MCDiskLocation is that offset (a build whose      *)
(* PURE64_FS_SECTOR agrees with the layout); MCDiskLocationPadding is     *)
(* sector 32, past the tree, in the zero padding.                        *)
(* The argument vectors take every branch of the option loop, every      *)
(* command, a taken and a fresh name, and two names in one mkdir.         *)
(***************************************************************************)
EXTENDS Cli

MCDiskLocation == 9728

MCDiskLocationPadding == 16384

MCNames == {"a", "b"}

MCDashArgs == {"-h", "--help", "-f", "--file", "-x"}

MCArgVectors ==
  { <<"init">>, <<"mkfs">>, <<"-f", "pure64.img", "ls">>, <<"ls", "a">>,
    <<"cat", "a">>, <<"cat">>, <<"mkdir", "a", "b">>, <<"mkdir", "b">>,
    <<"cp", "host", "a">>, <<"cp", "host">>, <<"rm", "a">>, <<"rmdir", "a">>,
    <<"--help">>, <<"-f">>, <<"-x", "ls">>, <<>>, <<"-f", "pure64.img">>,
    <<"format">> }
=============================================================================
