----------------------------- MODULE MC_GptInit -----------------------------
(***************************************************************************)
(* Model-checking instance of GptInit: every option list of up to three   *)
(* tokens that exercises a branch of the option loop.                      *)
(***************************************************************************)
EXTENDS GptInit

MCArgLists ==
  { <<>>,
    <<"--disk-uuid", "goodUuid">>,
    <<"--disk-uuid", "badUuid">>,
    <<"--disk-uuid">>,
    <<"--disk-size">>,
    <<"--disk-size", "num">>,
    <<"--disk-size", "junk">>,
    <<"--disk-size", "--disk-uuid", "goodUuid">>,
    <<"junk">> }
=============================================================================
