---------------------------- MODULE MCStaticCache ----------------------------
(***************************************************************************)
(* StaticCache on a feed of few zips.                                      *)
(***************************************************************************)
EXTENDS StaticCache
=============================================================================
