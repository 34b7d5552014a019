---------------------------- MODULE MCFontCache ----------------------------
(* FontCache for TLC.                                                      *)
EXTENDS FontCache
=============================================================================
