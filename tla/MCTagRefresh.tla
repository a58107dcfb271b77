---------------------------- MODULE MCTagRefresh ----------------------------
(***************************************************************************)
(* Two source files; in MCInside the path of a, say x.c, is the beginning  *)
(* of the path of b, x.cpp.                                                *)
(***************************************************************************)
EXTENDS TagRefresh

CONSTANTS a, b

MCFiles == {a, b}
MCInside == {<<a, b>>}
=============================================================================
