---------------------------- MODULE MCLumaStore ----------------------------
(* Small instances of LumaStore: items 1 and 3 are one media, and windows  *)
(* differ in nothing (Alike).                                              *)
EXTENDS LumaStore

CONSTANTS film, series

Media == <<film, series, film>>
NoLegacy == <<>>
OneLegacy == <<1>>
Alike == Permutations(Window)
============================================================================
