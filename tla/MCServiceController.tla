------------------------ MODULE MCServiceController ------------------------
(* Windows of two ticks and ticks up to three windows, two jobs per window, *)
(* three reservation numbers; a tick falls exactly on a window's end, and   *)
(* the word is small enough for the drain of three windows and for the      *)
(* bound of a late admission to overflow.                                   *)
EXTENDS ServiceController
=============================================================================
