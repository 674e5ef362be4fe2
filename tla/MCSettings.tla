----------------------------- MODULE MCSettings -----------------------------
(***************************************************************************)
(* Settings on every kind of board, and on a new one whose user does not   *)
(* wait for a save to end.                                                 *)
(***************************************************************************)
EXTENDS Settings

AllBoards == [installed : BOOLEAN, fragile : BOOLEAN, overlap : BOOLEAN]
BusyBoard == [installed : {FALSE}, fragile : {FALSE}, overlap : {TRUE}]
=============================================================================
