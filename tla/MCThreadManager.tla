--------------------------- MODULE MCThreadManager ---------------------------
(***************************************************************************)
(* The threads main.cpp creates: a login thread and one game thread.  A    *)
(* message may move a player from the login thread to the game thread, and *)
(* from the game thread to itself, which MovePlayer allows as well.        *)
(***************************************************************************)
EXTENDS ThreadManager

CONSTANTS login, game

OneGame == {game}
AllMoves == (login :> {game}) @@ (game :> {game})
=============================================================================
