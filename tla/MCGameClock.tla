---------------------------- MODULE MCGameClock ----------------------------
(* Instances of GameClock: a lifetime of two units of time, a placeholder  *)
(* beyond every expiry the game hands out.                                 *)
EXTENDS GameClock
=============================================================================
