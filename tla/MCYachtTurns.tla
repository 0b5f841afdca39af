---------------------------- MODULE MCYachtTurns ----------------------------
(* Small instances of YachtTurns for TLC.                                  *)
EXTENDS YachtTurns
=============================================================================
