--------------------------- MODULE MCFileLibrary ---------------------------
(* Two names in the workspace, one free name for restored files, one file    *)
(* outside.                                                                  *)
EXTENDS FileLibrary, TLC

CONSTANTS a, b, a1, x

MCNames == {a, b}
MCRestored == {a1}
MCOutside == {x}
=============================================================================
