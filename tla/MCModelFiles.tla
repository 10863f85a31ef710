----------------------------- MODULE MCModelFiles -----------------------------
(* Instances of ModelFiles for TLC: one name for files, with two channels.   *)
EXTENDS ModelFiles

CONSTANTS sky, sky0, sky1

MCNames == {sky, sky0, sky1}
MCPlain == {sky}
MCChannel(name, c) == IF c = 0 THEN sky0 ELSE sky1
===============================================================================
