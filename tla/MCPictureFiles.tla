---------------------------- MODULE MCPictureFiles ----------------------------
(* Instances of PictureFiles for TLC: two even pictures and an odd one.      *)
EXTENDS PictureFiles

MCSizes == {<<4, 4>>, <<2, 2>>, <<3, 2>>}
===============================================================================
