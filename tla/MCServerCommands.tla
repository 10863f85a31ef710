--------------------------- MODULE MCServerCommands ---------------------------
(* Instances of ServerCommands for TLC.                                      *)
EXTENDS ServerCommands, TLC

CONSTANTS openvlbi, station, openvlbiset, stationset, sigterm, sigint

MCNames == {openvlbi, station, openvlbiset, stationset}
MCPlain == {openvlbi, station}

\* A handler does not ask which signal it was entered for.
MCSignals == {sigterm, sigint}
SignalsSymmetry == Permutations(MCSignals)

MCJoined(name) == IF name = openvlbi THEN openvlbiset ELSE stationset
===============================================================================
