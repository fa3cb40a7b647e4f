--------------------------- MODULE MCScanGrammar ---------------------------
(* Instances of ScanGrammar for TLC: a two-bit word of kinds, documents    *)
(* nested to a bound that the .cfg sets below, at or past the word.        *)
EXTENDS ScanGrammar

MCRootKinds == {"obj", "arr"}
=============================================================================
