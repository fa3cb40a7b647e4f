----------------------------- MODULE MCDeferral -----------------------------
(* Instances of Deferral for TLC: the plain use, and each unusual one.     *)
EXTENDS Deferral

PlainUse  == {}
Overlaps  == {"overlap"}
Suspending == {"suspend"}
Redefers  == {"redefer"}
=============================================================================
