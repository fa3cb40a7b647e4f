------------------------------ MODULE MCBudget ------------------------------
(***************************************************************************)
(* Instances of Budget.                                                    *)
(***************************************************************************)
EXTENDS Budget

AllBudgets == {0, 3, 5}
AllCaps    == {0, 1, 2}
NoCaps     == {0}
OneByte    == {1}
AllTargets == {"rtOut", "rtSkip", "rtCapture", "rtObserve", "rtDefer",
               "rtPrefix", "rtValidate"}
Captured   == {"rtCapture", "rtOut"}
Observed   == {"rtObserve", "rtOut"}
Prefixed   == {"rtPrefix", "rtOut"}
=============================================================================
