----------------------------- MODULE MCDispatch -----------------------------
(***************************************************************************)
(* An instance of Dispatch under KeyProbe: both keys share a slot of the   *)
(* cache.                                                                  *)
(***************************************************************************)
EXTENDS KeyProbe

CONSTANTS a, b, P, H

MCSlot == [w \in Words |-> 1]
MCPolicies ==
    {<<FALSE, "pass">>, <<FALSE, "first">>, <<TRUE, "first">>}
MCAnswers ==
    {Do(k) : k \in {"Pass", "Capture", "Probe", "Bail"}}
        \cup {Via(h) : h \in {None, H, Probe}} \cup {Lenient(Do("Enter"))}
=============================================================================
