------------------------------ MODULE KeyProbe ------------------------------
(***************************************************************************)
(* KeyProbe (src/engine/keyprobe.go), a protocol over Dispatch: it hands   *)
(* the values of a few root keys to a callback and passes the rest.  A     *)
(* step is one of Dispatch in which whatever was asked of the probe was    *)
(* answered as its methods do.  A probe may also be mounted with Via.      *)
(***************************************************************************)
EXTENDS Dispatch

CONSTANTS Probe, Wanted

ASSUME ProbeAssumption == Wanted \subseteq Words /\ Probe \in Hooks

VARIABLES
    observing,  \* Opt.Observe
    pseen,      \* KeyProbe.seen
    vals,       \* KeyProbe.vals: the member whose value was kept, 0 for none,
                \* Below for a value that is no member of the root
    wrote,      \* root members in the output, <<member, replaced>>
    members     \* history: the keys of the root, while the probe reads it

probe == <<observing, pseen, vals, wrote, members>>

Below == MaxMembers + 1
AtRoot == proto = Probe /\ len = 1 /\ top.kind = "object"

ProbeTypeOK ==
    /\ TypeOK
    /\ observing \in BOOLEAN /\ pseen \subseteq Wanted
    /\ vals \in [Wanted -> 0 .. Below]
    /\ members \in Seq(Words)
    /\ \A i \in DOMAIN wrote : wrote[i] \in (DOMAIN members) \X BOOLEAN

ProbeInit ==
    /\ Init
    /\ observing \in {FALSE, proto = Probe} /\ pseen = {}
    /\ vals = [k \in Wanted |-> 0]
    /\ wrote = <<>> /\ members = <<>>

\* Mutant: a key is captured every time.
WantsAgain(place) == Len(place) = 1 /\ place[Len(place)] \in Wanted
Wants(place) == Len(place) = 1 /\ place[Len(place)] \in Wanted \ pseen

\* KeyProbe.OnKey.
ProbeOnKey(place) ==
    IF Wants(place)
    THEN /\ pend' = Do(IF observing THEN "Observe" ELSE "Capture")
         /\ pseen' = pseen \cup {place[Len(place)]}
    ELSE pend' = Do("Pass") /\ UNCHANGED pseen

\* KeyProbe.OnValue keeps the value.
ProbeOnValue(place) ==
    vals' = [vals EXCEPT ![place[Len(place)]] =
                IF Len(place) = 1 THEN Len(members) ELSE Below]

\* Its other answers are BaseProtocol's: an element passes, and nothing asks
\* for OnStart.
Asked(what) == \E i \in DOMAIN calls' :
    calls'[i].to = Probe /\ calls'[i].what = what
Answered ==
    /\ ~Asked("OnStart")
    /\ Asked("OnElem") => pend' = Do("Pass")
    /\ IF Asked("OnKey") THEN ProbeOnKey(path') ELSE UNCHANGED pseen
    /\ IF Asked("OnValue") THEN ProbeOnValue(path) ELSE UNCHANGED vals

\* What a value of the root leaves in the output: a passed or observed value
\* was written as it was read, a captured one OnValue writes, replaced if the
\* callback says so.
Written ==
    IF AtRoot /\ Len(path') < Len(path)
    THEN \/ pend'.kind = "Skip" /\ UNCHANGED wrote
         \/ \E replaced \in BOOLEAN :
               /\ pend'.kind # "Skip"
               /\ replaced => pend'.kind = "Capture"
               /\ wrote' = Append(wrote, <<Len(members), replaced>>)
    ELSE UNCHANGED wrote

ProbeNext ==
    /\ Next
    /\ Answered /\ Written
    /\ members' = IF AtRoot /\ Len(path') > Len(path)
                  THEN Append(members, path'[1]) ELSE members
    /\ UNCHANGED observing

ProbeSpec == ProbeInit /\ [][ProbeNext]_<<vars, probe>>

----------------------------------------------------------------------------
\* The members whose value has been read, and the first of a key among them.
Ended == IF path = <<>> THEN Len(members) ELSE Len(members) - 1
First(k) ==
    LET at == {m \in 1 .. Ended : members[m] = k}
    IN  IF at = {} THEN 0 ELSE CHOOSE m \in at : \A n \in at : m <= n

\* KeyProbe reads the first occurrence of each key it wants, at the root and
\* nowhere else, also when it is mounted below, and rewrites no other member;
\* everything else of the root reaches the output in its order, except what
\* DupKeysFirst drops (keyprobe.go: "only the first occurrence triggers the
\* callback, the rest stay verbatim").
ReadsFirst ==
    /\ ProbeTypeOK
    /\ ~dead =>
        /\ \A k \in Wanted : vals[k] = First(k)
        /\ \A i \in DOMAIN wrote : wrote[i][2] =>
              ~observing /\ \E k \in Wanted : wrote[i][1] = First(k)
        /\ \A i \in 1 .. Len(wrote) - 1 : wrote[i][1] < wrote[i + 1][1]
        /\ {wrote[i][1] : i \in DOMAIN wrote} =
              {m \in 1 .. Ended : policy[2] = "first" => m = First(members[m])}
=============================================================================
