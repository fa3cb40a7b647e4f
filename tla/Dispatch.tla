------------------------------ MODULE Dispatch ------------------------------
(***************************************************************************)
(* Which hook is told what, and with which key: the key cache, the keys    *)
(* a frame has seen, the hooks of the frames and the path (onKeyDone,      *)
(* valueStart, apply, endRegion, closeContainer).                          *)
(*                                                                         *)
(* The input is well formed here (ScanGrammar is about the rest) and one   *)
(* step reads a key, a value that is not entered, an opening bracket that  *)
(* is, or a closing one.  Defer is Deferral's subject and Prefix Budget's. *)
(* Answers are the actions hooks choose from, MaxMembers bounds the values *)
(* of a container, MaxFrames the nesting.                                  *)
(***************************************************************************)
EXTENDS Integers, Sequences, FiniteSets

CONSTANTS
    Words,      \* what a key may say
    Slot,       \* hashKey & (keyCacheSize-1) of each
    Hooks,      \* sub-hooks that an Enter may name with Via
    Protocols,  \* hooks a transformer may be built with
    Policies,   \* <<DupKeyBail, dup>>
    Answers,    \* what a hook may answer
    None,
    MaxMembers, MaxFrames

ASSUME DispatchAssumption ==
    /\ DOMAIN Slot = Words
    /\ Policies \subseteq BOOLEAN \X {"pass", "bail", "first"}
    /\ None \notin Hooks \cup Protocols \cup Words
    /\ MaxMembers \in Nat /\ MaxFrames \in Nat \ {0}

VARIABLES
    frames,  \* t.frames
    store,   \* what the slots above them still hold of their seen keys
    path,    \* t.path
    pend,    \* t.pend
    cache,   \* t.keys
    proto, policy,
    rootDone, dead,
    calls    \* history: the callbacks of the last step

vars == <<frames, store, path, pend, cache, proto, policy, rootDone, dead,
          calls>>

SlotsUsed == {Slot[w] : w \in Words}
Kinds == {"string", "object", "array"}
Containers == {"object", "array"}

Do(kind) == [kind |-> kind, lenient |-> FALSE, via |-> None]
Via(h) == [Do("Enter") EXCEPT !.via = h]
Lenient(act) == [act EXCEPT !.lenient = TRUE]
Plain == {"Pass", "Skip", "Capture", "Observe"}
Actions ==
    {Do(k) : k \in Plain \cup {"Probe", "Bail"}}
        \cup {Via(h) : h \in Hooks \cup {None}} \cup {Lenient(Do("Enter"))}

ASSUME AnswersAssumption == Answers \subseteq Actions

\* A new frame; n counts its completed values; at is history, the member
\* being read as the document has it.
Frame(kind, hook) ==
    [kind |-> kind, ph |-> IF kind = "array" THEN "value" ELSE "key",
     idx |-> -1, n |-> 0, hook |-> hook, seen |-> <<>>, at |-> <<>>]

len == Len(frames)
top == frames[len]
hookAt(i) ==
    IF i \in 1 .. len /\ frames[i].hook # None THEN frames[i].hook ELSE proto

cur == hookAt(len)

Told(to, what, place) == <<[to |-> to, what |-> what, place |-> place]>>

----------------------------------------------------------------------------
TypeOK ==
    /\ len <= MaxFrames /\ store \in [1 .. MaxFrames -> Seq(Words)]
    /\ \A i \in DOMAIN frames :
          /\ frames[i].kind \in Containers
          /\ frames[i].ph \in {"key", "value", "comma"}
          /\ frames[i].n \in 0 .. MaxMembers
          /\ frames[i].hook \in Hooks \cup {None}
          /\ frames[i].seen \in Seq(Words)
          /\ Len(frames[i].at) <= 1
    /\ pend \in Actions
    /\ cache \in [SlotsUsed -> Words \cup {None}]
    /\ proto \in Protocols /\ policy \in Policies
    /\ rootDone \in BOOLEAN /\ dead \in BOOLEAN
    /\ Len(path) <= len

Init ==
    /\ frames = <<>> /\ store = [i \in 1 .. MaxFrames |-> <<>>]
    /\ path = <<>>
    /\ pend = Do("Pass")
    /\ cache = [s \in SlotsUsed |-> None]
    /\ proto \in Protocols /\ policy \in Policies
    /\ rootDone = FALSE /\ dead = FALSE
    /\ calls = <<>>

\* A step of the scan: the transform has not stopped.
Reads == ~dead /\ ~rootDone
\* A container with room for one more value.
Room == top.n < MaxMembers
Const == UNCHANGED <<proto, policy>>

----------------------------------------------------------------------------
\* Mutant: the frame keeps the keys the slot's last container had.
pushFrameKeeps(fs, nf) ==
    /\ frames' = Append(fs, [nf EXCEPT !.seen = store[len + 1]])
    /\ UNCHANGED store

\* The slot's storage is reused, emptied (old.seen[:0]).
pushFrame(fs, nf) ==
    /\ frames' = Append(fs, nf)
    /\ store' = [store EXCEPT ![len + 1] = <<>>]

\* The root container.
Root(kind) ==
    /\ Reads /\ len = 0
    /\ pushFrame(frames, Frame(kind, None))
    /\ calls' = <<>>
    /\ Const /\ UNCHANGED <<path, pend, cache, rootDone, dead>>

\* The key as the cache knows it, or as it was read; the slot then has it.
Intern(w) == IF cache[Slot[w]] = w THEN cache[Slot[w]] ELSE w

PolicyChecks == policy[1] \/ policy[2] # "pass"
PolicyBails == policy[1] \/ policy[2] = "bail"

Seen(key) == \E i \in DOMAIN top.seen : top.seen[i] = key

\* The key is judged by the policy, then offered to the hook.
OnKey(w, key, place, act) ==
    LET valued == [frames EXCEPT ![len] =
                    [@ EXCEPT !.ph = "value", !.at = <<w>>]]
        repeated == PolicyChecks /\ Seen(key)
    IN  IF repeated
        THEN /\ frames' = valued /\ calls' = <<>>
             /\ pend' = IF PolicyBails THEN pend ELSE Do("Skip")
             /\ dead' = PolicyBails
        ELSE /\ frames' = IF PolicyChecks
                          THEN [valued EXCEPT ![len].seen = Append(@, key)]
                          ELSE valued
             /\ calls' = Told(cur, "OnKey", place)
             /\ pend' = act /\ dead' = (act.kind = "Bail")

\* A key written without escapes goes through the cache, one with escapes is
\* decoded.
onKeyDone(w, escaped, act) ==
    LET key == IF escaped THEN w ELSE Intern(w)
        place == Append(path, key)
    IN  /\ Reads /\ len > 0
        /\ top.kind = "object" /\ top.ph \in {"key", "comma"} /\ Room
        /\ cache' = IF escaped THEN cache ELSE [cache EXCEPT ![Slot[w]] = key]
        /\ path' = place
        /\ OnKey(w, key, place, act)
        /\ Const /\ UNCHANGED <<store, rootDone>>

\* A key whose escapes do not decode.
BadKey ==
    /\ Reads /\ len > 0
    /\ top.kind = "object" /\ top.ph \in {"key", "comma"} /\ Room
    /\ dead' = TRUE /\ calls' = <<>>
    /\ Const /\ UNCHANGED <<frames, store, path, pend, cache, rootDone>>

\* Another transformer with the same cache reads a key.
Elsewhere(w) ==
    /\ Reads
    /\ cache' = [cache EXCEPT ![Slot[w]] = w]
    /\ calls' = <<>>
    /\ Const /\ UNCHANGED <<frames, store, path, pend, rootDone, dead>>

----------------------------------------------------------------------------
\* The frame of an entered container: its callbacks go to the hook the Enter
\* names, or stay with the hook of the frame it is in.
Enters(fs, act, kind) ==
    pushFrame(fs, Frame(kind, IF act.via # None THEN act.via ELSE top.hook))

\* The value of the innermost frame is over.
afterValue(fs, place) ==
    LET f == fs[Len(fs)]
        over == [f EXCEPT !.ph = "comma", !.n = @ + 1, !.at = <<>>]
    IN  /\ frames' = [fs EXCEPT ![Len(fs)] = over]
        /\ path' = SubSeq(place, 1, Len(place) - 1)

\* A value that is not entered: a captured or observed one is handed to the
\* hook at its end, which may bail.
Region(fs, act, place, asked, bails) ==
    LET given == act.kind \in {"Capture", "Observe"}
    IN  /\ bails => given
        /\ calls' = asked \o
                IF given THEN Told(cur, "OnValue", place) ELSE <<>>
        /\ pend' = act /\ dead' = bails
        /\ IF bails THEN frames' = fs /\ path' = place
           ELSE afterValue(fs, place)
        /\ UNCHANGED store

\* The answer is carried out.
apply(fs, act, kind, place, asked, bails) ==
    \/ act.kind \in Plain /\ Region(fs, act, place, asked, bails)
    \/ /\ act.kind = "Enter" /\ kind \notin Containers /\ act.lenient
       /\ Region(fs, Do("Pass"), place, asked, bails)
    \/ /\ act.kind = "Enter" /\ kind \in Containers /\ len < MaxFrames
       /\ Enters(fs, act, kind)
       /\ path' = place /\ calls' = asked /\ pend' = act
       /\ ~bails /\ UNCHANGED dead
    \/ /\ \/ act.kind \in {"Bail", "Probe"}
          \/ act.kind = "Enter" /\ kind \notin Containers /\ ~act.lenient
       /\ frames' = fs /\ path' = place /\ calls' = asked /\ pend' = act
       /\ ~bails /\ dead' = TRUE /\ UNCHANGED store

\* A value starts: an element is offered to the hook, a key was already, and
\* a Probe asks the hook again now that the value's kind is known.
valueStart(kind, elem, started, bails) ==
    LET inArray == top.kind = "array"
        idx == top.idx + 1
        fs == IF inArray
              THEN [frames EXCEPT ![len] =
                      [@ EXCEPT !.idx = idx, !.at = <<top.n>>]]
              ELSE frames
        place == IF inArray THEN Append(path, idx) ELSE path
        asked == (IF inArray THEN Told(cur, "OnElem", place) ELSE <<>>)
              \o (IF elem.kind = "Probe" THEN Told(cur, "OnStart", place)
                  ELSE <<>>)
    IN  /\ Reads /\ len > 0
        /\ IF inArray THEN Room ELSE top.ph = "value"
        /\ apply(fs, started, kind, place, asked, bails)
        /\ Const /\ UNCHANGED <<cache, rootDone>>

LeftTo == hookAt(len - 1)

\* A dispatch frame closes: whoever issued the Enter is told, and its storage
\* stays in the slot.
closeContainer(bails) ==
    LET outer == SubSeq(frames, 1, len - 1)
    IN  /\ Reads /\ len > 0
        /\ top.kind = "object" => top.ph # "value"
        /\ calls' = Told(LeftTo, "OnLeave", path)
        /\ dead' = bails /\ rootDone' = (~bails /\ len = 1)
        /\ store' = IF bails THEN store ELSE [store EXCEPT ![len] = top.seen]
        /\ IF bails THEN UNCHANGED <<frames, path>>
           ELSE IF len = 1 THEN frames' = outer /\ UNCHANGED path
           ELSE afterValue(outer, path)
        /\ Const /\ UNCHANGED <<pend, cache>>

\* What the hook says of an element (of a key it was asked before), and what
\* it says once a Probe told it the kind.
Offered == IF len > 0 /\ top.kind = "array" THEN Answers ELSE {pend}
Started(elem) == IF elem.kind = "Probe" THEN Answers ELSE {elem}

Next ==
    \/ \E kind \in Containers : Root(kind)
    \/ \E w \in Words, escaped \in BOOLEAN, act \in Answers :
          onKeyDone(w, escaped, act)
    \/ BadKey
    \/ \E w \in Words : Elsewhere(w)
    \/ \E kind \in Kinds, bails \in BOOLEAN :
          \E elem \in Offered : \E started \in Started(elem) :
             valueStart(kind, elem, started, bails)
    \/ \E bails \in BOOLEAN : closeContainer(bails)

Spec == Init /\ [][Next]_vars

----------------------------------------------------------------------------
\* The containers that are being read, as the contract of Callbacks sees them.
Open ==
    [i \in 1 .. len |->
        [owner |-> hookAt(i), issuer |-> hookAt(i - 1),
         keys |-> {frames[i].seen[j] : j \in DOMAIN frames[i].seen},
         n |-> IF frames[i].kind = "object" THEN 0
               ELSE frames[i].n + Len(frames[i].at),
         at |-> frames[i].at]]

\* The engine keeps the contract of Callbacks: despite collisions in the cache
\* and other transformers in it, reused frames and dropped members, every
\* callback goes to the hook that Via, and only Via, gave the subtree to; the
\* end of a container to whoever entered it; with the place it is about; and a
\* key of a container is reported as the policy says (onKeyDone, apply,
\* pushFrame, closeContainer, hookAt).
Contract == INSTANCE Callbacks WITH
    open <- Open, main <- proto, refuse <- PolicyBails,
    once <- policy[2] = "first", over <- dead \/ rootDone
KeepsContract == Contract!Spec
=============================================================================
