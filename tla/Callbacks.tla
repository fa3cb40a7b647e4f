------------------------------ MODULE Callbacks ------------------------------
(***************************************************************************)
(* Who is told what about a document: the contract of the hooks, without   *)
(* the key cache, the reused frames and the path the engine keeps it with. *)
(*                                                                         *)
(* An open container knows the hook that receives what happens inside it   *)
(* and the hook that entered it, its own keys and the number of its        *)
(* elements so far, and the member being read (a key, or an index).        *)
(***************************************************************************)
EXTENDS Integers, Sequences

CONSTANTS Words, Hooks, None

VARIABLES
    main,   \* the protocol
    open,   \* the containers being read, the root first
    calls,  \* the callbacks of the last step: [to, what, place]
    refuse, \* a repeated key stops the transform
    once,   \* a repeated key is dropped
    over    \* nothing more will be reported

vars == <<main, open, calls, refuse, once, over>>

Container(owner, issuer) ==
    [owner |-> owner, issuer |-> issuer, keys |-> {}, n |-> 0, at |-> <<>>]

Top == open[Len(open)]
Outer == SubSeq(open, 1, Len(open) - 1)
Place(containers) ==
    [i \in 1 .. Len(containers) |-> containers[i].at[1]]
Told(what, containers) ==
    <<[to |-> Top.owner, what |-> what, place |-> Place(containers)]>>

\* The member read at the innermost container, or none.
At(containers, member) == [containers EXCEPT ![Len(containers)].at = member]

\* What happens to the value that is read at here: it is over, its inside is
\* reported to the hook an Enter names or else to the hook of the container it
\* is in, or the transform stops.
Valued(here) ==
    \/ open' = At(here, <<>>)
    \/ over' /\ open' = here
    \/ \E via \in Hooks \cup {None} :
          LET owner == IF via = None THEN Top.owner ELSE via
          IN  open' = Append(here, Container(owner, Top.owner))

Begin ==
    /\ open = <<>>
    /\ open' = <<Container(main, main)>> /\ calls' = <<>> /\ ~over'

\* Under either policy a key of a container is reported once: a repetition
\* stops the transform or goes unreported.
Key(w) ==
    LET here == At(open, <<w>>)
        repeated == w \in Top.keys
        listed == IF refuse \/ once THEN Top.keys \cup {w} ELSE {}
    IN  /\ open # <<>> /\ Top.at = <<>>
        /\ \/ repeated /\ (refuse \/ once) /\ open' = here /\ calls' = <<>>
           \/ /\ ~(repeated /\ (refuse \/ once))
              /\ open' = [here EXCEPT ![Len(open)].keys = listed]
              /\ calls' = Told("OnKey", here)
        /\ refuse /\ repeated => over'

\* At most once each, in this order: the start of the value when its kind was
\* asked for, and the value when it was captured.
Reported(here) ==
    { Told("OnStart", here), Told("OnValue", here), <<>>,
      Told("OnStart", here) \o Told("OnValue", here) }

Elem ==
    LET here == At([open EXCEPT ![Len(open)].n = @ + 1], <<Top.n>>)
    IN  /\ open # <<>> /\ Top.at = <<>>
        /\ calls' \in { Told("OnElem", here) \o r : r \in Reported(here) }
        /\ Valued(here)

Value ==
    /\ open # <<>> /\ Top.at # <<>>
    /\ calls' \in Reported(open)
    /\ Valued(open)

\* The end of a container is told to whoever entered it.
Leave ==
    /\ open # <<>> /\ Top.at = <<>>
    /\ calls' = <<[to |-> Top.issuer, what |-> "OnLeave",
                   place |-> Place(Outer)]>>
    /\ \/ over' /\ open' = open
       \/ Len(open) = 1 /\ over' /\ open' = <<>>
       \/ Len(open) > 1 /\ open' = At(Outer, <<>>)

\* Nothing is reported: a malformed key, or nothing about this document.
Silent == calls' = <<>> /\ open' = open

Next ==
    /\ ~over
    /\ \/ Begin \/ Elem \/ Value \/ Leave \/ Silent
       \/ \E w \in Words : Key(w)
    /\ UNCHANGED <<main, refuse, once>>

Spec ==
    /\ open = <<>> /\ calls = <<>> /\ ~over
    /\ refuse \in BOOLEAN /\ once \in BOOLEAN
    /\ [][Next]_vars
=============================================================================
