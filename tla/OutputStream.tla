---------------------------- MODULE OutputStream ----------------------------
(***************************************************************************)
(* What a transformer promises about its output, whatever it does to carry *)
(* the bytes there: the units handed over are, in order and without        *)
(* repetition, the units the protocol asked for; none leaves before the    *)
(* commit point; and Finish hands over all of them.                        *)
(***************************************************************************)
EXTENDS Integers, Sequences

VARIABLES want, sent, committed, dead, finished

vars == <<want, sent, committed, dead, finished>>

IsPrefix(s, t) == Len(s) <= Len(t) /\ s = SubSeq(t, 1, Len(s))

Init ==
    /\ want = <<>> /\ sent = <<>>
    /\ ~committed /\ ~dead /\ ~finished

Next ==
    /\ ~dead /\ ~finished
    /\ IsPrefix(want, want')
    /\ IsPrefix(sent, sent') /\ IsPrefix(sent', want')
    /\ committed => committed'
    /\ sent' # sent => committed'
    /\ finished' => ~dead' /\ sent' = want'

Spec == Init /\ [][Next]_vars
=============================================================================
