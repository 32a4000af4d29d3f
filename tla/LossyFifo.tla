----------------------------- MODULE LossyFifo -----------------------------
(***************************************************************************)
(* What src/drivers/keyboard.c promises to the game loop: a bounded FIFO   *)
(* of scancodes.  An offered item is appended while fewer than Capacity    *)
(* items are waiting and is discarded otherwise; items are taken in the    *)
(* order in which they were accepted, none twice and none skipped.         *)
(***************************************************************************)
EXTENDS Naturals, Sequences

CONSTANTS
    Items,      \* what may be offered
    Capacity    \* how many accepted items may wait to be taken

VARIABLES
    sent,       \* every accepted item, in order of acceptance
    got,        \* every item taken, in order of taking
    discarded   \* how many items were offered while the FIFO was full

vars == <<sent, got, discarded>>

Waiting == Len(sent) - Len(got)

Init ==
    /\ sent = <<>>
    /\ got = <<>>
    /\ discarded = 0

Accept(x) ==
    /\ Waiting < Capacity
    /\ sent' = Append(sent, x)
    /\ UNCHANGED <<got, discarded>>

Discard ==
    /\ Waiting = Capacity
    /\ discarded' = discarded + 1
    /\ UNCHANGED <<sent, got>>

Take ==
    /\ Len(got) < Len(sent)
    /\ got' = Append(got, sent[Len(got) + 1])
    /\ UNCHANGED <<sent, discarded>>

Next ==
    \/ \E x \in Items : Accept(x)
    \/ Discard
    \/ Take

Spec == Init /\ [][Next]_vars
=============================================================================
