---------------------------- MODULE KeyboardRing ----------------------------
(***************************************************************************)
(* The scancode ring of src/drivers/keyboard.c, shared by the IRQ 1        *)
(* handler and by the game loop.                                           *)
(*                                                                         *)
(* The handler runs through an interrupt gate (IF = 0, one CPU), so a whole *)
(* call of keyboard_handler is one action.  keyboard_pop_scancode runs with *)
(* interrupts enabled and can be interrupted between any two of its memory *)
(* accesses.  head and tail are volatile, keyboard_buffer is not: the      *)
(* compiler may read the slot before or after it stores the new tail, and  *)
(* both orders are modelled (PopRead then PopAdvance, or PopAdvanceFirst    *)
(* then PopReadLate).                                                      *)
(***************************************************************************)
EXTENDS Naturals, Sequences

CONSTANTS
    Size,         \* KEYBOARD_BUFFER_SIZE
    Scancodes,    \* the bytes the keyboard may send
    MaxAccepted,  \* bound on the scancodes stored in a behaviour
    MaxDropped    \* bound on the scancodes dropped in a behaviour

ASSUME SizeAssumption == Size \in Nat \ {0}
ASSUME ScancodesAssumption == Scancodes \subseteq 0..255
ASSUME BoundsAssumption == MaxAccepted \in Nat /\ MaxDropped \in Nat

Released(c) == c >= 128
KeyOf(c) == IF Released(c) THEN c - 128 ELSE c
Keys == {KeyOf(c) : c \in Scancodes}

Slots == 0..Size - 1
Succ(i) == (i + 1) % Size

NoCode == 256   \* *code before the pop has read the slot

VARIABLES
    key_states,       \* the last thing heard of each key: 1 pressed, 0 not
    keyboard_buffer,
    keyboard_head,
    keyboard_tail,
    pop,              \* where keyboard_pop_scancode is
    code,             \* *code of the pop under way
    slot,             \* the index of the slot a late read will use
    accepted,         \* history: the scancodes stored, in order
    popped,           \* history: the scancodes returned, in order
    dropped           \* history: how many scancodes found the ring full

ringVars == <<keyboard_buffer, keyboard_head, keyboard_tail>>
popVars == <<pop, code, slot>>
vars == <<key_states, ringVars, popVars, accepted, popped, dropped>>

\* What keyboard_init leaves behind; the buffer is zeroed with the .bss.
Init ==
    /\ key_states = [k \in Keys |-> 0]
    /\ keyboard_buffer = [i \in Slots |-> 0]
    /\ keyboard_head = 0
    /\ keyboard_tail = 0
    /\ pop = "idle"
    /\ code = NoCode
    /\ slot = 0
    /\ accepted = <<>>
    /\ popped = <<>>
    /\ dropped = 0

-----------------------------------------------------------------------------
(* The interrupt handler.                                                  *)

NoteKeyState(c) ==
    key_states' = [key_states EXCEPT ![KeyOf(c)] = IF Released(c) THEN 0 ELSE 1]

\* Mutants: no test at all; one slot wasted.
NeverFull == FALSE
FullTooSoon == Succ(Succ(keyboard_head)) = keyboard_tail

Full == Succ(keyboard_head) = keyboard_tail

Push(c) ==
    /\ ~Full
    /\ Len(accepted) < MaxAccepted
    /\ keyboard_buffer' = [keyboard_buffer EXCEPT ![keyboard_head] = c]
    /\ keyboard_head' = Succ(keyboard_head)
    /\ accepted' = Append(accepted, c)
    /\ UNCHANGED <<keyboard_tail, dropped>>

\* Mutant: the handler makes room by moving the tail, which is the pop's.
DropOldest ==
    /\ Full
    /\ dropped < MaxDropped
    /\ dropped' = dropped + 1
    /\ keyboard_tail' = Succ(keyboard_tail)
    /\ UNCHANGED <<keyboard_buffer, keyboard_head, accepted>>

Drop ==
    /\ Full
    /\ dropped < MaxDropped
    /\ dropped' = dropped + 1
    /\ UNCHANGED <<ringVars, accepted>>

keyboard_handler(c) ==
    /\ NoteKeyState(c)
    /\ Push(c) \/ Drop
    /\ UNCHANGED <<popVars, popped>>

-----------------------------------------------------------------------------
(* keyboard_pop_scancode, one memory access at a time.                     *)

EmptyUnwrapped == keyboard_head <= keyboard_tail   \* mutant

Empty == keyboard_head = keyboard_tail

\* Returns 0 at once.
PopEmpty ==
    /\ pop = "idle"
    /\ Empty
    /\ UNCHANGED vars

PopNonEmpty ==
    /\ pop = "idle"
    /\ ~Empty
    /\ pop' = "nonempty"
    /\ UNCHANGED <<key_states, ringVars, code, slot, accepted, popped, dropped>>

PopRead ==
    /\ pop = "nonempty"
    /\ code' = keyboard_buffer[keyboard_tail]
    /\ pop' = "read"
    /\ UNCHANGED <<key_states, ringVars, slot, accepted, popped, dropped>>

PopAdvance ==
    /\ pop = "read"
    /\ keyboard_tail' = Succ(keyboard_tail)
    /\ popped' = Append(popped, code)
    /\ code' = NoCode
    /\ pop' = "idle"
    /\ UNCHANGED <<key_states, keyboard_buffer, keyboard_head, slot,
                   accepted, dropped>>

PopAdvanceFirst ==
    /\ pop = "nonempty"
    /\ slot' = keyboard_tail
    /\ keyboard_tail' = Succ(keyboard_tail)
    /\ pop' = "advanced"
    /\ UNCHANGED <<key_states, keyboard_buffer, keyboard_head, code,
                   accepted, popped, dropped>>

\* Mutant: the late read uses the tail instead of the index it had.
PopReadAtTail ==
    /\ pop = "advanced"
    /\ popped' = Append(popped, keyboard_buffer[keyboard_tail])
    /\ pop' = "idle"
    /\ UNCHANGED <<key_states, ringVars, code, slot, accepted, dropped>>

PopReadLate ==
    /\ pop = "advanced"
    /\ popped' = Append(popped, keyboard_buffer[slot])
    /\ pop' = "idle"
    /\ UNCHANGED <<key_states, ringVars, code, slot, accepted, dropped>>

keyboard_pop_scancode ==
    \/ PopEmpty
    \/ PopNonEmpty
    \/ PopRead
    \/ PopAdvance
    \/ PopAdvanceFirst
    \/ PopReadLate

-----------------------------------------------------------------------------
Next ==
    \/ \E c \in Scancodes : keyboard_handler(c)
    \/ keyboard_pop_scancode

Spec == Init /\ [][Next]_vars

\* The game loop calls the pop again and again; the keyboard owes nothing.
Fairness ==
    /\ WF_vars(PopNonEmpty)
    /\ WF_vars(PopRead \/ PopAdvanceFirst)
    /\ WF_vars(PopAdvance)
    /\ WF_vars(PopReadLate)

FairSpec == Spec /\ Fairness

-----------------------------------------------------------------------------
(* Properties.                                                             *)

\* Indices stay inside the ring, key states are bits, and every value returned
\* fits the byte it is returned in.
TypeOK ==
    /\ key_states \in [Keys -> {0, 1}]
    /\ keyboard_buffer \in [Slots -> 0..255]
    /\ keyboard_head \in Slots
    /\ keyboard_tail \in Slots
    /\ pop \in {"idle", "nonempty", "read", "advanced"}
    /\ code \in 0..NoCode
    /\ slot \in Slots
    /\ accepted \in Seq(Scancodes)
    /\ popped \in Seq(0..NoCode)
    /\ dropped \in 0..MaxDropped

\* The scancodes the game has taken out of the ring, the one whose slot a
\* late read has still to fetch included: the tail has moved past it.
Consumed ==
    IF pop = "advanced" THEN Append(popped, keyboard_buffer[slot]) ELSE popped

Waiting == Len(accepted) - Len(Consumed)

\* The slot of the i-th waiting scancode, counted from the tail.
SlotAt(i) ==
    IF keyboard_tail + i < Size THEN keyboard_tail + i
                                ELSE keyboard_tail + i - Size

\* What keyboard_pop_scancode returns comes out in the order in which it was
\* stored, none twice and none skipped, whichever way handler and pop
\* interleave and whichever way the compiler ordered the pop.
FifoOrder ==
    /\ Len(Consumed) <= Len(accepted)
    /\ \A i \in 1..Len(Consumed) : Consumed[i] = accepted[i]

\* The ring holds exactly the scancodes stored and not yet taken: they lie in
\* the slots from tail to head, and one slot at least stays free.
RingHoldsWaiting ==
    /\ Waiting \in 0..Size - 1
    /\ keyboard_head = SlotAt(Waiting)
    /\ \A i \in 0..Waiting - 1 :
          keyboard_buffer[SlotAt(i)] = accepted[Len(Consumed) + 1 + i]

\* What the pop has read or decided stays true until it acts on it, although
\* the handler runs in between: the ring it found nonempty is still nonempty,
\* the value it read is still the oldest, and the slot it gave up before
\* reading it has not been refilled.
PopNotStale ==
    /\ pop \in {"nonempty", "read"} => keyboard_head # keyboard_tail
    /\ pop = "read" => code = keyboard_buffer[keyboard_tail]
    /\ pop = "advanced" =>
          /\ Succ(slot) = keyboard_tail
          /\ keyboard_buffer[slot] = accepted[Len(popped) + 1]

\* No scancode is lost in the ring: what was stored is returned in the end.
EveryScancodeReturned ==
    \A n \in 1..MaxAccepted : Len(accepted) >= n ~> Len(popped) >= n

\* The ring is a lossy FIFO with one slot less than its size: a scancode is
\* dropped when Size - 1 are waiting and never before.
Fifo == INSTANCE LossyFifo WITH
            Items <- Scancodes,
            Capacity <- Size - 1,
            sent <- accepted,
            got <- Consumed,
            discarded <- dropped

FifoSpec == Fifo!Spec
=============================================================================
