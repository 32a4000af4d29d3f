----------------------------- MODULE GameInput -----------------------------
(***************************************************************************)
(* From the keyboard to the game: the main loop of src/kernel_main.c drains *)
(* the scancode ring, translates each scancode and posts an event to the   *)
(* engine; doom_update then runs the tics that are due, and a tic hands    *)
(* the queued events to the responders, unless the screen is wiping.       *)
(*                                                                         *)
(* IRQ 1 may arrive between any two steps.  Interrupts are enabled before   *)
(* doom_init, and nothing drains the ring until the loop starts.           *)
(***************************************************************************)
EXTENDS KeyboardRing, Keymap

CONSTANTS
    MaxEvents,   \* MAXEVENTS, the size of the engine's event ring
    MaxBacklog   \* how many stored scancodes the engine may be behind

\* D_PostEvent does not check for room.  4096 slots are two minutes of
\* autorepeat, a wipe lasts about a second.
ASSUME EventsAssumption ==
    /\ MaxEvents \in Nat \ {0}
    /\ MaxBacklog \in 0..MaxEvents - 1

VARIABLES
    loop,          \* "init", "drain", "dispatch" or "update"
    events,        \* the engine's event ring
    eventhead,
    eventtail,
    wiping,        \* is_wiping_screen
    demo,          \* the title loop is on: a demo, a page or the tic between them
    gamekeydown,
    handled,       \* history: the events handed to the responders, in order
    lost           \* history: was the last scancode of this key dropped?

engineVars == <<events, eventhead, eventtail, wiping, demo, gamekeydown, handled>>
inputVars == <<vars, loop, engineVars, lost>>

EventSlots == 0..MaxEvents - 1
GameKeys == {translate_scancode(k) : k \in Keys} \ {UNKNOWN}
NoEvent == [type |-> "none", key |-> UNKNOWN]

InputInit ==
    /\ Init
    /\ loop = "init"
    /\ events = [i \in EventSlots |-> NoEvent]
    /\ eventhead = 0
    /\ eventtail = 0
    /\ wiping = FALSE
    /\ demo = TRUE
    /\ gamekeydown = [k \in GameKeys |-> FALSE]
    /\ handled = <<>>
    /\ lost = [k \in Keys |-> FALSE]

\* Events posted and not yet handed to the responders.
PendingCount == (MaxEvents + eventhead - eventtail) % MaxEvents
Pending ==
    [i \in 1..PendingCount |-> events[(eventtail + i - 1) % MaxEvents]]

\* Scancodes whose event has been posted.
Dispatched ==
    IF loop = "dispatch" THEN SubSeq(popped, 1, Len(popped) - 1) ELSE popped

Backlog == Len(accepted) - Len(Dispatched) + PendingCount

-----------------------------------------------------------------------------
(* The interrupt, and the loop up to the call of doom_update.              *)

Interrupt(c) ==
    /\ keyboard_handler(c)
    /\ Full \/ Backlog < MaxBacklog
    /\ lost' = [lost EXCEPT ![KeyOf(c)] = Full]
    /\ UNCHANGED <<loop, engineVars>>

DoomInitReturns ==
    /\ loop = "init"
    /\ loop' = "drain"
    /\ UNCHANGED <<vars, engineVars, lost>>

\* keyboard_pop_scancode(&raw_code), until it returns.
DrainStep ==
    /\ loop = "drain"
    /\ PopNonEmpty \/ PopRead \/ PopAdvanceFirst
    /\ UNCHANGED <<loop, engineVars, lost>>

DrainReturnsCode ==
    /\ loop = "drain"
    /\ PopAdvance \/ PopReadLate
    /\ loop' = "dispatch"
    /\ UNCHANGED <<engineVars, lost>>

DrainReturnsEmpty ==
    /\ loop = "drain"
    /\ PopEmpty
    /\ loop' = "update"
    /\ UNCHANGED <<engineVars, lost>>

\* The event a scancode stands for: doom_key_up or doom_key_down of its key.
EventOf(c) ==
    [type |-> IF Released(c) THEN "keyup" ELSE "keydown",
     key  |-> translate_scancode(KeyOf(c))]

\* Mutant: the event goes into the slot after the head.
PostAfterMove(ev) ==
    /\ eventhead' = (eventhead + 1) % MaxEvents
    /\ events' = [events EXCEPT ![eventhead'] = ev]
    /\ UNCHANGED <<eventtail, wiping, demo, gamekeydown, handled>>

D_PostEvent(ev) ==
    /\ events' = [events EXCEPT ![eventhead] = ev]
    /\ eventhead' = (eventhead + 1) % MaxEvents
    /\ UNCHANGED <<eventtail, wiping, demo, gamekeydown, handled>>

Dispatch ==
    /\ loop = "dispatch"
    /\ loop' = "drain"
    /\ LET ev == EventOf(popped[Len(popped)])
       IN  IF ev.key # UNKNOWN THEN D_PostEvent(ev) ELSE UNCHANGED engineVars
    /\ UNCHANGED <<vars, lost>>

-----------------------------------------------------------------------------
(* doom_update: for each tic that is due, a step of the wipe or a tic.      *)

UpdateReturns ==
    /\ loop = "update"
    /\ loop' = "drain"
    /\ UNCHANGED <<vars, engineVars, lost>>

\* Mutant: the melt never reports that it is done.
WipeNeverEnds ==
    /\ loop = "update"
    /\ wiping
    /\ UNCHANGED <<vars, loop, engineVars, lost>>

D_UpdateWipe ==
    /\ loop = "update"
    /\ wiping
    /\ wiping' \in BOOLEAN
    /\ UNCHANGED <<vars, loop, events, eventhead, eventtail, demo, gamekeydown,
                   handled, lost>>

\* D_DoomLoop, which reads the events at the start of each tic.  (NetUpdate
\* does so again while the frame is drawn, but nothing posts events meanwhile.
\* The early return of D_ProcessEvents is for a commercial IWAD; the kernel only
\* ever presents the shareware one.)
TicReadsInput ==
    /\ loop = "update"
    /\ ~wiping
    /\ loop' = "events"
    /\ UNCHANGED <<vars, engineVars, lost>>

\* Mutant: an open menu eats key ups, too.
MenuEatsKeyUps(ev) ==
    \/ UNCHANGED gamekeydown
    \/ gamekeydown' = [gamekeydown EXCEPT ![ev.key] = (ev.type = "keydown")]

\* G_Responder notes the event, unless another responder ate it: a menu, the
\* status bar or the automap eat key downs only, the title loop ignores all
\* but some.
Responders(ev) ==
    \/ /\ ev.type = "keydown" \/ demo
       /\ UNCHANGED gamekeydown
    \/ gamekeydown' = [gamekeydown EXCEPT ![ev.key] = (ev.type = "keydown")]

D_ProcessEvents ==
    /\ loop = "events"
    /\ IF eventtail # eventhead
       THEN /\ Responders(events[eventtail])
            /\ handled' = Append(handled, events[eventtail])
            /\ eventtail' = (eventtail + 1) % MaxEvents
            /\ UNCHANGED loop
       ELSE /\ loop' = "tic"
            /\ UNCHANGED <<gamekeydown, handled, eventtail>>
    /\ UNCHANGED <<vars, events, eventhead, wiping, demo, lost>>

\* G_Ticker may load a level, which forgets the keys, or go back to the title;
\* D_Display starts a wipe when the screen changes.
TicEnds ==
    /\ loop = "tic"
    /\ loop' = "update"
    /\ \/ UNCHANGED <<demo, gamekeydown>>
       \/ /\ demo' \in BOOLEAN
          /\ gamekeydown' = [k \in GameKeys |-> FALSE]
       \/ /\ demo' = TRUE
          /\ UNCHANGED gamekeydown
    /\ wiping' \in BOOLEAN
    /\ UNCHANGED <<vars, events, eventhead, eventtail, handled, lost>>

-----------------------------------------------------------------------------
DrainRing == DrainStep \/ DrainReturnsCode \/ DrainReturnsEmpty

doom_update ==
    \/ UpdateReturns
    \/ D_UpdateWipe
    \/ TicReadsInput
    \/ D_ProcessEvents
    \/ TicEnds

MainStep ==
    \/ DoomInitReturns
    \/ DrainRing
    \/ Dispatch
    \/ doom_update

InputNext ==
    \/ \E c \in Scancodes : Interrupt(c)
    \/ MainStep

InputSpec == InputInit /\ [][InputNext]_inputVars

\* The main loop never stops, a tic and a wipe end, and now and then a tic is
\* due and finds the screen not wiping, because the time stamp counter goes on.
InputFairness ==
    /\ WF_inputVars(MainStep)
    /\ SF_inputVars(D_UpdateWipe /\ ~wiping')
    /\ SF_inputVars(TicReadsInput)
    /\ SF_inputVars(TicEnds)
    /\ SF_inputVars(UpdateReturns)

InputFairSpec == InputSpec /\ InputFairness

-----------------------------------------------------------------------------
(* Properties.                                                             *)

\* The events a run of scancodes stands for; unknown keys stand for none.
Known(c) == EventOf(c).key # UNKNOWN
WithEvent(evs, c) == IF Known(c) THEN Append(evs, EventOf(c)) ELSE evs
EventsOf(codes) ==
    LET first[n \in 0..Len(codes)] ==
            IF n = 0 THEN <<>> ELSE WithEvent(first[n - 1], codes[n])
    IN  first[Len(codes)]

\* Two rings and a wipe lie between the keyboard and the responders, yet they
\* are given the events of exactly the scancodes stored, in that order.
EventsFollowScancodes == handled \o Pending = EventsOf(Dispatched)

\* Nothing the keyboard said is still under way to the game.
Caught ==
    /\ keyboard_head = keyboard_tail
    /\ pop = "idle"
    /\ loop # "dispatch"
    /\ eventtail = eventhead

\* No stuck keys: when the game has caught up, a key it holds to be down is
\* down, unless the ring was full when the key was released.
NoStuckKey ==
    Caught /\ ~demo =>
        \A key \in GameKeys : gamekeydown[key] =>
            \E k \in ScancodesOf(key) \cap Keys : key_states[k] = 1 \/ lost[k]

\* Every scancode the ring has taken reaches the responders (unknown ones get
\* as far as the dispatch), however often the screen wipes.
EveryEventHandled ==
    \A n \in 1..MaxAccepted :
        Len(accepted) >= n ~>
            Len(accepted) >= n /\ Len(handled) >= Len(EventsOf(SubSeq(accepted, 1, n)))
=============================================================================
