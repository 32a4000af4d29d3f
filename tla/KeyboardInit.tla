---------------------------- MODULE KeyboardInit ----------------------------
(***************************************************************************)
(* keyboard_init of src/drivers/keyboard.c: the conversation with the 8042  *)
(* controller and, through it, with the keyboard, on which somebody may     *)
(* type meanwhile.  Interrupts are off, the PICs are set up already.        *)
(* A byte is the set of its bits that matter: "irq" (bit 0), "off" (bit 4,  *)
(* the keyboard's clock is stopped) and "xlat" (bit 6, scancodes are        *)
(* translated to set 1).                                                   *)
(***************************************************************************)
EXTENDS Naturals, Sequences

CONSTANTS
    KeyBits,        \* the bits of the scancodes that may be typed
    MaxTyped        \* bound: keys typed in a behaviour

Bits == {"irq", "off", "xlat"}

ASSUME KbdAssumption ==
    /\ KeyBits \subseteq SUBSET Bits
    /\ MaxTyped \in Nat

VARIABLES
    kbd,            \* which line of keyboard_init comes next
    cfg,            \* the local variable status: the configuration to write
    obf,            \* output buffer: empty, or the byte in it
    ibf,            \* input buffer: empty, or what was written last
    ccb,            \* the controller's configuration byte
    awaiting,       \* the controller waits for the byte that follows 0x60
    reply,          \* answer to 0x20 that the controller has yet to deliver
    sending,        \* bytes the keyboard has yet to deliver
    scanning,       \* the keyboard reports keys
    irr,            \* IRQ 1 is latched in the PIC
    typed,          \* keys typed so far
    biosConfig,     \* history: the configuration byte the BIOS left
    raced,          \* history: a key came between drain and reply
    handled         \* history: origins of the bytes keyboard_handler has read

kbdVars == <<kbd, cfg, obf, ibf, ccb, awaiting, reply, sending, scanning, irr,
             typed, biosConfig, raced, handled>>

Origins == {"bios", "reply", "key", "ack"}
Bytes == [from : Origins, bits : SUBSET Bits]
ScanOn == {"off", "xlat"}           \* the bits of 0xF4
AckBits == {"off", "xlat"}          \* and of 0xFA

\* The keyboard's line to the PIC, and the latch that follows it: an edge sets
\* it, a line that falls before it was taken clears it.
Line(buffer, config) == buffer # <<>> /\ "irq" \in config
Latch(buffer, config) == irr' = (Line(buffer, config) /\ (irr \/ ~Line(obf, ccb)))

KbdInit ==
    /\ kbd = "off"
    /\ cfg = {} /\ biosConfig = {} /\ ccb = {}
    /\ obf = <<>> /\ ibf = <<>> /\ reply = <<>> /\ sending = <<>>
    /\ irr = FALSE /\ awaiting = FALSE /\ scanning = FALSE
    /\ typed = 0
    /\ raced = FALSE
    /\ handled = {}

-----------------------------------------------------------------------------
(* keyboard_init.                                                          *)

\* What the BIOS left, when the kernel first meets it: any configuration, perhaps a
\* byte that nobody read, whose request the PIC may have forgotten when it was set up.
KbdFound ==
    /\ kbd = "off"
    /\ kbd' = "drain"
    /\ biosConfig' \in SUBSET Bits
    /\ ccb' = biosConfig'
    /\ obf' \in {<<>>, <<[from |-> "bios", bits |-> {}]>>}
    /\ irr' \in {FALSE, Line(obf', ccb')}
    /\ scanning' \in BOOLEAN
    /\ UNCHANGED <<cfg, ibf, awaiting, reply, sending, typed, raced, handled>>

deviceVars == <<ccb, awaiting, reply, sending, scanning, typed, biosConfig, raced>>

Take == obf' = <<>> /\ Latch(<<>>, ccb)

DrainByte ==
    /\ kbd = "drain"
    /\ obf # <<>>
    /\ Take
    /\ UNCHANGED <<kbd, cfg, ibf, handled, deviceVars>>

DrainSkipped == TRUE    \* mutant: leftovers are not read
DrainEnds == obf = <<>>

Drained ==
    /\ kbd = "drain"
    /\ DrainEnds
    /\ kbd' = "enable"
    /\ UNCHANGED <<cfg, obf, ibf, irr, handled, deviceVars>>

\* A write that does not wait for the input buffer replaces what is in it.
Write(at, item, to) ==
    /\ kbd = at
    /\ ibf' = item
    /\ kbd' = to
    /\ UNCHANGED <<cfg, obf, irr, handled, deviceVars>>

EnablePort == Write("enable", <<"enable", {}>>, "ask")
AskConfig == Write("ask", <<"read", {}>>, "reply")

\* Mutant: the configuration is set, not changed.
ConfigSet(byte) == {"irq"}

ConfigFrom(byte) == (byte.bits \cup {"irq"}) \ {"off"}

ReadReply ==
    /\ kbd = "reply"
    /\ obf # <<>>
    /\ cfg' = ConfigFrom(obf[1])
    /\ Take
    /\ kbd' = "write"
    /\ UNCHANGED <<ibf, handled, deviceVars>>

WriteCommand == Write("write", <<"write", {}>>, "param")
\* Mutant: the second byte does not wait for the first to be taken.
WriteConfigAtOnce == Write("param", <<"data", cfg>>, "scan")
WriteConfig == ibf = <<>> /\ Write("param", <<"data", cfg>>, "scan")
EnableScanning == ibf = <<>> /\ Write("scan", <<"data", ScanOn>>, "ack")

\* One byte is read if it comes within 1000 polls, whatever it is.
ReadAck ==
    /\ kbd = "ack"
    /\ obf # <<>>
    /\ Take
    /\ kbd' = "done"
    /\ UNCHANGED <<cfg, ibf, handled, deviceVars>>

NoAck ==
    /\ kbd = "ack"
    /\ obf = <<>>
    /\ kbd' = "done"
    /\ UNCHANGED <<cfg, obf, ibf, irr, handled, deviceVars>>

keyboard_init ==
    \/ KbdFound
    \/ DrainByte \/ Drained
    \/ EnablePort \/ AskConfig \/ ReadReply
    \/ WriteCommand \/ WriteConfig \/ EnableScanning
    \/ ReadAck \/ NoAck

\* IRQ 1, once interrupts are on.
HandlerReads ==
    /\ kbd = "done"
    /\ irr
    /\ handled' = handled \cup {obf[1].from}
    /\ Take
    /\ UNCHANGED <<kbd, cfg, ibf, deviceVars>>

-----------------------------------------------------------------------------
(* The controller and the keyboard.                                        *)

hostVars == <<kbd, cfg, typed, biosConfig, handled>>

TakeCommand ==
    /\ ibf # <<>> /\ ibf[1] # "data"
    /\ ibf' = <<>>
    /\ ccb' = IF ibf[1] = "enable" THEN ccb \ {"off"} ELSE ccb
    /\ reply' = IF ibf[1] = "read" THEN <<[from |-> "reply", bits |-> ccb]>> ELSE reply
    /\ awaiting' = (ibf[1] = "write" \/ awaiting)
    /\ UNCHANGED <<obf, sending, scanning, irr, raced, hostVars>>

\* A data byte is the parameter of 0x60, or goes to the keyboard, which answers
\* 0xF4 with 0xFA.
TakeData ==
    /\ ibf # <<>> /\ ibf[1] = "data"
    /\ ibf' = <<>>
    /\ IF awaiting
       THEN /\ ccb' = ibf[2]
            /\ awaiting' = FALSE
            /\ UNCHANGED <<sending, scanning>>
       ELSE /\ scanning' = TRUE
            /\ sending' = Append(sending, [from |-> "ack", bits |-> AckBits])
            /\ UNCHANGED <<ccb, awaiting>>
    /\ Latch(obf, ccb')
    /\ UNCHANGED <<obf, reply, raced, hostVars>>

DeliverReply ==
    /\ reply # <<>> /\ obf = <<>>
    /\ obf' = reply
    /\ reply' = <<>>
    /\ Latch(obf', ccb)
    /\ UNCHANGED <<ibf, ccb, awaiting, sending, scanning, raced, hostVars>>

DeliverFromKeyboard ==
    /\ sending # <<>> /\ obf = <<>> /\ reply = <<>>
    /\ "off" \notin ccb
    /\ obf' = <<Head(sending)>>
    /\ sending' = Tail(sending)
    /\ raced' = (raced \/ kbd \in {"enable", "ask", "reply"})
    /\ Latch(obf', ccb)
    /\ UNCHANGED <<ibf, ccb, awaiting, reply, scanning, hostVars>>

Type ==
    /\ scanning
    /\ typed < MaxTyped
    /\ typed' = typed + 1
    /\ \E bits \in KeyBits : sending' = Append(sending, [from |-> "key", bits |-> bits])
    /\ UNCHANGED <<kbd, cfg, obf, ibf, ccb, awaiting, reply, scanning, irr,
                   biosConfig, raced, handled>>

Controller == TakeCommand \/ TakeData \/ DeliverReply \/ DeliverFromKeyboard

KbdNext == keyboard_init \/ HandlerReads \/ Controller \/ Type

-----------------------------------------------------------------------------
(* Properties.                                                             *)

\* Requests are edges: once the leftovers are drained, a byte in the output
\* buffer of a controller that may interrupt has its request latched, so that no
\* byte waits for an interrupt that never comes.  And whatever was read for the
\* configuration byte, even a scancode, and whether or not 0xAE was overwritten
\* before the controller saw it: when the function returns the keyboard is clocked
\* and interrupts.
KeyboardReady ==
    /\ kbd \notin {"off", "drain"} /\ Line(obf, ccb) => irr
    /\ kbd = "done" => "irq" \in ccb /\ "off" \notin ccb

\* "3. Read the controller configuration byte" (keyboard.c:71): what is written
\* back is the BIOS's configuration, but for the two bits the driver sets; above
\* all, scancodes go on being translated or not.
ConfigKept ==
    kbd \notin {"off", "drain", "enable", "ask", "reply"} => cfg \cap {"xlat"} = biosConfig \cap {"xlat"}

\* It is, and no answer of the controller is handed to the game as a scancode,
\* when no key is pressed between the drain and the reply.
QuietStartIsClean == raced \/ (ConfigKept /\ "reply" \notin handled)

=============================================================================
