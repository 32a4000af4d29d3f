-------------------------------- MODULE Audio --------------------------------
(***************************************************************************)
(* The PC speaker (audio.c), one port access per step: counter 2 of the    *)
(* interval timer makes the square wave, and the two low bits of port 0x61 *)
(* let it through.  The kernel calls audio_init once and audio_beep twice; *)
(* any sequence of calls is taken.                                         *)
(***************************************************************************)
EXTENDS Integers, Sequences

CONSTANT Frequencies, Port61Values
ASSUME AudioAssumption == Frequencies \subseteq Nat /\ Port61Values \subseteq 0 .. 255

VARIABLES
    audioPc,    \* the routine's next step, "idle" between calls
    beeping,    \* audio_beep's delay is still to come
    divisor,
    pit,        \* external: counter 2 of the timer
    port61,     \* external: the latch behind port 0x61
    asked       \* the frequency last asked for, 0 for silence, -1 before any call

audioVars == <<audioPc, beeping, divisor, pit, port61, asked>>

PIT_BASE_FREQUENCY == 1193182

(* The timer: a control byte chooses counter, access and mode; of two data *)
(* bytes the first is the low one.                                         *)
Counter(v) == v \div 64
Access(v) == (v \div 16) % 4
Mode(v) == (v \div 2) % 8
Control(p, v) ==
    IF Counter(v) = 2 THEN [p EXCEPT !.access = Access(v), !.mode = Mode(v), !.low = <<>>] ELSE p
Data(p, v) ==
    IF p.low = <<>> THEN [p EXCEPT !.low = <<v>>]
    ELSE [p EXCEPT !.reload = p.low[1] + 256 * v, !.low = <<>>]

AudioInit ==
    /\ audioPc = "idle" /\ beeping = FALSE /\ divisor = 1
    /\ \E low \in {<<>>, <<7>>} :                \* whatever the BIOS left
          pit = [access |-> 3, mode |-> 3, low |-> low, reload |-> 0]
    /\ port61 \in Port61Values
    /\ asked = -1

-----------------------------------------------------------------------------
(* The division, and the two clamps that make it fit the counter.          *)
(*                                                                         *)
(* Mutant: the divisor is cut to 16 bits.                                  *)
Truncated(f) == (PIT_BASE_FREQUENCY \div f) % 65536
Divisor(f) ==
    LET d == PIT_BASE_FREQUENCY \div f
    IN  IF d > 65535 THEN 65535 ELSE IF d < 1 THEN 1 ELSE d

Play(f) ==
    IF f = 0
    THEN audioPc' = "stop" /\ asked' = 0 /\ UNCHANGED divisor
    ELSE audioPc' = "control" /\ asked' = f /\ divisor' = Divisor(f)

audio_play_tone ==
    /\ audioPc = "idle"
    /\ \E f \in Frequencies : Play(f)
    /\ beeping' = FALSE
    /\ UNCHANGED <<pit, port61>>

audio_beep ==
    /\ audioPc = "idle"
    /\ \E f \in Frequencies : Play(f)
    /\ beeping' = TRUE
    /\ UNCHANGED <<pit, port61>>

(* audio_init only stops the tone.                                         *)
audio_stop_tone ==
    /\ audioPc = "idle"
    /\ audioPc' = "stop" /\ asked' = 0 /\ beeping' = FALSE
    /\ UNCHANGED <<divisor, pit, port61>>

OutControl ==
    /\ audioPc = "control"
    /\ pit' = Control(pit, 182)                                     \* 0xB6
    /\ audioPc' = "low"
    /\ UNCHANGED <<beeping, divisor, port61, asked>>

OutLow ==
    /\ audioPc = "low"
    /\ pit' = Data(pit, divisor % 256)
    /\ audioPc' = "high"
    /\ UNCHANGED <<beeping, divisor, port61, asked>>

OutHigh ==
    /\ audioPc = "high"
    /\ pit' = Data(pit, (divisor \div 256) % 256)
    /\ audioPc' = "gate"
    /\ UNCHANGED <<beeping, divisor, port61, asked>>

LowBits(v) == v % 4

OpenGate ==
    /\ audioPc = "gate"
    /\ port61' = IF LowBits(port61) # 3 THEN port61 - LowBits(port61) + 3 ELSE port61
    /\ audioPc' = IF beeping THEN "delay" ELSE "idle"
    /\ UNCHANGED <<beeping, divisor, pit, asked>>

(* delay_ms: a loop that is only counted down.                             *)
delay_ms ==
    /\ audioPc = "delay"
    /\ audioPc' = "stop" /\ asked' = 0 /\ beeping' = FALSE
    /\ UNCHANGED <<divisor, pit, port61>>

(* A beep of frequency 0 stops the tone twice, with the delay between.     *)
CloseGate ==
    /\ audioPc = "stop"
    /\ port61' = port61 - LowBits(port61)
    /\ audioPc' = IF beeping THEN "delay" ELSE "idle"
    /\ UNCHANGED <<beeping, divisor, pit, asked>>

AudioNext ==
    \/ audio_play_tone \/ audio_beep \/ audio_stop_tone
    \/ OutControl \/ OutLow \/ OutHigh \/ OpenGate \/ delay_ms \/ CloseGate

-----------------------------------------------------------------------------
(* The reload value whose frequency is the nearest that is not below the   *)
(* one asked for, as far as sixteen bits go.                               *)
Tuned(d, f) ==
    IF f > PIT_BASE_FREQUENCY THEN d = 1
    ELSE /\ d * f <= PIT_BASE_FREQUENCY
         /\ d = 65535 \/ (d + 1) * f > PIT_BASE_FREQUENCY

(* Between calls, and while a beep lasts, the speaker sounds the frequency *)
(* last asked for, as a square wave with the whole reload value loaded,    *)
(* and is silent if none was; what else port 0x61 holds, the parity and    *)
(* I/O check enables, is never changed.                                    *)
SoundsAsAsked ==
    /\ audioPc \in {"idle", "delay"} =>
        /\ asked = 0 => LowBits(port61) # 3
        /\ asked > 0 => /\ LowBits(port61) = 3
                        /\ pit.low = <<>> /\ pit.access = 3 /\ pit.mode = 3
                        /\ Tuned(pit.reload, asked)
    /\ \E v \in Port61Values : port61 - LowBits(port61) = v - LowBits(v)

=============================================================================
