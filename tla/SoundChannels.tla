---------------------------- MODULE SoundChannels ----------------------------
(***************************************************************************)
(* The engine's sound channels (PureDOOM.h): each remembers the thing or   *)
(* sector its sound comes from, whose place S_UpdateSounds reads in        *)
(* every frame.  Things are removed, and levels freed, while their sounds  *)
(* play.  When a sound is over is left open, and so is what is audible.    *)
(***************************************************************************)
EXTENDS Integers, FiniteSets

CONSTANTS
    numChannels,        \* snd_channels, 3
    Origins,            \* memory in which things and sectors may lie
    Sfx, Priority       \* sounds, and sfxinfo->priority: the less the more important

Silent == "silent"
Nowhere == "nowhere"                    \* origin 0: the player's own ears

ASSUME SoundAssumption ==
    numChannels \in Nat \ {0} /\ Priority \in [Sfx -> Int] /\ Silent \notin Sfx

VARIABLES
    channels_s_sound,   \* sfxinfo, or Silent, and origin
    usefulness,         \* sfxinfo->usefulness
    alive               \* the things and sectors of the level

soundVars == <<channels_s_sound, usefulness, alive>>

Channel == 1 .. numChannels
Channels(c, u) == [channel |-> c, useful |-> u]
Sound == Channels(channels_s_sound, usefulness)
SoundIs(s) == channels_s_sound' = s.channel /\ usefulness' = s.useful

Busy(s) == {c \in Channel : s.channel[c].sfx # Silent}
PlayedBy(s, x) == {c \in Channel : s.channel[c].sfx = x}

SoundInit ==
    /\ channels_s_sound = [c \in Channel |-> [sfx |-> Silent, origin |-> Nowhere]]
    /\ usefulness = [x \in Sfx |-> -1]
    /\ alive = {}

-----------------------------------------------------------------------------
(* S_StopChannel, of several channels; a silent one is left alone.         *)
S_StopChannel(s, stop) ==
    Channels([c \in Channel |-> IF c \in stop THEN [s.channel[c] EXCEPT !.sfx = Silent]
                                ELSE s.channel[c]],
             [x \in Sfx |-> s.useful[x] - Cardinality(PlayedBy(s, x) \cap stop)])

Lowest(S) == IF S = {} THEN {} ELSE {CHOOSE c \in S : \A d \in S : c <= d}

(* The first channel that plays for this origin.                           *)
S_StopSound(s, origin) ==
    S_StopChannel(s, Lowest({c \in Busy(s) : s.channel[c].origin = origin}))

(* An open channel or the origin's own, whichever comes first; else the    *)
(* first that plays nothing more important; else none.                     *)
S_getChannel(s, origin, x) ==
    LET own  == {c \in Busy(s) : origin # Nowhere /\ s.channel[c].origin = origin}
        open == (Channel \ Busy(s)) \cup own
        less == {c \in Channel : s.channel[c].sfx # Silent
                                 /\ Priority[s.channel[c].sfx] >= Priority[x]}
    IN  IF open # {} THEN Lowest(open) ELSE Lowest(less)

Taken(s, c, origin, x) ==
    LET free == S_StopChannel(s, {c})
    IN  Channels([free.channel EXCEPT ![c] = [sfx |-> x, origin |-> origin]],
                 [free.useful EXCEPT ![x] = IF @ < 0 THEN 1 ELSE @ + 1])

(* Mutant: the origin's old sound is left to S_getChannel, which looks for *)
(* it among the channels.                                                  *)
StartedOver(s, origin, x) ==
    LET found == S_getChannel(s, origin, x)
    IN  IF found = {} THEN s ELSE Taken(s, CHOOSE c \in found : TRUE, origin, x)
StartedSound(s, origin, x) ==
    LET killed == S_StopSound(s, origin)
        found == S_getChannel(killed, origin, x)
    IN  IF found = {} THEN killed ELSE Taken(killed, CHOOSE c \in found : TRUE, origin, x)

(* S_StartSoundAtVolume; a sound that is not audible changes nothing.      *)
S_StartSound ==
    /\ \E origin \in alive \cup {Nowhere}, x \in Sfx : SoundIs(StartedSound(Sound, origin, x))
    /\ UNCHANGED alive

(* Every frame; channels whose sound is over, or too far away, are closed. *)
S_UpdateSounds ==
    /\ \E over \in SUBSET Busy(Sound) : SoundIs(S_StopChannel(Sound, over))
    /\ UNCHANGED alive

-----------------------------------------------------------------------------
P_SpawnMobj ==
    \E t \in Origins \ alive : alive' = alive \cup {t} /\ UNCHANGED <<channels_s_sound, usefulness>>

P_RemoveMobj ==
    \E t \in alive : alive' = alive \ {t} /\ SoundIs(S_StopSound(Sound, t))

(* P_SetupLevel calls S_Start before it frees the old level.               *)
SetupLevel ==
    alive' = {} /\ SoundIs(S_StopChannel(Sound, Busy(Sound)))

SoundNext ==
    S_StartSound \/ S_UpdateSounds \/ P_SpawnMobj \/ P_RemoveMobj \/ SetupLevel

SoundSpec == SoundInit /\ [][SoundNext]_soundVars

-----------------------------------------------------------------------------
(* Whatever a channel plays comes from nowhere or from something that is   *)
(* still there: P_RemoveMobj stops one channel only, and that is enough    *)
(* since no two play for one origin.  And a sound's usefulness is the      *)
(* number of channels that play it.                                        *)
ChannelsOwned ==
    /\ \A c \in Busy(Sound) : channels_s_sound[c].origin \in alive \cup {Nowhere}
    /\ \A c, d \in Busy(Sound) : channels_s_sound[c].origin = channels_s_sound[d].origin => c = d
    /\ \A x \in Sfx : LET n == Cardinality(PlayedBy(Sound, x))
                      IN  usefulness[x] = n \/ (usefulness[x] = -1 /\ n = 0)

=============================================================================
