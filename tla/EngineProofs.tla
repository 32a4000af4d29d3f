---------------------------- MODULE EngineProofs ----------------------------
(***************************************************************************)
(* Proofs about the mechanisms of the engine, for every size of the ring   *)
(* of commands, every lag and every level, and without the bound on time.  *)
(***************************************************************************)
EXTENDS Engine, TLAPS, FiniteSetTheorems, WellFoundedInduction

-----------------------------------------------------------------------------
(* Commands of tics.                                                       *)

\* Two tics that share a slot are a whole ring apart.
LEMMA SlotsRepeat ==
    ASSUME NEW a \in Nat, NEW b \in Nat, a < b, Slot(a) = Slot(b)
    PROVE  a + BACKUPTICS <= b
<1>1. BACKUPTICS \in Nat \ {0}
  BY TicLoopAssumption
<1> DEFINE q == a \div BACKUPTICS  k == b \div BACKUPTICS  r == Slot(a)
<1>2. \A n \in Nat, d \in Nat \ {0} : /\ n \div d \in Nat /\ n % d \in 0 .. d - 1
                                      /\ n = (n \div d) * d + (n % d)
  BY SMT
<1>3. q \in Nat /\ a = q * BACKUPTICS + r
  BY <1>1, <1>2, Zenon DEF Slot
<1>4. k \in Nat /\ b = k * BACKUPTICS + r
  BY <1>1, <1>2, Zenon DEF Slot
<1>5. r \in Nat
  BY <1>1, <1>2 DEF Slot
<1> HIDE DEF q, k, r
<1>6. \A x, y, d \in Nat : x >= y => x * d >= y * d
  BY SMT
<1>7. q < k
  <2>1. SUFFICES ASSUME q >= k PROVE FALSE
    BY <1>3, <1>4
  <2>2. q * BACKUPTICS >= k * BACKUPTICS
    BY <1>1, <1>3, <1>4, <1>6, <2>1
  <2> QED
    BY <1>1, <1>3, <1>4, <1>5, <2>2
<1>8. k >= q + 1 /\ q + 1 \in Nat
  BY <1>3, <1>4, <1>7
<1>9. k * BACKUPTICS >= (q + 1) * BACKUPTICS
  BY <1>1, <1>4, <1>6, <1>8, Zenon
<1> QED
  BY <1>1, <1>3, <1>4, <1>5, <1>9

LEMMA SlotOf ==
    ASSUME NEW t \in Nat
    PROVE  Slot(t) \in 0 .. BACKUPTICS - 1 /\ (t < BACKUPTICS => Slot(t) = t)
BY TicLoopAssumption DEF Slot

\* How far NetUpdate lets maketic run ahead.  Until the clock falls back the
\* tics run are never more than the clock's, so that the slots NetUpdate skips
\* are skipped in the first round, before any of them was written.
Ahead == BACKUPTICS \div 2 - 1

HeldIn(i, command) ==
    command = Cleared \/ (command \in Nat /\ command < maketic /\ Slot(command) = i)

OnTime ==
    /\ gametime <= time
    /\ update = "out" => gametic <= lastUpdate /\ lastUpdate <= time
    /\ update # "out" => due >= 0 /\ gametic + due <= updateNow /\ updateNow <= time
    /\ maketic = gametic + Ahead \/ maketic = gametic + gametime
    /\ gametic <= IF update = "display" THEN gametime + 1 ELSE gametime

TicTypeOK ==
    /\ time \in Nat /\ lastUpdate \in Nat /\ updateNow \in Nat /\ due \in Int
    /\ gametime \in Nat /\ gametic \in Nat /\ maketic \in Nat
    /\ update \in {"out", "loop", "display"}
    /\ netcmds = [i \in 0 .. BACKUPTICS - 1 |-> netcmds[i]]

TicInv ==
    /\ TicTypeOK
    /\ gametic <= maketic /\ maketic <= gametic + Ahead
    /\ \A i \in 0 .. BACKUPTICS - 1 : HeldIn(i, netcmds[i])
    /\ Good(ran.tic, ran.command)
    /\ fell \in BOOLEAN
    /\ ~fell => /\ OnTime
                /\ \A t \in gametic .. maketic - 1 : netcmds[Slot(t)] \in {t, Cleared}

LEMMA AheadIsHalf == Ahead \in Nat /\ Ahead >= 1 /\ 2 * Ahead < BACKUPTICS
BY TicLoopAssumption DEF Ahead

LEMMA TicBounds ==
    ASSUME TicInv
    PROVE  /\ gametic \in Nat /\ maketic \in Nat /\ gametic <= maketic
           /\ maketic <= gametic + Ahead /\ maketic < gametic + BACKUPTICS
<1>1. gametic \in Nat /\ maketic \in Nat /\ gametic <= maketic /\ maketic <= gametic + Ahead
  BY DEF TicInv, TicTypeOK
<1> QED
  BY <1>1, AheadIsHalf, TicLoopAssumption

\* A slot holds the command of its tic, or none, or one of an earlier round.
LEMMA TicsFollow ==
    ASSUME TicInv
    PROVE  OwnCommand
<1> SUFFICES ASSUME NEW t \in gametic .. maketic - 1
             PROVE  Good(t, netcmds[Slot(t)])
  BY DEF OwnCommand, TicInv
<1>1. CASE ~fell
  BY <1>1 DEF TicInv, Good
<1>2. CASE fell
  <2> DEFINE c == netcmds[Slot(t)]
  <2>1. t \in Nat /\ t + BACKUPTICS > maketic /\ maketic \in Nat
    BY TicBounds, TicLoopAssumption
  <2>2. HeldIn(Slot(t), c)
    BY <2>1, SlotOf DEF TicInv
  <2>3. CASE c # Cleared
    <3>1. c \in Nat /\ c < maketic /\ Slot(c) = Slot(t)
      BY <2>2, <2>3 DEF HeldIn
    <3> HIDE DEF c
    <3>2. c <= t
      <4>1. t < c => t + BACKUPTICS <= c
        BY <2>1, <3>1, SlotsRepeat
      <4> QED
        BY <2>1, <3>1, <4>1, TicLoopAssumption
    <3>3. c = t \/ EarlierRound(t, c)
      BY <2>1, <3>1, <3>2 DEF EarlierRound
    <3> QED
      BY <1>2, <3>3 DEF Good, c
  <2> QED
    BY <2>3 DEF Good
<1> QED
  BY <1>1, <1>2 DEF TicInv

\* Time, and the parts of doom_update that leave the commands alone.
LEMMA CountedSteps ==
    ASSUME TicInv, TimePasses \/ UpdateBegins \/ UpdateEnds \/ Melt \/ UNCHANGED ticVars
    PROVE  TicInv'
<1>1. /\ UNCHANGED <<gametime, gametic, maketic, netcmds, ran>>
      /\ fell' \in BOOLEAN /\ (fell => fell')
  BY DEF TimePasses, UpdateBegins, UpdateEnds, Melt, ticVars, TicInv
<1>2. TicTypeOK'
  BY <1>1 DEF TicInv, TicTypeOK, TimePasses, UpdateBegins, UpdateEnds, Melt, ticVars
<1>3. ~fell' => OnTime'
  <2> SUFFICES ASSUME ~fell' PROVE OnTime'
    OBVIOUS
  <2>1. OnTime
    BY <1>1 DEF TicInv
  <2>2. CASE TimePasses
    BY <1>1, <2>1, <2>2 DEF OnTime, TicInv, TicTypeOK, TimePasses
  <2>3. CASE UpdateBegins
    BY <1>1, <2>1, <2>3 DEF OnTime, TicInv, TicTypeOK, UpdateBegins
  <2>4. CASE UpdateEnds
    BY <1>1, <2>1, <2>4 DEF OnTime, TicInv, TicTypeOK, UpdateEnds
  <2>5. CASE Melt
    BY <1>1, <2>1, <2>5 DEF OnTime, TicInv, TicTypeOK, Melt
  <2>6. CASE UNCHANGED ticVars
    BY <1>1, <2>1, <2>6 DEF OnTime, ticVars
  <2> QED
    BY <2>2, <2>3, <2>4, <2>5, <2>6
<1>4. Good(ran.tic, ran.command)'
  BY <1>1 DEF TicInv, Good, EarlierRound
<1> QED
  BY <1>1, <1>2, <1>3, <1>4 DEF TicInv, HeldIn

\* A command is built for maketic, and the one of gametic is run.
LEMMA LoopKeeps ==
    ASSUME TicInv, D_DoomLoop
    PROVE  TicInv'
<1>1. /\ update = "loop" /\ due > 0 /\ due' = due - 1 /\ update' = "display"
      /\ netcmds' = [netcmds EXCEPT ![Slot(maketic)] = maketic]
      /\ gametic' = gametic + 1 /\ maketic' = maketic + 1
      /\ ran'.tic = gametic /\ ran'.command = netcmds'[Slot(gametic)]
      /\ UNCHANGED <<time, fell, lastUpdate, updateNow, gametime>>
  BY DEF D_DoomLoop
<1>2. TicTypeOK'
  <2>1. netcmds' = [i \in 0 .. BACKUPTICS - 1 |-> netcmds'[i]]
    BY <1>1, Zenon DEF TicInv, TicTypeOK
  <2> QED
    BY <1>1, <2>1 DEF TicInv, TicTypeOK
<1>3. /\ gametic \in Nat /\ maketic \in Nat /\ BACKUPTICS \in Nat
      /\ gametic <= maketic /\ maketic < gametic + BACKUPTICS
  BY TicBounds, TicLoopAssumption
<1>4. \A i \in 0 .. BACKUPTICS - 1 :
        netcmds'[i] = IF i = Slot(maketic) THEN maketic ELSE netcmds[i]
  BY <1>1 DEF TicInv, TicTypeOK
<1>5. \A i \in 0 .. BACKUPTICS - 1 : HeldIn(i, netcmds[i])'
  BY <1>1, <1>3, <1>4 DEF TicInv, HeldIn, Cleared
<1>6. ASSUME NEW t \in gametic .. maketic
      PROVE  netcmds'[Slot(t)] = IF t = maketic THEN maketic ELSE netcmds[Slot(t)]
  <2>1. t \in Nat /\ Slot(t) \in 0 .. BACKUPTICS - 1
    BY <1>3, SlotOf
  <2>2. t # maketic => Slot(t) # Slot(maketic)
    BY <1>3, <2>1, SlotsRepeat
  <2> QED
    BY <1>4, <2>1, <2>2
<1>7. Good(ran.tic, ran.command)'
  <2>1. gametic = maketic => ran'.command = gametic
    BY <1>1, <1>3, <1>6
  <2>2. gametic # maketic => Good(gametic, ran'.command)
    BY <1>1, <1>3, <1>6, TicsFollow DEF OwnCommand
  <2> QED
    BY <1>1, <2>1, <2>2 DEF Good, EarlierRound
<1>8. ~fell' => OnTime'
  <2> SUFFICES ASSUME ~fell'
               PROVE  OnTime'
    OBVIOUS
  <2>1. OnTime /\ due \in Int /\ gametime \in Nat /\ updateNow \in Nat
    BY <1>1 DEF TicInv, TicTypeOK
  <2>2. /\ gametime <= time /\ updateNow <= time
        /\ gametic + due <= updateNow /\ gametic <= gametime
        /\ maketic = gametic + Ahead \/ maketic = gametic + gametime
    BY <1>1, <2>1 DEF OnTime
  <2>3. due' >= 0 /\ gametic' + due' <= updateNow'
    BY <1>1, <1>3, <2>1, <2>2
  <2>4. gametic' <= gametime' + 1
    BY <1>1, <1>3, <2>1, <2>2
  <2>5. maketic' = gametic' + Ahead \/ maketic' = gametic' + gametime'
    BY <1>1, <1>3, <2>1, <2>2, AheadIsHalf
  <2> QED
    BY <1>1, <2>2, <2>3, <2>4, <2>5 DEF OnTime
<1>9. ~fell' => \A t \in gametic' .. maketic' - 1 : netcmds'[Slot(t)] \in {t, Cleared}
  BY <1>1, <1>3, <1>6 DEF TicInv
<1>10. gametic' <= maketic' /\ maketic' <= gametic' + Ahead /\ fell' \in BOOLEAN
  BY <1>1, TicBounds, AheadIsHalf DEF TicInv
<1> QED
  BY <1>2, <1>5, <1>7, <1>8, <1>9, <1>10 DEF TicInv

\* NetUpdate, while the frame is drawn.
LEMMA DrawKeeps ==
    ASSUME TicInv, DrawView \/ FrameEnds
    PROVE  TicInv'
<1>1. /\ update = "display" /\ update' \in {"display", "loop"}
      /\ maketic' = Built(time - gametime) /\ gametime' = time
      /\ UNCHANGED <<time, fell, lastUpdate, updateNow, due, gametic, netcmds, ran>>
  BY DEF DrawView, FrameEnds, NetUpdate
<1>2. {time, gametime, gametic, maketic, updateNow} \subseteq Nat /\ due \in Int
  BY DEF TicInv, TicTypeOK
<1>3. /\ maketic' \in Nat /\ maketic <= maketic' /\ maketic' <= gametic + Ahead
      /\ \/ maketic' = maketic /\ (gametime' = gametime \/ time < gametime \/ maketic = gametic + Ahead)
         \/ maketic' = gametic + Ahead
         \/ maketic' = maketic + (time - gametime)
  BY <1>1, <1>2, AheadIsHalf DEF TicInv, Built, Least, Ahead
<1>4. TicTypeOK'
  BY <1>1, <1>3 DEF TicInv, TicTypeOK
<1>5. \A i \in 0 .. BACKUPTICS - 1 : HeldIn(i, netcmds[i])'
  BY <1>1, <1>2, <1>3 DEF TicInv, HeldIn, Cleared
<1>6. Good(ran.tic, ran.command)'
  BY <1>1 DEF TicInv, Good, EarlierRound
<1>7. ~fell' => OnTime'
  BY <1>1, <1>2, <1>3, AheadIsHalf DEF TicInv, OnTime
<1>8. ASSUME ~fell', NEW t \in gametic' .. maketic' - 1
      PROVE  netcmds'[Slot(t)] \in {t, Cleared}
  <2>1. CASE t < maketic
    BY <1>1, <1>2, <1>8, <2>1 DEF TicInv
  <2>2. CASE t >= maketic
    <3>1. OnTime
      BY <1>1, <1>8 DEF TicInv
    <3>2. gametime < Ahead /\ gametic <= gametime + 1
      BY <1>1, <1>2, <1>3, <1>8, <2>2, <3>1, AheadIsHalf DEF OnTime
    <3>3. t \in Nat /\ t < BACKUPTICS /\ Slot(t) = t
      BY <1>1, <1>2, <1>3, <1>8, <3>2, AheadIsHalf, SlotOf, TicLoopAssumption
    <3>4. HeldIn(t, netcmds[t])
      BY <3>3, TicLoopAssumption DEF TicInv
    <3>5. netcmds[t] = Cleared
      BY <1>2, <2>2, <3>3, <3>4, SlotOf, TicLoopAssumption DEF HeldIn
    <3> QED
      BY <1>1, <3>3, <3>5
  <2> QED
    BY <1>1, <1>2, <1>3, <1>8, <2>1, <2>2
<1> QED
  BY <1>1, <1>2, <1>3, <1>4, <1>5, <1>6, <1>7, <1>8 DEF TicInv

\* With a ring of any size and a clock that never stops, a tic is run with its
\* own command or with none; only after the clock fell back with one of an
\* earlier round.
THEOREM TicsRunTheirCommand == EngineSpec => []OwnCommand
<1>1. EngineInit => TicInv
  <2> SUFFICES ASSUME EngineInit PROVE TicInv
    OBVIOUS
  <2>1. TicLoopInit
    BY DEF EngineInit
  <2>2. TicTypeOK /\ \A i \in 0 .. BACKUPTICS - 1 : netcmds[i] = Cleared
    BY <2>1 DEF TicLoopInit, TicTypeOK, Cleared
  <2> QED
    <3>1. /\ time = 0 /\ lastUpdate = 0 /\ gametime = 0 /\ gametic = 0 /\ maketic = 0
          /\ update = "out" /\ fell = FALSE /\ ran.command = Cleared
      BY <2>1 DEF TicLoopInit
    <3>2. OnTime /\ gametic <= maketic /\ maketic <= gametic + Ahead
      BY <3>1, AheadIsHalf DEF OnTime
    <3>3. Good(ran.tic, ran.command)
      BY <3>1 DEF Good
    <3>4. \A i \in 0 .. BACKUPTICS - 1 : HeldIn(i, netcmds[i])
      BY <2>2 DEF HeldIn
    <3>5. \A t \in gametic .. maketic - 1 : FALSE
      BY <3>1
    <3> QED
      BY <2>2, <3>1, <3>2, <3>3, <3>4, <3>5 DEF TicInv
<1>2. TicInv /\ [TicLoopNext]_ticVars => TicInv'
  BY CountedSteps, LoopKeeps, DrawKeeps DEF TicLoopNext
<1>3. [EngineNext]_engineVars => [TicLoopNext]_ticVars
  BY DEF EngineNext, engineVars, Updating, Deciding, Caching, Playing, Sounding
<1>4. TicInv => OwnCommand
  BY TicsFollow
<1> QED
  BY <1>1, <1>2, <1>3, <1>4, PTL DEF EngineSpec

-----------------------------------------------------------------------------
(* Requests.                                                               *)

\* A step of the engine is one of GameFlow, or leaves its variables alone.
LEMMA FlowIsPart == [EngineNext]_engineVars => [FlowNext]_flowVars
BY DEF EngineNext, engineVars, Updating, Deciding, Caching, Playing, Sounding

\* The title loop is held up only between the events and its own step, and in
\* a game only by End Game; nobody plays while it shows a page or a demo.
TitleInv ==
    /\ usergame => ~demoplayback /\ gamestate # "demoscreen"
    /\ usergame /\ advancedemo => ended /\ flow \in {"events", "advance"}
    /\ flow \in {"reborn", "actions", "command"} => ~advancedemo

LEMMA TitleKept ==
    ASSUME TitleInv, [FlowNext]_flowVars
    PROVE  TitleInv'
<1>1. CASE D_ProcessEvents
  BY <1>1 DEF TitleInv, D_ProcessEvents, G_DeferedInitNew, G_LoadGame, M_EndGame, M_SaveGame,
              M_DoSave, LeaveMenu
<1>2. CASE G_BuildTiccmd \/ D_DoAdvanceDemo \/ G_DoReborn
  BY <1>2 DEF TitleInv, G_BuildTiccmd, D_DoAdvanceDemo, G_DoReborn
<1>3. CASE GameActions
  <2>1. UNCHANGED <<flow, ended>> /\ flow = "actions" /\ ~advancedemo
    BY <1>3 DEF TitleInv, GameActions
  <2>2. CASE LoadLevel \/ G_DoNewGame \/ G_DoLoadGame
    BY <2>1, <2>2 DEF TitleInv, LoadLevel, G_DoNewGame, G_DoLoadGame, G_InitNew, G_DoLoadLevel
  <2>3. CASE G_DoSaveGame \/ G_DoCompleted \/ F_StartFinale \/ G_DoWorldDone
    BY <2>1, <2>3
       DEF TitleInv, G_DoSaveGame, G_DoCompleted, F_StartFinale, G_DoWorldDone, G_DoLoadLevel
  <2>4. CASE G_DoPlayDemo
    BY <2>1, <2>4 DEF TitleInv, G_DoPlayDemo, G_DoLoadLevel
  <2> QED
    BY <1>3, <2>2, <2>3, <2>4 DEF GameActions
<1>4. CASE ActionsOver \/ ReadCommand
  BY <1>4 DEF TitleInv, ActionsOver, ReadCommand
<1>5. CASE FlowTicEnds
  <2>1. flow = "main" /\ flow' = "events" /\ UNCHANGED <<gamestate, usergame, demoplayback>>
    BY <1>5 DEF FlowTicEnds
  <2>2. advancedemo' = advancedemo \/ gamestate = "demoscreen"
    BY <1>5, Zenon DEF FlowTicEnds, P_Ticker, WI_Ticker, D_PageTicker, F_Ticker
  <2>3. usergame => ~advancedemo'
    BY <2>1, <2>2 DEF TitleInv
  <2> QED
    BY <2>1, <2>3 DEF TitleInv
<1>6. CASE UNCHANGED flowVars
  BY <1>6 DEF TitleInv, flowVars
<1> QED
  BY <1>1, <1>2, <1>3, <1>4, <1>5, <1>6 DEF FlowNext

\* The title loop never takes a game away from its player, and his game is
\* never run with a demo's commands.
THEOREM GameIsKept == EngineSpec => []GameKept
<1>1. EngineInit => TitleInv
  BY DEF EngineInit, FlowInit, TitleInv
<1>2. TitleInv /\ [EngineNext]_engineVars => TitleInv'
  BY FlowIsPart, TitleKept
<1>3. TitleInv => GameKept
  BY DEF TitleInv, GameKept
<1> QED
  BY <1>1, <1>2, <1>3, PTL DEF EngineSpec

\* What G_Ticker finds in gameaction for a new game, a load or an exit.
Asked(request) == IF request = "exit" THEN "completed" ELSE request

\* A request that is owed is the one in gameaction.  Saves are not among them.
OwedInv ==
    /\ owed \in {"none", "newgame", "loadgame", "exit"}
    /\ owed # "none" => gameaction = Asked(owed)
    /\ flow \in {"command", "main"} => owed = "none"

\* A request is carried out, or gives way to a later choice in the menu, the
\* title loop's next step or a dead player's new life.
CarriedOut == GameActions /\ gameaction = Asked(owed)
GivesWay ==
    \/ flow = "events" /\ (G_DeferedInitNew \/ G_LoadGame \/ M_EndGame)
    \/ D_DoAdvanceDemo /\ advancedemo
    \/ G_DoReborn /\ playerstate = "reborn"
OwedGoes == owed # "none" /\ owed' # owed

LEMMA OwedKept ==
    ASSUME OwedInv, [FlowNext]_flowVars
    PROVE  OwedInv'
<1>1. CASE D_ProcessEvents
  BY <1>1 DEF OwedInv, Asked, D_ProcessEvents, G_DeferedInitNew, G_LoadGame, M_EndGame, M_SaveGame,
              M_DoSave, LeaveMenu
<1>2. CASE G_BuildTiccmd \/ D_DoAdvanceDemo \/ G_DoReborn
  BY <1>2 DEF OwedInv, Asked, G_BuildTiccmd, D_DoAdvanceDemo, G_DoReborn
<1>3. CASE GameActions
  <2>1. flow' = flow /\ owed' = Carried /\ gameaction # "nothing"
    BY <1>3 DEF GameActions, LoadLevel, G_DoNewGame, G_DoLoadGame, G_DoSaveGame, G_DoPlayDemo,
                G_DoCompleted, F_StartFinale, G_DoWorldDone
  <2>2. owed' = "none"
    BY <2>1 DEF OwedInv, Asked, Carried
  <2> QED
    BY <2>1, <2>2 DEF OwedInv
<1>4. CASE ActionsOver \/ ReadCommand
  BY <1>4 DEF OwedInv, Asked, ActionsOver, ReadCommand
<1>5. CASE FlowTicEnds
  BY <1>5 DEF OwedInv, Asked, FlowTicEnds, P_Ticker, WI_Ticker, D_PageTicker, F_Ticker, G_ExitLevel
<1>6. CASE UNCHANGED flowVars
  BY <1>6 DEF OwedInv, Asked, flowVars
<1> QED
  BY <1>1, <1>2, <1>3, <1>4, <1>5, <1>6 DEF FlowNext

\* No other step lets go of a request: a save that is run and a level that ends
\* find none that is owed.
LEMMA OwedGoesWell ==
    ASSUME OwedInv, [FlowNext]_flowVars, OwedGoes
    PROVE  CarriedOut \/ GivesWay
<1>1. CASE D_ProcessEvents
  <2>1. flow = "events"
    BY <1>1 DEF D_ProcessEvents
  <2>2. CASE M_SaveGame \/ M_DoSave \/ LeaveMenu
    BY <2>2 DEF OwedGoes, M_SaveGame, M_DoSave, LeaveMenu
  <2> QED
    BY <1>1, <2>1, <2>2 DEF D_ProcessEvents, GivesWay
<1>2. CASE G_BuildTiccmd \/ ActionsOver \/ ReadCommand
  BY <1>2 DEF OwedGoes, G_BuildTiccmd, ActionsOver, ReadCommand
<1>3. CASE D_DoAdvanceDemo
  BY <1>3 DEF OwedGoes, GivesWay, D_DoAdvanceDemo
<1>4. CASE G_DoReborn
  BY <1>4 DEF OwedGoes, GivesWay, G_DoReborn
<1>5. CASE GameActions
  BY <1>5 DEF OwedInv, OwedGoes, CarriedOut
<1>6. CASE FlowTicEnds
  BY <1>6 DEF OwedInv, OwedGoes, FlowTicEnds
<1>7. CASE UNCHANGED flowVars
  BY <1>7 DEF OwedGoes, flowVars
<1> QED
  BY <1>1, <1>2, <1>3, <1>4, <1>5, <1>6, <1>7 DEF FlowNext

\* A new game or a load that was asked for, and the end of a level, stay in
\* gameaction and are carried out before the tic (for a level's end: the next)
\* reads its command.  Only a later choice in the menu, End Game included, the
\* title loop's next step and a dead player's new life come before them.  Of a
\* save nothing is said: G_ExitLevel may replace one.
THEOREM RequestsAreKept ==
    EngineSpec => /\ []RequestsKept
                  /\ [](owed # "none" => gameaction = Asked(owed))
                  /\ [][OwedGoes => CarriedOut \/ GivesWay]_engineVars
<1>1. EngineInit => OwedInv
  BY DEF EngineInit, FlowInit, OwedInv
<1>2. OwedInv /\ [EngineNext]_engineVars => OwedInv'
  BY FlowIsPart, OwedKept
<1>3. OwedInv => RequestsKept /\ (owed # "none" => gameaction = Asked(owed))
  BY DEF OwedInv, RequestsKept
<1>4. OwedInv /\ [EngineNext]_engineVars => [OwedGoes => CarriedOut \/ GivesWay]_engineVars
  BY FlowIsPart, OwedGoesWell
<1> QED
  BY <1>1, <1>2, <1>3, <1>4, PTL DEF EngineSpec

\* The commands on their way, at most Lag of them outside a tic; where a save
\* may be among them in an intermission, counted from the one that is read
\* next: the intermission is over only when none is left.
Commands == {Blank, SaveCommand}
NoSaveBeyond(n) == \A p \in 1 .. Len(inFlight) : p > n => inFlight[p] = Blank
Room ==
    (IF wi.state = "StatCount" THEN Lag + 1
     ELSE IF wi.state = "ShowNextLoc" THEN Lag
     ELSE wi.cnt + Lag - NoStateTics - 1) - (IF flow = "main" THEN 1 ELSE 0)

InFlightOK ==
    /\ inFlight \in Seq(Commands)
    /\ flow \in {"events", "main"} => Len(inFlight) <= Lag
    /\ flow \in {"advance", "reborn", "actions", "command"} => Len(inFlight) \in 1 .. Lag + 1

SaveInv ==
    /\ InFlightOK
    /\ flow \in {"events", "main", "advance", "reborn", "actions", "command"}
    /\ flow # "events" => sendsave = FALSE
    /\ savedFor = "next" => /\ sendsave = FALSE /\ NoSaveBeyond(0) /\ gameaction # "savegame"
    /\ savedFor = "same" /\ gamestate = "intermission" => sendsave = FALSE /\ NoSaveBeyond(Room)
    /\ wi.cnt \in Int
    /\ flow = "command" => gameaction = "nothing"
    /\ gameaction = "worlddone" =>
          gamestate = "intermission" /\ wi.state = "NoState" /\ wi.cnt <= 0

\* A step that leaves alone what the invariant speaks of, or only lets go of it.
LEMMA SaveFrame ==
    ASSUME SaveInv, UNCHANGED <<flow, inFlight, wi>>, sendsave' \in {sendsave, FALSE},
           \/ UNCHANGED <<gamestate, savedFor>>
           \/ savedFor' = "other"
           \/ gamestate' \notin {gamestate, "intermission"} /\ UNCHANGED savedFor,
           savedFor' = "next" => gameaction' # "savegame",
           gameaction' # "worlddone", flow # "command"
    PROVE  SaveInv'
<1>1. InFlightOK' /\ (NoSaveBeyond(0) => NoSaveBeyond(0)') /\ (NoSaveBeyond(Room) => NoSaveBeyond(Room)')
  BY DEF SaveInv, InFlightOK, NoSaveBeyond, Room
<1> QED
  BY <1>1 DEF SaveInv

LEMMA SaveEvents ==
    ASSUME SaveInv, D_ProcessEvents
    PROVE  SaveInv'
<1>1. UNCHANGED <<flow, gamestate, wi, inFlight>> /\ flow = "events"
  BY DEF D_ProcessEvents
<1>2. InFlightOK' /\ (NoSaveBeyond(0) => NoSaveBeyond(0)') /\ (NoSaveBeyond(Room) => NoSaveBeyond(Room)')
  BY <1>1 DEF SaveInv, InFlightOK, NoSaveBeyond, Room
<1>3. CASE G_DeferedInitNew \/ G_LoadGame \/ M_EndGame \/ M_SaveGame \/ LeaveMenu
  BY <1>1, <1>2, <1>3
     DEF SaveInv, G_DeferedInitNew, G_LoadGame, M_EndGame, M_SaveGame, LeaveMenu
<1>4. CASE M_DoSave
  BY <1>1, <1>2, <1>4 DEF SaveInv, M_DoSave
<1> QED
  BY <1>3, <1>4 DEF D_ProcessEvents

LEMMA SaveBuilt ==
    ASSUME SaveInv, G_BuildTiccmd
    PROVE  SaveInv'
<1> DEFINE new == IF sendsave THEN SaveCommand ELSE Blank
<1>1. /\ flow = "events" /\ flow' = "advance" /\ sendsave' = FALSE
      /\ inFlight' = Append(inFlight, new)
      /\ UNCHANGED <<gameaction, gamestate, wi, savedFor>>
  BY DEF G_BuildTiccmd
<1>2. new \in Commands
  BY DEF Commands
<1>3. inFlight \in Seq(Commands) /\ Len(inFlight) <= Lag /\ Lag \in Nat
  BY <1>1, GameFlowAssumption DEF SaveInv, InFlightOK
<1>4. sendsave = FALSE => new = Blank
  OBVIOUS
<1> HIDE DEF new
<1>5. InFlightOK'
  BY <1>1, <1>2, <1>3 DEF InFlightOK
<1>6. ASSUME NEW n \in Int, NoSaveBeyond(n), new = Blank
      PROVE  \A p \in 1 .. Len(inFlight') : p > n => inFlight'[p] = Blank
  BY <1>1, <1>2, <1>3, <1>6 DEF NoSaveBeyond
<1>7. savedFor = "next" => NoSaveBeyond(0)'
  BY <1>1, <1>4, <1>6 DEF SaveInv, NoSaveBeyond
<1>8. savedFor = "same" /\ gamestate = "intermission" => NoSaveBeyond(Room)'
  <2> SUFFICES ASSUME savedFor = "same", gamestate = "intermission"
               PROVE  NoSaveBeyond(Room)'
    OBVIOUS
  <2>1. Room \in Int /\ Room' = Room
    BY <1>1, GameFlowAssumption DEF SaveInv, Room
  <2>2. NoSaveBeyond(Room) /\ new = Blank
    BY <1>4 DEF SaveInv
  <2> QED
    BY <1>6, <2>1, <2>2 DEF NoSaveBeyond
<1> QED
  BY <1>1, <1>5, <1>7, <1>8 DEF SaveInv

LEMMA SaveRead ==
    ASSUME SaveInv, ReadCommand
    PROVE  SaveInv'
<1>1. /\ flow = "command" /\ flow' = "main" /\ inFlight' = Tail(inFlight)
      /\ UNCHANGED <<gamestate, wi, savedFor, sendsave>>
      /\ Obey(Head(inFlight)) \/ Obey(Blank)
  BY DEF ReadCommand
<1>2. inFlight \in Seq(Commands) /\ Len(inFlight) \in 1 .. Lag + 1 /\ Lag \in Nat
  BY <1>1, GameFlowAssumption DEF SaveInv, InFlightOK
<1>3. /\ inFlight' \in Seq(Commands) /\ Len(inFlight') = Len(inFlight) - 1
      /\ \A p \in 1 .. Len(inFlight') : inFlight'[p] = inFlight[p + 1]
  BY <1>1, <1>2
<1>4. InFlightOK'
  BY <1>1, <1>2, <1>3 DEF InFlightOK
<1>5. savedFor = "next" => NoSaveBeyond(0)' /\ gameaction' # "savegame"
  <2> SUFFICES ASSUME savedFor = "next" PROVE NoSaveBeyond(0)' /\ gameaction' # "savegame"
    OBVIOUS
  <2>1. NoSaveBeyond(0)
    BY DEF SaveInv
  <2>2. Head(inFlight) = Blank
    BY <1>2, <2>1 DEF NoSaveBeyond
  <2> QED
    BY <1>1, <1>2, <1>3, <2>1, <2>2 DEF NoSaveBeyond, Obey, Blank, SaveCommand, SaveInv
<1>6. savedFor = "same" /\ gamestate = "intermission" => NoSaveBeyond(Room)'
  <2> SUFFICES ASSUME savedFor = "same", gamestate = "intermission"
               PROVE  NoSaveBeyond(Room)'
    OBVIOUS
  <2>1. Room \in Int /\ Room' = Room - 1
    BY <1>1, GameFlowAssumption DEF SaveInv, Room
  <2>2. NoSaveBeyond(Room)
    BY DEF SaveInv
  <2> QED
    BY <1>2, <1>3, <2>1, <2>2 DEF NoSaveBeyond
<1>7. gameaction' # "worlddone"
  BY <1>1 DEF Obey, SaveInv
<1> QED
  BY <1>1, <1>4, <1>5, <1>6, <1>7 DEF SaveInv

\* NetUpdate lets maketic skip slots, whose commands are blank.
LEMMA BlanksAppended ==
    ASSUME NEW s \in Seq(Commands), NEW n \in Nat
    PROVE  LET t == s \o [p \in 1 .. n |-> Blank]
           IN  /\ t \in Seq(Commands) /\ Len(t) = Len(s) + n
               /\ \A p \in 1 .. Len(t) : t[p] = IF p <= Len(s) THEN s[p] ELSE Blank
<1> DEFINE b == [p \in 1 .. n |-> Blank]
<1>1. b \in Seq(Commands) /\ Len(b) = n /\ \A p \in 1 .. n : b[p] = Blank
  BY DEF Commands
<1> HIDE DEF b
<1>2. /\ s \o b \in Seq(Commands) /\ Len(s \o b) = Len(s) + n
      /\ \A p \in 1 .. Len(s) + n : (s \o b)[p] = IF p <= Len(s) THEN s[p] ELSE b[p - Len(s)]
  BY <1>1
<1> QED
  BY <1>1, <1>2 DEF b

\* The step of D_DoAdvanceDemo, G_DoReborn or the loop over the actions.
LEMMA SaveSteps ==
    ASSUME SaveInv, D_DoAdvanceDemo \/ G_DoReborn \/ ActionsOver
    PROVE  SaveInv'
<1>1. /\ UNCHANGED <<inFlight, wi, sendsave>>
      /\ flow \in {"advance", "reborn", "actions"} /\ flow' \in {"reborn", "actions", "command"}
      /\ flow' = "command" => gameaction' = "nothing"
  BY DEF D_DoAdvanceDemo, G_DoReborn, ActionsOver
<1>2. \/ UNCHANGED <<gamestate, savedFor, gameaction>>
      \/ savedFor' = "other" /\ gameaction' # "worlddone"
  BY DEF D_DoAdvanceDemo, G_DoReborn, ActionsOver
<1>3. InFlightOK' /\ (NoSaveBeyond(0) => NoSaveBeyond(0)') /\ (NoSaveBeyond(Room) => NoSaveBeyond(Room)')
  BY <1>1 DEF SaveInv, InFlightOK, NoSaveBeyond, Room
<1> QED
  BY <1>1, <1>2, <1>3 DEF SaveInv

\* A level that does not follow another is not the one of a save on its way.
LEMMA OtherLevel ==
    ASSUME NEW map, NEW state, G_DoLoadLevel(map, state, "other")
    PROVE  /\ savedFor' = "other" /\ sendsave' = FALSE /\ gameaction' = "nothing"
           /\ wi' = wi /\ inFlight' = inFlight
BY DEF G_DoLoadLevel

\* What the save invariant speaks of is kept by the actions of G_Ticker's loop.
LEMMA SaveActions ==
    ASSUME SaveInv, GameActions
    PROVE  SaveInv'
<1>1. flow = "actions" /\ UNCHANGED flow /\ sendsave = FALSE
  BY DEF GameActions, SaveInv
<1>2. CASE LoadLevel \/ G_DoNewGame \/ G_DoLoadGame
  <2>1. /\ UNCHANGED <<wi, inFlight>> /\ sendsave' = FALSE
        /\ savedFor' = "other" /\ gameaction' = "nothing"
    BY <1>2, OtherLevel DEF LoadLevel, G_DoNewGame, G_DoLoadGame, G_InitNew
  <2> QED
    BY <1>1, <2>1, SaveFrame
<1>3. CASE G_DoSaveGame \/ F_StartFinale
  <2>1. /\ UNCHANGED <<wi, inFlight, sendsave, savedFor>> /\ gameaction' = "nothing"
        /\ gamestate' \in {gamestate, "finale"}
    BY <1>3 DEF G_DoSaveGame, F_StartFinale
  <2> QED
    BY <1>1, <2>1, SaveFrame
<1>4. CASE G_DoPlayDemo
  <2>1. /\ UNCHANGED <<wi, inFlight>> /\ sendsave' \in {sendsave, FALSE} /\ gameaction' = "nothing"
        /\ savedFor' = "other" \/ UNCHANGED <<gamestate, savedFor>>
    BY <1>1, <1>4, OtherLevel DEF G_DoPlayDemo
  <2> QED
    BY <1>1, <2>1, SaveFrame
<1>5. CASE G_DoCompleted
  <2>1. CASE gamemap = VictoryMap
    BY <1>1, <1>5, <2>1, SaveFrame DEF G_DoCompleted
  <2>2. CASE gamemap # VictoryMap
    <3>1. /\ UNCHANGED <<inFlight, sendsave, savedFor>> /\ gameaction' = "nothing"
          /\ wi' = [state |-> "StatCount", cnt |-> 0]
      BY <1>5, <2>2 DEF G_DoCompleted
    <3>2. InFlightOK' /\ (NoSaveBeyond(0) => NoSaveBeyond(0)')
      BY <1>1, <3>1 DEF SaveInv, InFlightOK, NoSaveBeyond
    <3>3. NoSaveBeyond(Room)'
      <4>1. Room' = Lag + 1 /\ Lag \in Nat
        BY <1>1, <3>1, GameFlowAssumption DEF Room
      <4>2. Len(inFlight') \in 1 .. Lag + 1
        BY <1>1, <3>1 DEF SaveInv, InFlightOK
      <4> QED
        BY <4>1, <4>2 DEF NoSaveBeyond
    <3> QED
      BY <1>1, <3>1, <3>2, <3>3 DEF SaveInv
  <2> QED
    BY <2>1, <2>2
<1>6. CASE G_DoWorldDone
  <2>1. /\ UNCHANGED <<wi, inFlight>> /\ sendsave' = FALSE
        /\ gamestate' = "level" /\ gameaction' = "nothing"
        /\ savedFor' = IF savedFor = "same" THEN "next" ELSE savedFor
    BY <1>6 DEF G_DoWorldDone, G_DoLoadLevel
  <2>2. /\ gamestate = "intermission" /\ wi.state = "NoState" /\ wi.cnt <= 0 /\ wi.cnt \in Int
    BY <1>6 DEF G_DoWorldDone, SaveInv
  <2>3. Room \in Int /\ Room <= 0
    BY <1>1, <2>2, GameFlowAssumption DEF Room
  <2>4. savedFor \in {"same", "next"} => NoSaveBeyond(0)
    <3>1. savedFor = "same" => NoSaveBeyond(Room)
      BY <2>2 DEF SaveInv
    <3>2. NoSaveBeyond(Room) => NoSaveBeyond(0)
      BY <2>3 DEF NoSaveBeyond
    <3> QED
      BY <3>1, <3>2 DEF SaveInv
  <2>5. InFlightOK' /\ (NoSaveBeyond(0) => NoSaveBeyond(0)')
    BY <1>1, <2>1 DEF SaveInv, InFlightOK, NoSaveBeyond
  <2> QED
    BY <1>1, <2>1, <2>4, <2>5 DEF SaveInv
<1> QED
  BY <1>2, <1>3, <1>4, <1>5, <1>6 DEF GameActions

LEMMA SaveTicEnds ==
    ASSUME SaveInv, FlowTicEnds
    PROVE  SaveInv'
<1>1. /\ flow = "main" /\ flow' = "events" /\ UNCHANGED <<gamestate, sendsave, savedFor>>
      /\ P_Ticker \/ WI_Ticker \/ D_PageTicker \/ F_Ticker
  BY DEF FlowTicEnds
<1>2. PICK n \in 0 .. Lag - Len(inFlight) : inFlight' = inFlight \o [p \in 1 .. n |-> Blank]
  BY DEF FlowTicEnds
<1>3. Lag \in Nat /\ NoStateTics \in Nat /\ inFlight \in Seq(Commands) /\ Len(inFlight) \in Nat
  BY GameFlowAssumption DEF SaveInv, InFlightOK
<1>4. /\ inFlight' \in Seq(Commands) /\ Len(inFlight') = Len(inFlight) + n
      /\ \A p \in 1 .. Len(inFlight') :
            inFlight'[p] = IF p <= Len(inFlight) THEN inFlight[p] ELSE Blank
  BY <1>2, <1>3, BlanksAppended
<1>5. InFlightOK'
  BY <1>1, <1>2, <1>3, <1>4 DEF InFlightOK
<1>6. ASSUME NEW a \in Int, NEW b \in Int, a <= b, NoSaveBeyond(a)
      PROVE  \A p \in 1 .. Len(inFlight') : p > b => inFlight'[p] = Blank
  BY <1>3, <1>4, <1>6 DEF NoSaveBeyond
<1>7. savedFor = "next" => NoSaveBeyond(0)'
  BY <1>6 DEF SaveInv, NoSaveBeyond
<1>8. /\ gamestate = "intermission" => Room <= Room' /\ Room \in Int /\ Room' \in Int
      /\ wi'.cnt \in Int
      /\ gameaction' = "worlddone" =>
            gamestate = "intermission" /\ wi'.state = "NoState" /\ wi'.cnt <= 0
      /\ gameaction' # gameaction => gameaction' \in {"completed", "worlddone"}
  <2>1. CASE P_Ticker
    BY <1>1, <2>1 DEF P_Ticker, G_ExitLevel, SaveInv
  <2>2. CASE D_PageTicker \/ F_Ticker
    BY <1>1, <2>2 DEF D_PageTicker, F_Ticker, SaveInv
  <2>3. CASE WI_Ticker
    <3>1. CASE wi.state \in {"StatCount", "ShowNextLoc"} /\ UNCHANGED <<wi, gameaction>>
      BY <1>1, <1>3, <3>1 DEF SaveInv, Room
    <3>2. CASE wi.state = "StatCount" /\ wi' = [state |-> "ShowNextLoc", cnt |-> 0]
               /\ UNCHANGED gameaction
      BY <1>1, <1>3, <3>2 DEF SaveInv, Room
    <3>3. CASE wi.state = "ShowNextLoc" /\ wi' = WI_initNoState /\ UNCHANGED gameaction
      BY <1>1, <1>3, <3>3 DEF SaveInv, Room, WI_initNoState
    <3>4. CASE /\ wi.state = "NoState" /\ wi' = [wi EXCEPT !.cnt = @ - 1]
               /\ gameaction' = IF wi.cnt = 1 THEN "worlddone" ELSE gameaction
      <4>1. wi'.state = "NoState" /\ wi'.cnt = wi.cnt - 1 /\ gamestate = "intermission"
        BY <2>3, <3>4 DEF WI_Ticker
      <4> QED
        BY <1>1, <1>3, <3>4, <4>1 DEF SaveInv, Room
    <3> QED
      BY <2>3, <3>1, <3>2, <3>3, <3>4 DEF WI_Ticker
  <2> QED
    BY <1>1, <2>1, <2>2, <2>3
<1>9. savedFor = "same" /\ gamestate = "intermission" => NoSaveBeyond(Room)'
  <2> SUFFICES ASSUME savedFor = "same", gamestate = "intermission"
               PROVE  NoSaveBeyond(Room)'
    OBVIOUS
  <2>1. NoSaveBeyond(Room)
    BY DEF SaveInv
  <2> QED
    BY <1>6, <1>8, <2>1 DEF NoSaveBeyond
<1> QED
  BY <1>1, <1>5, <1>7, <1>8, <1>9 DEF SaveInv

\* With a lag that is no longer than the last part of the intermission, a save
\* is never written in the level after the one it was asked for in.
THEOREM SavesAreOfTheirLevel == EngineSpec => []SaveOfItsLevel
<1>1. EngineInit => SaveInv
  <2> SUFFICES ASSUME EngineInit PROVE SaveInv
    OBVIOUS
  <2>1. InFlightOK
    BY GameFlowAssumption DEF EngineInit, FlowInit, InFlightOK
  <2> QED
    BY <2>1 DEF EngineInit, FlowInit, SaveInv
<1>2. SaveInv /\ [FlowNext]_flowVars => SaveInv'
  <2> SUFFICES ASSUME SaveInv, UNCHANGED flowVars PROVE SaveInv'
    BY SaveEvents, SaveBuilt, SaveSteps, SaveActions, SaveRead, SaveTicEnds DEF FlowNext
  <2> QED
    BY DEF flowVars, SaveInv, InFlightOK, NoSaveBeyond, Room
<1>3. SaveInv /\ [EngineNext]_engineVars => SaveInv'
  BY <1>2, FlowIsPart
<1>4. SaveInv => SaveOfItsLevel
  BY DEF SaveInv, SaveOfItsLevel
<1> QED
  BY <1>1, <1>3, <1>4, PTL DEF EngineSpec

-----------------------------------------------------------------------------
(* Sound channels.                                                         *)

\* A set of naturals has a least element: what S_getChannel finds is a channel.
LEMMA LeastExists ==
    ASSUME NEW S \in SUBSET Nat, S # {}
    PROVE  \E n \in S : \A m \in S : n <= m
<1>1. \E n \in S : \A m \in S : ~(<<m, n>> \in OpToRel(<, Nat))
  BY NatLessThanWellFounded, WFMin
<1>2. PICK n \in S : \A m \in S : ~(<<m, n>> \in OpToRel(<, Nat))
  BY <1>1
<1>3. \A m \in S : ~(m < n)
  BY <1>2 DEF OpToRel
<1>4. \A m \in S : n <= m
  <2> TAKE m \in S
  <2>1. m \in Nat /\ n \in Nat
    OBVIOUS
  <2> QED
    BY <1>3, <2>1
<1> QED
  BY <1>4

LEMMA LowestIsOne ==
    ASSUME NEW S \in SUBSET Channel
    PROVE  /\ Lowest(S) \subseteq S
           /\ S = {} <=> Lowest(S) = {}
           /\ \A c \in S : S = {c} => Lowest(S) = {c}
<1>1. CASE S = {}
  BY <1>1 DEF Lowest
<1>2. CASE S # {}
  <2>1. \E c \in S : \A d \in S : c <= d
    BY <1>2, LeastExists, SoundAssumption DEF Channel
  <2>2. (CHOOSE c \in S : \A d \in S : c <= d) \in S
    BY <2>1
  <2> QED
    BY <1>2, <2>2 DEF Lowest
<1> QED
  BY <1>1, <1>2

\* What ChannelsOwned says, of any state of the channels and any things there.
WellOwned(s, there) ==
    /\ s.channel = [c \in Channel |-> s.channel[c]]
    /\ \A c \in Channel :
          /\ s.channel[c] = [sfx |-> s.channel[c].sfx, origin |-> s.channel[c].origin]
          /\ s.channel[c].sfx \in Sfx \cup {Silent}
    /\ s.useful \in [Sfx -> Int]
    /\ \A c \in Busy(s) : s.channel[c].origin \in there \cup {Nowhere}
    /\ \A c, d \in Busy(s) : s.channel[c].origin = s.channel[d].origin => c = d
    /\ \A x \in Sfx : LET n == Cardinality(PlayedBy(s, x))
                      IN  s.useful[x] = n \/ (s.useful[x] = -1 /\ n = 0)

LEMMA PlayedIsFinite ==
    \A s, x : /\ IsFiniteSet(PlayedBy(s, x)) /\ PlayedBy(s, x) \subseteq Channel
              /\ Cardinality(PlayedBy(s, x)) \in Nat
<1>1. IsFiniteSet(Channel)
  BY FS_Interval, SoundAssumption DEF Channel
<1> QED
  BY <1>1, FS_Subset, FS_CardinalityType DEF PlayedBy

\* S_StopChannel.
Silenced(z, s, stop) ==
    \A c \in Channel : /\ z.channel[c].origin = s.channel[c].origin
                       /\ z.channel[c].sfx = IF c \in stop THEN Silent ELSE s.channel[c].sfx

LEMMA StoppedIsOwned ==
    ASSUME NEW s, NEW there, NEW stop, WellOwned(s, there)
    PROVE  WellOwned(S_StopChannel(s, stop), there) /\ Silenced(S_StopChannel(s, stop), s, stop)
<1> DEFINE z == S_StopChannel(s, stop)
<1>1. /\ z.channel = [c \in Channel |-> IF c \in stop THEN [s.channel[c] EXCEPT !.sfx = Silent]
                                        ELSE s.channel[c]]
      /\ z.useful = [x \in Sfx |-> s.useful[x] - Cardinality(PlayedBy(s, x) \cap stop)]
  BY DEF S_StopChannel, Channels
<1>2. ASSUME NEW c \in Channel
      PROVE  /\ z.channel[c] = [sfx |-> z.channel[c].sfx, origin |-> z.channel[c].origin]
             /\ z.channel[c].origin = s.channel[c].origin
             /\ z.channel[c].sfx = IF c \in stop THEN Silent ELSE s.channel[c].sfx
             /\ z.channel[c].sfx \in Sfx \cup {Silent}
  <2> DEFINE r == s.channel[c]
  <2>1. r = [sfx |-> r.sfx, origin |-> r.origin] /\ r.sfx \in Sfx \cup {Silent}
    BY DEF WellOwned
  <2>2. z.channel[c] = IF c \in stop THEN [r EXCEPT !.sfx = Silent] ELSE r
    BY <1>1
  <2> HIDE DEF r
  <2>3. [r EXCEPT !.sfx = Silent] = [sfx |-> Silent, origin |-> r.origin]
    BY <2>1
  <2>4. z.channel[c] = [sfx |-> IF c \in stop THEN Silent ELSE r.sfx, origin |-> r.origin]
    BY <2>1, <2>2, <2>3
  <2> QED
    BY <2>1, <2>4 DEF r
<1>3. z.channel = [c \in Channel |-> z.channel[c]]
  BY <1>1
<1> HIDE DEF z
<1>4. Busy(z) = Busy(s) \ stop
  BY <1>2 DEF Busy
<1>5. ASSUME NEW x \in Sfx
      PROVE  /\ s.useful[x] \in Int /\ z.useful[x] \in Int
             /\ LET n == Cardinality(PlayedBy(z, x))
                IN  z.useful[x] = n \/ (z.useful[x] = -1 /\ n = 0)
  <2>1. PlayedBy(z, x) = PlayedBy(s, x) \ stop
    BY <1>2, SoundAssumption DEF PlayedBy
  <2>2. Cardinality(PlayedBy(z, x)) = Cardinality(PlayedBy(s, x)) - Cardinality(PlayedBy(s, x) \cap stop)
    BY <2>1, PlayedIsFinite, FS_Difference
  <2>3. /\ Cardinality(PlayedBy(s, x)) \in Nat /\ Cardinality(PlayedBy(s, x) \cap stop) \in Nat
        /\ Cardinality(PlayedBy(s, x) \cap stop) <= Cardinality(PlayedBy(s, x))
    BY PlayedIsFinite, FS_Intersection, FS_CardinalityType
  <2>4. z.useful[x] = s.useful[x] - Cardinality(PlayedBy(s, x) \cap stop)
    BY <1>1
  <2>5. /\ s.useful[x] \in Int
        /\ \/ s.useful[x] = Cardinality(PlayedBy(s, x))
           \/ s.useful[x] = -1 /\ Cardinality(PlayedBy(s, x)) = 0
    BY DEF WellOwned
  <2> QED
    BY <2>2, <2>3, <2>4, <2>5
<1>6. z.useful \in [Sfx -> Int]
  BY <1>1, <1>5
<1>7. WellOwned(z, there)
  BY <1>2, <1>3, <1>4, <1>5, <1>6 DEF WellOwned, Busy
<1>8. Silenced(z, s, stop)
  BY <1>2 DEF Silenced
<1> QED
  BY <1>7, <1>8 DEF z

\* S_StopSound leaves no sound of the origin: there was at most one.
LEMMA NoneLeft ==
    ASSUME NEW s, NEW there, NEW origin, WellOwned(s, there)
    PROVE  LET z == S_StopSound(s, origin)
           IN  WellOwned(z, there) /\ \A c \in Busy(z) : z.channel[c].origin # origin
<1> DEFINE own == {c \in Busy(s) : s.channel[c].origin = origin}
           z == S_StopSound(s, origin)
<1>1. own \in SUBSET Channel /\ \A c, d \in own : c = d
  BY DEF WellOwned, Busy
<1>2. Lowest(own) = own
  <2>1. CASE own = {}
    BY <1>1, <2>1, LowestIsOne
  <2>2. ASSUME NEW c \in own PROVE Lowest(own) = own
    <3>1. own = {c}
      BY <1>1
    <3> QED
      BY <1>1, <3>1, LowestIsOne
  <2> QED
    BY <2>1, <2>2
<1>3. z = S_StopChannel(s, own)
  BY <1>2 DEF S_StopSound
<1>4. WellOwned(z, there)
  BY <1>3, StoppedIsOwned
<1>5. ASSUME NEW c \in Busy(z) PROVE z.channel[c].origin # origin
  <2>1. c \in Channel /\ z.channel[c].sfx # Silent
    BY DEF Busy
  <2>2. /\ z.channel[c].origin = s.channel[c].origin
        /\ z.channel[c].sfx = IF c \in own THEN Silent ELSE s.channel[c].sfx
    <3>1. Silenced(z, s, own)
      BY <1>3, StoppedIsOwned
    <3> QED
      BY <2>1, <3>1 DEF Silenced
  <2> QED
    BY <2>1, <2>2 DEF Busy
<1> QED
  BY <1>4, <1>5

\* The channel that is taken is the only one of its origin.
LEMMA TakenIsOwned ==
    ASSUME NEW s, NEW there, NEW origin \in there \cup {Nowhere}, NEW x \in Sfx, NEW c \in Channel,
           WellOwned(s, there), \A d \in Busy(s) : s.channel[d].origin # origin
    PROVE  WellOwned(Taken(s, c, origin, x), there)
<1> DEFINE free == S_StopChannel(s, {c})
           z == Taken(s, c, origin, x)
<1>0. WellOwned(free, there) /\ Silenced(free, s, {c})
  BY StoppedIsOwned
<1>1. WellOwned(free, there) /\ free.channel[c].sfx = Silent
  BY <1>0 DEF Silenced
<1>2. \A d \in Busy(free) : d \in Busy(s) /\ free.channel[d].origin = s.channel[d].origin
  BY <1>0 DEF Silenced, Busy
<1>3. /\ z.channel = [free.channel EXCEPT ![c] = [sfx |-> x, origin |-> origin]]
      /\ z.useful = [free.useful EXCEPT ![x] = IF @ < 0 THEN 1 ELSE @ + 1]
  BY DEF Taken, Channels
<1> HIDE DEF free, z
<1>4. /\ z.channel = [d \in Channel |-> z.channel[d]]
      /\ \A d \in Channel : z.channel[d] = IF d = c THEN [sfx |-> x, origin |-> origin]
                                           ELSE free.channel[d]
  BY <1>1, <1>3 DEF WellOwned
<1>5. Busy(z) = Busy(free) \cup {c} /\ c \notin Busy(free)
  BY <1>1, <1>4, SoundAssumption DEF Busy
<1>6. \A d \in Busy(free) : d # c /\ d \in Channel /\ z.channel[d] = free.channel[d]
  BY <1>4, <1>5 DEF Busy
<1>7. /\ \A d \in Busy(z) : z.channel[d].origin \in there \cup {Nowhere}
      /\ \A d, e \in Busy(z) : z.channel[d].origin = z.channel[e].origin => d = e
  <2>1. /\ z.channel[c].origin = origin /\ origin \in there \cup {Nowhere}
        /\ \A d \in Busy(free) : z.channel[d].origin = free.channel[d].origin
    BY <1>4, <1>6
  <2>2. /\ \A d \in Busy(free) : /\ free.channel[d].origin \in there \cup {Nowhere}
                                 /\ free.channel[d].origin # origin
        /\ \A d, e \in Busy(free) : free.channel[d].origin = free.channel[e].origin => d = e
    BY <1>1, <1>2 DEF WellOwned
  <2> QED
    BY <1>5, <2>1, <2>2
<1>8. ASSUME NEW y \in Sfx
      PROVE  /\ z.useful[y] \in Int
             /\ LET n == Cardinality(PlayedBy(z, y))
                IN  z.useful[y] = n \/ (z.useful[y] = -1 /\ n = 0)
  <2>1. /\ free.useful[y] \in Int
        /\ \/ free.useful[y] = Cardinality(PlayedBy(free, y))
           \/ free.useful[y] = -1 /\ Cardinality(PlayedBy(free, y)) = 0
        /\ free.useful \in [Sfx -> Int]
    BY <1>1 DEF WellOwned
  <2>2. Cardinality(PlayedBy(free, y)) \in Nat
    BY PlayedIsFinite
  <2>3. CASE y = x
    <3>1. PlayedBy(z, y) = PlayedBy(free, y) \cup {c} /\ c \notin PlayedBy(free, y)
      BY <1>1, <1>4, <2>3, SoundAssumption DEF PlayedBy
    <3>2. Cardinality(PlayedBy(z, y)) = Cardinality(PlayedBy(free, y)) + 1
      BY <3>1, PlayedIsFinite, FS_AddElement
    <3>3. z.useful[y] = IF free.useful[y] < 0 THEN 1 ELSE free.useful[y] + 1
      BY <1>3, <2>1, <2>3
    <3> QED
      BY <2>1, <2>2, <3>2, <3>3
  <2>4. CASE y # x
    <3>1. PlayedBy(z, y) = PlayedBy(free, y)
      BY <1>1, <1>4, <2>4, SoundAssumption DEF PlayedBy
    <3>2. z.useful[y] = free.useful[y]
      BY <1>3, <2>1, <2>4
    <3> QED
      BY <2>1, <3>1, <3>2
  <2> QED
    BY <2>3, <2>4
<1>9. z.useful \in [Sfx -> Int]
  BY <1>1, <1>3, <1>8 DEF WellOwned
<1>10. \A d \in Channel : /\ z.channel[d] = [sfx |-> z.channel[d].sfx, origin |-> z.channel[d].origin]
                          /\ z.channel[d].sfx \in Sfx \cup {Silent}
  BY <1>1, <1>4 DEF WellOwned
<1>11. WellOwned(z, there)
  BY <1>4, <1>7, <1>8, <1>9, <1>10 DEF WellOwned
<1> QED
  BY <1>11 DEF z

LEMMA StartedIsOwned ==
    ASSUME NEW s, NEW there, NEW origin \in there \cup {Nowhere}, NEW x \in Sfx, WellOwned(s, there)
    PROVE  WellOwned(StartedSound(s, origin, x), there)
<1> DEFINE killed == S_StopSound(s, origin)
           found == S_getChannel(killed, origin, x)
<1>1. WellOwned(killed, there) /\ \A c \in Busy(killed) : killed.channel[c].origin # origin
  BY NoneLeft
<1> HIDE DEF killed
<1>2. found \subseteq Channel
  <2> DEFINE own == {c \in Busy(killed) : origin # Nowhere /\ killed.channel[c].origin = origin}
             open == (Channel \ Busy(killed)) \cup own
             less == {c \in Channel : killed.channel[c].sfx # Silent
                                      /\ Priority[killed.channel[c].sfx] >= Priority[x]}
  <2>1. open \in SUBSET Channel /\ less \in SUBSET Channel
    BY DEF Busy
  <2>2. found \in {Lowest(open), Lowest(less)}
    BY DEF S_getChannel
  <2> QED
    BY <2>1, <2>2, LowestIsOne
<1> HIDE DEF found
<1>3. CASE found = {}
  BY <1>1, <1>3 DEF StartedSound, killed, found
<1>4. CASE found # {}
  <2> DEFINE c == CHOOSE c \in found : TRUE
  <2>1. c \in Channel
    BY <1>2, <1>4
  <2>2. StartedSound(s, origin, x) = Taken(killed, c, origin, x)
    BY <1>4 DEF StartedSound, killed, found
  <2> QED
    BY <1>1, <2>1, <2>2, TakenIsOwned
<1> QED
  BY <1>3, <1>4

SoundInv == WellOwned(Sound, alive)

LEMMA SoundKept ==
    ASSUME SoundInv, [SoundNext]_soundVars
    PROVE  SoundInv'
<1> USE DEF SoundInv
<1>1. ASSUME NEW a, NEW b, SoundIs(Channels(a, b)) PROVE Sound' = Channels(a, b)
  BY <1>1 DEF SoundIs, Sound, Channels
<1>2. CASE S_StartSound
  <2>1. PICK origin \in alive \cup {Nowhere}, x \in Sfx : SoundIs(StartedSound(Sound, origin, x))
    BY <1>2 DEF S_StartSound
  <2>2. WellOwned(StartedSound(Sound, origin, x), alive)
    BY StartedIsOwned
  <2>3. WellOwned(Sound', alive)
    <3>1. Sound'.channel = StartedSound(Sound, origin, x).channel
          /\ Sound'.useful = StartedSound(Sound, origin, x).useful
      BY <2>1 DEF SoundIs, Sound, Channels
    <3> QED
      BY <2>2, <3>1 DEF WellOwned, Busy, PlayedBy
  <2> QED
    BY <1>2, <2>3 DEF S_StartSound
<1>3. CASE S_UpdateSounds \/ SetupLevel
  <2>1. PICK stop : SoundIs(S_StopChannel(Sound, stop)) /\ (alive' = alive \/ (alive' = {} /\ stop = Busy(Sound)))
    BY <1>3 DEF S_UpdateSounds, SetupLevel
  <2>2. Sound' = S_StopChannel(Sound, stop)
    BY <1>1, <2>1 DEF S_StopChannel
  <2>3. WellOwned(Sound', alive)
    BY <2>2, StoppedIsOwned
  <2>4. CASE alive' = {} /\ stop = Busy(Sound)
    <3>1. \A c \in Channel : Sound'.channel[c].sfx = IF c \in stop THEN Silent ELSE Sound.channel[c].sfx
      <4>1. Silenced(Sound', Sound, stop)
        BY <2>2, StoppedIsOwned
      <4> QED
        BY <4>1 DEF Silenced
    <3>2. \A c \in Channel : Sound'.channel[c].sfx = Silent
      BY <2>4, <3>1 DEF Busy
    <3>3. Busy(Sound') = {}
      BY <3>2 DEF Busy
    <3> QED
      BY <2>3, <2>4, <3>3 DEF WellOwned
  <2> QED
    BY <2>1, <2>3, <2>4
<1>4. CASE P_SpawnMobj
  BY <1>4 DEF P_SpawnMobj, WellOwned, Sound
<1>5. CASE P_RemoveMobj
  <2>1. PICK t \in alive : alive' = alive \ {t} /\ SoundIs(S_StopSound(Sound, t))
    BY <1>5 DEF P_RemoveMobj
  <2>2. Sound' = S_StopSound(Sound, t)
    BY <1>1, <2>1 DEF S_StopSound, S_StopChannel
  <2>3. WellOwned(Sound', alive) /\ \A c \in Busy(Sound') : Sound'.channel[c].origin # t
    BY <2>2, NoneLeft
  <2> QED
    BY <2>1, <2>3 DEF WellOwned
<1>6. CASE UNCHANGED soundVars
  BY <1>6 DEF soundVars, Sound
<1> QED
  BY <1>2, <1>3, <1>4, <1>5, <1>6 DEF SoundNext

\* With any number of channels, sounds and things: no channel plays for a thing
\* that is gone, no two for one thing, and a sound's usefulness counts them.
THEOREM ChannelsAreOwned == EngineSpec => []ChannelsOwned
<1>1. EngineInit => SoundInv
  <2> SUFFICES ASSUME SoundInit PROVE SoundInv
    BY DEF EngineInit
  <2>1. Busy(Sound) = {}
    BY DEF SoundInit, Busy, Sound, Channels
  <2>2. \A x \in Sfx : PlayedBy(Sound, x) = {}
    BY SoundAssumption DEF SoundInit, PlayedBy, Sound, Channels
  <2> QED
    BY <2>1, <2>2, FS_EmptySet DEF SoundInit, SoundInv, WellOwned, Sound, Channels
<1>2. [EngineNext]_engineVars => [SoundNext]_soundVars
  BY DEF EngineNext, engineVars, Updating, Deciding, Caching, Playing, Sounding
<1>3. SoundInv => ChannelsOwned
  BY DEF SoundInv, WellOwned, ChannelsOwned, Sound, Channels
<1> QED
  BY <1>1, <1>2, <1>3, SoundKept, PTL DEF EngineSpec

=============================================================================
