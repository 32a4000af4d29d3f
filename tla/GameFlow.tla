------------------------------ MODULE GameFlow ------------------------------
(***************************************************************************)
(* What a tic does with requests that change the game (PureDOOM.h): the    *)
(* menu's (new game, load, save, end game), the level's (exit, death) and  *)
(* the title loop's.  They meet in one variable, gameaction, which holds   *)
(* one request; D_DoomLoop's order decides which of two is lost.  A save   *)
(* takes a detour through the player's command, which is run Lag tics      *)
(* after it was built (TicLoop).  The game is shareware, as doom1.wad is.  *)
(***************************************************************************)
EXTENDS Integers, Sequences

CONSTANTS
    VictoryMap,     \* 8, the episode's last
    Lag,            \* how far maketic leads gametic in the end, 5
    NoStateTics,    \* 10: cnt of WI_initNoState
    TitleSteps      \* 6: pages and demos of the title loop, in turn

ASSUME GameFlowAssumption ==
    /\ {VictoryMap, Lag, NoStateTics, TitleSteps} \subseteq Nat \ {0}
    /\ TitleSteps % 2 = 0 /\ Lag <= NoStateTics

VARIABLES
    flow,           \* D_DoomLoop: "events", "advance", "reborn", "actions", "command", "main"
    gameaction, gamestate, gamemap, wi,     \* wi: the intermission's state, and cnt
    usergame, demoplayback, advancedemo, demosequence,
    playerstate,
    saveMenu,       \* M_SaveGame has let the player in, M_DoSave is still to come
    sendsave,
    inFlight,       \* netcmds from gametic to maketic - 1
    savedGame,      \* that of the saved games which the player will load, or NoGame
    ended,          \* history: End Game was chosen in this tic
    owed,           \* history: a request this tic's loop must carry out, or "none"
    savedFor        \* history: the level now is the one the last save was asked for
                    \* in ("same"), the one after it ("next"), or another ("other")

flowVars == <<flow, gameaction, gamestate, gamemap, wi, usergame, demoplayback,
              advancedemo, demosequence, playerstate, saveMenu, sendsave, inFlight,
              savedGame, ended, owed, savedFor>>

Blank == "none"                     \* a command without BT_SPECIAL
SaveCommand == "save"               \* BT_SPECIAL | BTS_SAVEGAME
NoGame == [map |-> 0, player |-> "none"]

(* D_DoomMain has called D_StartTitle; gamestate is still 0.               *)
FlowInit ==
    /\ flow = "events" /\ gameaction = "nothing" /\ gamestate = "level" /\ gamemap = 1
    /\ wi = [state |-> "off", cnt |-> 0]
    /\ usergame = FALSE /\ demoplayback = FALSE /\ advancedemo = TRUE
    /\ demosequence = -1 /\ playerstate = "live"
    /\ saveMenu = FALSE /\ sendsave = FALSE /\ inFlight = <<>> /\ savedGame = NoGame
    /\ ended = FALSE /\ owed = "none" /\ savedFor = "other"

-----------------------------------------------------------------------------
(* D_ProcessEvents: any number of keys, so any number of menu requests.    *)
(* A menu that is open hides the others.                                   *)
G_DeferedInitNew ==
    /\ ~saveMenu
    /\ gameaction' = "newgame" /\ owed' = "newgame"
    /\ UNCHANGED <<advancedemo, demosequence, saveMenu, sendsave, ended, savedFor>>

G_LoadGame ==
    /\ ~saveMenu /\ savedGame # NoGame
    /\ gameaction' = "loadgame" /\ owed' = "loadgame"
    /\ UNCHANGED <<advancedemo, demosequence, saveMenu, sendsave, ended, savedFor>>

(* M_EndGameResponse calls D_StartTitle.                                   *)
M_EndGame ==
    /\ ~saveMenu /\ usergame
    /\ gameaction' = "nothing" /\ demosequence' = -1 /\ advancedemo' = TRUE
    /\ ended' = TRUE /\ owed' = "none"
    /\ UNCHANGED <<saveMenu, sendsave, savedFor>>

M_SaveGame ==
    /\ ~saveMenu /\ usergame /\ gamestate = "level"
    /\ saveMenu' = TRUE
    /\ UNCHANGED <<gameaction, advancedemo, demosequence, sendsave, ended, owed, savedFor>>

(* The menu may be open for long: gamestate is not looked at again.        *)
NoSaveOnItsWay == \A i \in DOMAIN inFlight : inFlight[i] = Blank   \* a bound
M_DoSave ==
    /\ saveMenu /\ NoSaveOnItsWay
    /\ saveMenu' = FALSE /\ sendsave' = TRUE
    /\ savedFor' = IF gamestate = "level" THEN "same" ELSE "other"
    /\ UNCHANGED <<gameaction, advancedemo, demosequence, ended, owed>>

LeaveMenu ==
    /\ saveMenu
    /\ saveMenu' = FALSE
    /\ UNCHANGED <<gameaction, advancedemo, demosequence, sendsave, ended, owed, savedFor>>

D_ProcessEvents ==
    /\ flow = "events"
    /\ G_DeferedInitNew \/ G_LoadGame \/ M_EndGame \/ M_SaveGame \/ M_DoSave \/ LeaveMenu
    /\ UNCHANGED <<flow, gamestate, gamemap, wi, usergame, demoplayback, playerstate,
                   inFlight, savedGame>>

G_BuildTiccmd ==
    /\ flow = "events" /\ flow' = "advance"
    /\ inFlight' = Append(inFlight, IF sendsave THEN SaveCommand ELSE Blank)
    /\ sendsave' = FALSE
    /\ UNCHANGED <<gameaction, gamestate, gamemap, wi, usergame, demoplayback, advancedemo,
                   demosequence, playerstate, saveMenu, savedGame, ended, owed, savedFor>>

-----------------------------------------------------------------------------
(* The title loop.  Pages and demos take turns; G_DeferedPlayDemo.         *)
IsDemo(n) == n % 2 = 1
D_DoAdvanceDemo ==
    /\ flow = "advance" /\ flow' = "reborn"
    /\ IF advancedemo
       THEN LET n == (demosequence + 1) % TitleSteps
            IN  /\ demosequence' = n /\ advancedemo' = FALSE
                /\ playerstate' = "live" /\ usergame' = FALSE
                /\ gameaction' = IF IsDemo(n) THEN "playdemo" ELSE "nothing"
                /\ gamestate' = IF IsDemo(n) THEN gamestate ELSE "demoscreen"
                /\ owed' = "none" /\ savedFor' = "other"
       ELSE UNCHANGED <<demosequence, advancedemo, playerstate, usergame, gameaction,
                        gamestate, owed, savedFor>>
    /\ UNCHANGED <<gamemap, wi, demoplayback, saveMenu, sendsave, inFlight, savedGame, ended>>

-----------------------------------------------------------------------------
(* G_Ticker: a dead player who pressed use starts the level again.         *)
G_DoReborn ==
    /\ flow = "reborn" /\ flow' = "actions"
    /\ IF playerstate = "reborn"
       THEN gameaction' = "loadlevel" /\ owed' = "none" /\ savedFor' = "other"
       ELSE UNCHANGED <<gameaction, owed, savedFor>>
    /\ UNCHANGED <<gamestate, gamemap, wi, usergame, demoplayback, advancedemo, demosequence,
                   playerstate, saveMenu, sendsave, inFlight, savedGame, ended>>

(* Loading a level spawns the player, who lives; P_UnArchivePlayers gives  *)
(* him back the state he was saved in.                                     *)
G_DoLoadLevel(map, state, left) ==
    /\ gamestate' = "level" /\ gamemap' = map /\ playerstate' = state
    /\ gameaction' = "nothing" /\ sendsave' = FALSE
    /\ savedFor' = IF left # "next" THEN "other"
                   ELSE IF savedFor = "same" THEN "next" ELSE savedFor
    /\ UNCHANGED <<wi, advancedemo, demosequence, saveMenu, inFlight>>

(* Mutant: a game that is loaded during a demo does not end the demo.      *)
InitNewKeepsDemo(map, state) ==
    usergame' = TRUE /\ UNCHANGED demoplayback /\ G_DoLoadLevel(map, state, "other")
G_InitNew(map, state) ==
    usergame' = TRUE /\ demoplayback' = FALSE /\ G_DoLoadLevel(map, state, "other")

LoadLevel ==
    /\ gameaction = "loadlevel"
    /\ G_DoLoadLevel(gamemap, "live", "other")
    /\ UNCHANGED <<usergame, demoplayback, savedGame>>

G_DoNewGame ==
    gameaction = "newgame" /\ G_InitNew(1, "live") /\ UNCHANGED savedGame

G_DoLoadGame ==
    /\ gameaction = "loadgame"
    /\ G_InitNew(savedGame.map, savedGame.player)
    /\ UNCHANGED savedGame

G_DoSaveGame ==
    /\ gameaction = "savegame" /\ gameaction' = "nothing"
    /\ savedGame' \in {savedGame, [map |-> gamemap, player |-> playerstate]}
    /\ UNCHANGED <<gamestate, gamemap, wi, usergame, demoplayback, advancedemo, demosequence,
                   playerstate, saveMenu, sendsave, inFlight, savedFor>>

(* A demo of another version is not played.                                *)
G_DoPlayDemo ==
    /\ gameaction = "playdemo"
    /\ \/ /\ \E map \in 1 .. VictoryMap : G_DoLoadLevel(map, "live", "other")
          /\ usergame' = FALSE /\ demoplayback' = TRUE
       \/ /\ gameaction' = "nothing"
          /\ UNCHANGED <<gamestate, gamemap, wi, usergame, demoplayback, advancedemo,
                         demosequence, playerstate, saveMenu, sendsave, inFlight, savedFor>>
    /\ UNCHANGED savedGame

G_DoCompleted ==
    /\ gameaction = "completed"
    /\ IF gamemap = VictoryMap
       THEN gameaction' = "victory" /\ UNCHANGED <<gamestate, wi>>
       ELSE /\ gameaction' = "nothing" /\ gamestate' = "intermission"
            /\ wi' = [state |-> "StatCount", cnt |-> 0]
    /\ UNCHANGED <<gamemap, usergame, demoplayback, advancedemo, demosequence, playerstate,
                   saveMenu, sendsave, inFlight, savedGame, savedFor>>

F_StartFinale ==
    /\ gameaction = "victory" /\ gameaction' = "nothing" /\ gamestate' = "finale"
    /\ UNCHANGED <<gamemap, wi, usergame, demoplayback, advancedemo, demosequence, playerstate,
                   saveMenu, sendsave, inFlight, savedGame, savedFor>>

(* The next map is wminfo.next; the secret level's detour is left out.     *)
G_DoWorldDone ==
    /\ gameaction = "worlddone"
    /\ G_DoLoadLevel(gamemap + 1, "live", "next")
    /\ UNCHANGED <<usergame, demoplayback, savedGame>>

Carried == IF owed = gameaction \/ (owed = "exit" /\ gameaction = "completed")
           THEN "none" ELSE owed
GameActions ==
    /\ flow = "actions"
    /\ \/ LoadLevel \/ G_DoNewGame \/ G_DoLoadGame \/ G_DoSaveGame \/ G_DoPlayDemo
       \/ G_DoCompleted \/ F_StartFinale \/ G_DoWorldDone
    /\ owed' = Carried
    /\ UNCHANGED <<flow, ended>>

ActionsOver ==
    /\ flow = "actions" /\ gameaction = "nothing" /\ flow' = "command"
    /\ UNCHANGED <<gameaction, gamestate, gamemap, wi, usergame, demoplayback, advancedemo,
                   demosequence, playerstate, saveMenu, sendsave, inFlight, savedGame,
                   ended, owed, savedFor>>

-----------------------------------------------------------------------------
(* The player's command is read, or the demo's instead of it: but not when *)
(* the demo is at its end.  Demos save no games.                           *)
Obey(command) == gameaction' = IF command = SaveCommand THEN "savegame" ELSE gameaction

ReadCommand ==
    /\ flow = "command" /\ flow' = "main"
    /\ inFlight' = Tail(inFlight)
    /\ \/ ~demoplayback /\ Obey(Head(inFlight)) /\ UNCHANGED <<demoplayback, advancedemo>>
       \/ demoplayback /\ Obey(Blank) /\ UNCHANGED <<demoplayback, advancedemo>>
       \/ (* G_CheckDemoStatus, D_AdvanceDemo *)
          demoplayback /\ Obey(Head(inFlight)) /\ demoplayback' = FALSE /\ advancedemo' = TRUE
    /\ UNCHANGED <<gamestate, gamemap, wi, usergame, demosequence, playerstate, saveMenu,
                   sendsave, savedGame, ended, owed, savedFor>>

(* P_Ticker, unless it stands still: paused, or with a menu open.  A player*)
(* may die; a dead one may press use.  Lines, sectors and monsters may end *)
(* the level, even when the player is dead.                                *)
(*                                                                         *)
(* Mutant: G_ExitLevel does not replace a request that is there.           *)
ExitKeepsRequest == IF gameaction = "nothing" THEN "completed" ELSE gameaction
G_ExitLevel == "completed"

P_Ticker ==
    /\ gamestate = "level"
    /\ playerstate' \in CASE playerstate = "live" -> {"live", "dead"}
                          [] playerstate = "dead" -> {"dead", "reborn"}
                          [] OTHER                -> {playerstate}
    /\ \/ gameaction' = G_ExitLevel /\ owed' = "exit"
       \/ UNCHANGED <<gameaction, owed>>
    /\ UNCHANGED <<wi, advancedemo>>

(* WI_Ticker; the player may speed up the first two states.                *)
(*                                                                         *)
(* Mutant: a key ends the whole intermission.                              *)
EndsAtKey ==
    /\ gamestate = "intermission" /\ gameaction' \in {gameaction, "worlddone"}
    /\ UNCHANGED <<wi, playerstate, advancedemo, owed>>

WI_initNoState == [state |-> "NoState", cnt |-> NoStateTics]

WI_Ticker ==
    /\ gamestate = "intermission"
    /\ \/ wi.state \in {"StatCount", "ShowNextLoc"} /\ UNCHANGED <<wi, gameaction>>
       \/ /\ wi.state = "StatCount" /\ wi' = [state |-> "ShowNextLoc", cnt |-> 0]
          /\ UNCHANGED gameaction
       \/ /\ wi.state = "ShowNextLoc" /\ wi' = WI_initNoState
          /\ UNCHANGED gameaction
       \/ /\ wi.state = "NoState" /\ wi' = [wi EXCEPT !.cnt = @ - 1]
          /\ gameaction' = IF wi.cnt = 1 THEN "worlddone" ELSE gameaction
    /\ UNCHANGED <<playerstate, advancedemo, owed>>

D_PageTicker ==
    /\ gamestate = "demoscreen"
    /\ advancedemo' \in {advancedemo, TRUE}
    /\ UNCHANGED <<wi, gameaction, playerstate, owed>>

(* The episode's finale goes on until the player leaves it by the menu.    *)
F_Ticker == gamestate = "finale" /\ UNCHANGED <<wi, gameaction, playerstate, advancedemo, owed>>

(* The tic's main part; then the frame, in which NetUpdate may let maketic *)
(* skip slots.                                                             *)
FlowTicEnds ==
    /\ flow = "main" /\ flow' = "events"
    /\ P_Ticker \/ WI_Ticker \/ D_PageTicker \/ F_Ticker
    /\ \E n \in 0 .. Lag - Len(inFlight) : inFlight' = inFlight \o [i \in 1 .. n |-> Blank]
    /\ ended' = FALSE
    /\ UNCHANGED <<gamestate, gamemap, usergame, demoplayback, demosequence, saveMenu,
                   sendsave, savedGame, savedFor>>

FlowNext ==
    \/ D_ProcessEvents \/ G_BuildTiccmd \/ D_DoAdvanceDemo \/ G_DoReborn
    \/ GameActions \/ ActionsOver \/ ReadCommand \/ FlowTicEnds

FlowSpec == FlowInit /\ [][FlowNext]_flowVars

-----------------------------------------------------------------------------
(* The title loop never takes a game away from its player: when it goes on *)
(* while he plays, he has just chosen End Game.  And his game is never run *)
(* with the commands of a demo.                                            *)
GameKept ==
    /\ flow = "advance" /\ advancedemo /\ usergame => ended
    /\ ~(usergame /\ demoplayback)

(* A request is carried out in the tic it was made in, or for an exit in   *)
(* the next, whatever else is asked for: the level's exit, whose switch    *)
(* works once, is not lost to a save.  Only a later choice in the menu,    *)
(* the title loop's next step and a dead player's new life come before it. *)
RequestsKept == flow \in {"command", "main"} => owed = "none"

(* A save is run some tics after it was asked for, and written in the tic  *)
(* after that; it is never written in the level that follows the one it    *)
(* was asked for in, because an intermission takes longer.                 *)
SaveOfItsLevel == flow = "actions" /\ gameaction = "savegame" => savedFor # "next"

=============================================================================
