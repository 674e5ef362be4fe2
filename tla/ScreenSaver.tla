---------------------------- MODULE ScreenSaver ----------------------------
(***************************************************************************)
(* The screen saver of ctrlboard (screen.c, the parts of SceneRun that use *)
(* it, and the web server's).  The main thread counts the idle time down   *)
(* with a tick counter that wraps, and turns the screen off when it is     *)
(* over; input turns it on again.  The thread of the web server changes    *)
(* the type of the screen saver and refreshes it during an upload, without *)
(* a lock: ScreenSaverCheck is modelled read by read.                      *)
(*                                                                         *)
(* Time is SDL_GetTicks, in units of which a second has Second.            *)
(***************************************************************************)
EXTENDS Naturals

CONSTANTS
  Wrap,      \* the counter wraps: 2^32
  Second,    \* 1000
  TimeOut,   \* theConfig.screensaver_time, in ticks
  MaxLag     \* bound: ticks between two frames

Types == {"none", "clock", "blank"}  \* "photo" is treated like "clock"

ASSUME TickAssumption ==
  /\ {Wrap, Second, TimeOut, MaxLag} \subseteq Nat \ {0}
  /\ Second + MaxLag < Wrap

VARIABLES
  now,          \* SDL_GetTicks
  lag,          \* ticks since the frame began
  lastTick,     \* screenSaverLastTick
  countDown,    \* screenSaverCountDown; 0 stands for all that is not above 0
  screenOff,
  type,         \* theConfig.screensaver_type
  gui,          \* where the main thread is in its frame
  tick, count,  \* its local values in ScreenSaverCheck; 0 elsewhere
  input,        \* is there an input event, of the user or another processor?
  quitValue,    \* has anybody called SceneQuit?
  server,       \* has the web server seen that it must refresh?
  idle,         \* history: ticks since the last refresh, up to TimeOut
  raced,        \* history: did the last refresh come during ScreenSaverCheck?
  webDark       \* history: did the web choose another type for a dark screen?

saver == <<lastTick, countDown, screenOff>>
local == <<gui, tick, count>>
vars  == <<now, lag, saver, type, local, input, quitValue, server, idle, raced, webDark>>

Goto(l)  == gui' = l
Saving   == screenOff \/ countDown = 0      \* ScreenSaverIsScreenSaving
Checking == gui \in {"check", "store", "dark", "off"}

ScreenSaverRefreshHalf ==
  /\ countDown' = TimeOut
  /\ screenOff' = (screenOff /\ type # "blank")
  /\ idle' = 0 /\ raced' = Checking
  /\ UNCHANGED lastTick

ScreenSaverRefresh ==
  /\ lastTick' = now /\ countDown' = TimeOut
  /\ screenOff' = (screenOff /\ type # "blank")
  /\ idle' = 0 /\ raced' = Checking

(* What ScreenSaverCheck takes for the time since lastTick.                *)
Diff == IF tick >= lastTick THEN tick - lastTick ELSE Wrap - 1 - lastTick + tick

-------------------------------------------------------------------------------
(* One frame of SceneRun.                                                  *)

CheckQuitValueDark ==
  /\ gui = "frame"
  /\ Goto(IF quitValue THEN "ended" ELSE "input")
  /\ lag' = 0
  /\ UNCHANGED <<now, saver, idle, raced, type, tick, count, input, quitValue, server, webDark>>

CheckQuitValue ==
  /\ gui = "frame"
  /\ Goto(IF quitValue THEN "ended" ELSE "input")
  /\ lag' = 0
  /\ IF quitValue /\ Saving /\ type = "blank"
     THEN ScreenSaverRefresh ELSE UNCHANGED <<saver, idle, raced>>
  /\ UNCHANGED <<now, type, tick, count, input, quitValue, server, webDark>>

(* CheckExternal and the SDL events: each refreshes before anything else,  *)
(* and then a page may choose another type, even while the screen is dark. *)
Events ==
  /\ gui = "input" /\ Goto("draw")
  /\ IF input
     THEN /\ ScreenSaverRefresh /\ input' = FALSE
          /\ type' \in {type, "clock", "blank"}
          /\ webDark' = (webDark /\ type' # "blank")
     ELSE UNCHANGED <<saver, idle, raced, type, input, webDark>>
  /\ UNCHANGED <<now, lag, tick, count, quitValue, server>>

(* The tick is read when the screen is on and has a screen saver.          *)
ReadTick ==
  /\ gui = "draw"
  /\ IF ~ screenOff /\ type # "none"
     THEN Goto("check") /\ tick' = now
     ELSE Goto("frame") /\ UNCHANGED tick
  /\ UNCHANGED <<now, lag, saver, type, count, input, quitValue, server, idle, raced, webDark>>

ScreenSaverCheckUnsigned ==
  /\ gui = "check"
  /\ IF Diff >= Second
     THEN /\ Goto("store") /\ UNCHANGED tick
          /\ count' = (Wrap + countDown - Diff) % Wrap
     ELSE Goto("frame") /\ tick' = 0 /\ UNCHANGED count
  /\ UNCHANGED <<now, lag, saver, type, input, quitValue, server, idle, raced, webDark>>

ScreenSaverCheckEachFrame ==
  /\ gui = "check"
  /\ IF Diff >= Second
     THEN /\ Goto("store") /\ UNCHANGED <<tick, lastTick>>
          /\ count' = IF countDown > Diff THEN countDown - Diff ELSE 0
     ELSE Goto("frame") /\ tick' = 0 /\ lastTick' = tick /\ UNCHANGED count
  /\ UNCHANGED <<now, lag, countDown, screenOff, type, input, quitValue, server, idle, raced, webDark>>

(* Less than a second is left to add up.                                   *)
ScreenSaverCheck ==
  /\ gui = "check"
  /\ IF Diff >= Second
     THEN /\ Goto("store") /\ UNCHANGED tick
          /\ count' = IF countDown > Diff THEN countDown - Diff ELSE 0
     ELSE Goto("frame") /\ tick' = 0 /\ UNCHANGED count
  /\ UNCHANGED <<now, lag, saver, type, input, quitValue, server, idle, raced, webDark>>

StoreCount ==
  /\ gui = "store"
  /\ countDown' = count /\ lastTick' = tick
  /\ Goto(IF count = 0 THEN "dark" ELSE "frame")
  /\ tick' = 0 /\ count' = 0
  /\ UNCHANGED <<now, lag, screenOff, type, input, quitValue, server, idle, raced, webDark>>

ScreenSaverAny ==
  /\ gui = "dark" /\ Goto("off")
  /\ UNCHANGED <<now, lag, saver, type, tick, count, input, quitValue, server, idle, raced, webDark>>

(* Only a blank screen is turned off; the others show a page.              *)
ScreenSaverBlank ==
  /\ gui = "dark" /\ Goto(IF type = "blank" THEN "off" ELSE "frame")
  /\ UNCHANGED <<now, lag, saver, type, tick, count, input, quitValue, server, idle, raced, webDark>>

ScreenOff ==
  /\ gui = "off" /\ Goto("frame")
  /\ screenOff' = TRUE
  /\ UNCHANGED <<now, lag, lastTick, countDown, type, tick, count, input, quitValue, server, idle, raced, webDark>>

-------------------------------------------------------------------------------
(* The thread of the web server.                                           *)

(* ?action=setting&screensaver_type=...  The change is blamed when the     *)
(* screen is dark, or about to be.                                         *)
WebType(t) ==
  /\ type # t /\ type' = t
  /\ webDark' = IF gui = "ended" THEN webDark
                 ELSE t # "blank" /\ (screenOff \/ gui = "off")
  /\ UNCHANGED <<now, lag, saver, local, input, quitValue, server, idle, raced>>

(* A part of an upload: the test, and then the refresh.                    *)
WebPost ==
  /\ ~ server /\ Saving /\ type = "blank"
  /\ server' = TRUE
  /\ UNCHANGED <<now, lag, saver, type, local, input, quitValue, idle, raced, webDark>>

WebRefresh ==
  /\ server /\ server' = FALSE
  /\ ScreenSaverRefresh
  /\ UNCHANGED <<now, lag, type, local, input, quitValue, webDark>>

-------------------------------------------------------------------------------
(* The world.                                                              *)

Tick ==
  /\ lag < MaxLag /\ lag' = lag + 1
  /\ now' = IF now = Wrap - 1 THEN 0 ELSE now + 1
  /\ idle' = IF idle < TimeOut THEN idle + 1 ELSE idle
  /\ UNCHANGED <<saver, type, local, input, quitValue, server, raced, webDark>>

Input ==
  /\ ~ input /\ input' = TRUE
  /\ UNCHANGED <<now, lag, saver, type, local, quitValue, server, idle, raced, webDark>>

SceneQuit ==
  /\ ~ quitValue /\ quitValue' = TRUE
  /\ UNCHANGED <<now, lag, saver, type, local, input, server, idle, raced, webDark>>

-------------------------------------------------------------------------------
(* ScreenInit, some time after the board was started.                      *)
Init ==
  /\ now \in 0 .. Wrap - 1 /\ lag = 0
  /\ lastTick = now /\ countDown = TimeOut /\ screenOff = FALSE
  /\ type \in Types
  /\ gui = "frame" /\ tick = 0 /\ count = 0
  /\ input = FALSE /\ quitValue = FALSE /\ server = FALSE
  /\ idle = 0 /\ raced = FALSE /\ webDark = FALSE

SceneRun == \/ CheckQuitValue \/ Events \/ ReadTick \/ ScreenSaverCheck
            \/ StoreCount \/ ScreenSaverBlank \/ ScreenOff
Web   == WebPost \/ WebRefresh \/ \E t \in Types : WebType(t)
World == Tick \/ Input \/ SceneQuit
Next  == SceneRun \/ Web \/ World

Spec == Init /\ [][Next]_vars
FairSpec == Spec /\ WF_vars(SceneRun) /\ WF_vars(Tick) /\ WF_vars(WebRefresh)

-------------------------------------------------------------------------------
(* Every variable keeps its type (screen.c).                               *)
TypeOK ==
  /\ now \in 0 .. Wrap - 1 /\ lastTick \in 0 .. Wrap - 1 /\ tick \in 0 .. Wrap - 1
  /\ lag \in 0 .. MaxLag
  /\ countDown \in 0 .. TimeOut /\ count \in 0 .. TimeOut /\ idle \in 0 .. TimeOut
  /\ screenOff \in BOOLEAN /\ type \in Types
  /\ gui \in {"frame", "input", "draw", "check", "store", "dark", "off", "ended"}
  /\ input \in BOOLEAN /\ quitValue \in BOOLEAN /\ server \in BOOLEAN
  /\ raced \in BOOLEAN /\ webDark \in BOOLEAN

(* However the counter wraps and the type changes, the screen is turned    *)
(* off only a whole idle time after the last refresh, except when that was *)
(* the web server's and came in the middle of ScreenSaverCheck.            *)
OffOnlyIdle == [][screenOff' /\ ~ screenOff => idle = TimeOut \/ raced]_vars

(* A program that ends, for an upgrade perhaps, leaves the screen on, if   *)
(* the web did not choose another type for a dark screen (CheckQuitValue). *)
LitAtEnd == gui = "ended" /\ screenOff => webDark

(* Input turns a dark screen on again, with the same exception: then no    *)
(* touch does, until another type is chosen (ScreenSaverRefresh).          *)
Wakes == input /\ screenOff ~> ~ screenOff \/ webDark

(* A blank screen saver that nobody disturbs turns the screen off, however *)
(* the counter wraps (ScreenSaverCheck).                                   *)
Sleeps ==
  <>[](type = "blank" /\ ~ input /\ ~ server /\ gui # "ended") => <>[]screenOff
=============================================================================
