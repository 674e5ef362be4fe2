------------------------- MODULE ScreenSaver_proofs -------------------------
(***************************************************************************)
(* The screen saver never turns the screen off early, and ends with the    *)
(* screen on, for every counter width, idle time and length of a second.   *)
(***************************************************************************)
EXTENDS ScreenSaver, Integers, TLAPS

(* The time from a to b, when the counter wraps at most once in between.   *)
Elapsed(a, b) == IF b >= a THEN b - a ELSE Wrap - a + b

(* What has been counted down and what has still to be counted is not more *)
(* than the idle time: lastTick is where counting goes on, but inside of   *)
(* ScreenSaverCheck it is tick.                                            *)
Counted ==
  ~ raced =>
    \/ idle = TimeOut
    \/ gui = "check" /\ TimeOut + Elapsed(lastTick, tick) + Elapsed(tick, now) <= idle + countDown
    \/ gui = "store" /\ TimeOut + Elapsed(tick, now) <= idle + count
    \/ gui \notin {"check", "store"} /\ TimeOut + Elapsed(lastTick, now) <= idle + countDown

(* It is decided to turn the screen off when nothing is left to count.     *)
Spent == gui \in {"dark", "off"} /\ ~ raced => countDown = 0

(* Only a screen that the web made so is dark without a blank screen saver.*)
DarkIsBlank == (screenOff \/ gui = "off") /\ type # "blank" => webDark

(* TypeOK in two parts, of which each is for a prover of its own.          *)
Numbers ==
  /\ now \in 0 .. Wrap - 1 /\ lastTick \in 0 .. Wrap - 1 /\ tick \in 0 .. Wrap - 1
  /\ lag \in 0 .. MaxLag
  /\ countDown \in 0 .. TimeOut /\ count \in 0 .. TimeOut /\ idle \in 0 .. TimeOut
Flags ==
  /\ screenOff \in BOOLEAN /\ type \in Types
  /\ gui \in {"frame", "input", "draw", "check", "store", "dark", "off", "ended"}
  /\ input \in BOOLEAN /\ quitValue \in BOOLEAN /\ server \in BOOLEAN
  /\ raced \in BOOLEAN /\ webDark \in BOOLEAN

IInv == TypeOK /\ Counted /\ Spent /\ DarkIsBlank /\ LitAtEnd

(* How the elapsed time grows, splits, and is taken by ScreenSaverCheck.   *)
LEMMA ElapsedFacts ==
  ASSUME NEW a \in 0 .. Wrap - 1, NEW b \in 0 .. Wrap - 1, NEW c \in 0 .. Wrap - 1
  PROVE  /\ Elapsed(a, b) \in Nat
         /\ Elapsed(a, a) = 0
         /\ Elapsed(a, c) <= Elapsed(a, b) + Elapsed(b, c)
         /\ Elapsed(a, IF b = Wrap - 1 THEN 0 ELSE b + 1) <= Elapsed(a, b) + 1
BY TickAssumption, SMT DEF Elapsed

LEMMA DiffFacts ==
  ASSUME TypeOK
  PROVE  /\ Diff \in Int
         /\ Diff <= Elapsed(lastTick, tick)
         /\ Diff >= 0
BY TickAssumption, SMT DEF Diff, Elapsed, TypeOK

LEMMA Initially == Init => IInv
<1> SUFFICES ASSUME Init PROVE IInv
  OBVIOUS
<1>1. TypeOK
  <2>1. Numbers
    BY TickAssumption, SMT DEF Init, Numbers
  <2>2. Flags
    BY DEF Init, Flags
  <2> QED
    BY <2>1, <2>2 DEF TypeOK, Numbers, Flags
<1>2. Elapsed(lastTick, now) = 0
  BY <1>1, ElapsedFacts DEF Init, TypeOK
<1>3. Counted
  BY <1>1, <1>2, TickAssumption, SMT DEF Init, Counted, TypeOK
<1> QED
  BY <1>1, <1>3 DEF Init, IInv, Spent, DarkIsBlank, LitAtEnd

LEMMA NumbersKept == TypeOK /\ [Next]_vars => Numbers'
<1> SUFFICES ASSUME TypeOK, [Next]_vars PROVE Numbers'
  OBVIOUS
<1> USE TickAssumption DEF Numbers
<1>a. Numbers
  BY DEF TypeOK
<1>1. ASSUME ScreenSaverRefresh, UNCHANGED <<now, tick, count>>, lag' \in 0 .. MaxLag PROVE Numbers'
  BY <1>a, <1>1, SMT DEF ScreenSaverRefresh
<1>2. ASSUME UNCHANGED <<now, lastTick, countDown, idle, count>>,
             tick' \in {tick, now}, lag' \in {0, lag}
      PROVE  Numbers'
  BY <1>a, <1>2, SMT
<1>3. CASE CheckQuitValue
  <2>1. lag' = 0 /\ UNCHANGED <<now, tick, count>>
    BY <1>3 DEF CheckQuitValue
  <2>2. ScreenSaverRefresh \/ UNCHANGED <<lastTick, countDown, idle>>
    BY <1>3 DEF CheckQuitValue, saver
  <2>3. 0 \in 0 .. MaxLag
    BY SMT
  <2> QED
    BY <1>1, <1>2, <2>1, <2>2, <2>3
<1>4. CASE Events
  <2>1. UNCHANGED <<now, lag, tick, count>>
    BY <1>4 DEF Events
  <2>2. ScreenSaverRefresh \/ UNCHANGED <<lastTick, countDown, idle>>
    BY <1>4 DEF Events, saver
  <2> QED
    BY <1>a, <1>1, <1>2, <2>1, <2>2
<1>5. CASE ReadTick
  BY <1>2, <1>5 DEF ReadTick, saver
<1>6. CASE ScreenSaverCheck
  <2>1. count' \in 0 .. TimeOut
    BY <1>a, <1>6, DiffFacts, SMT DEF ScreenSaverCheck
  <2>2. UNCHANGED <<now, lag, lastTick, countDown, idle>> /\ tick' \in {tick, 0}
    BY <1>6 DEF ScreenSaverCheck, saver
  <2> QED
    BY <1>a, <2>1, <2>2, SMT
<1>7. CASE StoreCount
  BY <1>a, <1>7, SMT DEF StoreCount
<1>8. CASE ScreenSaverBlank \/ ScreenOff
  BY <1>2, <1>8 DEF ScreenSaverBlank, ScreenOff, saver
<1>9. ASSUME NEW t \in Types, WebType(t) PROVE Numbers'
  BY <1>2, <1>9 DEF WebType, saver, local
<1>10. CASE WebPost
  BY <1>2, <1>10 DEF WebPost, saver, local
<1>11. CASE WebRefresh
  BY <1>a, <1>1, <1>11 DEF WebRefresh, local
<1>12. CASE Tick
  BY <1>a, <1>12, SMT DEF Tick, saver, local
<1>13. CASE Input \/ SceneQuit \/ UNCHANGED vars
  BY <1>2, <1>13 DEF Input, SceneQuit, vars, saver, local
<1> QED
  BY <1>3, <1>4, <1>5, <1>6, <1>7, <1>8, <1>9, <1>10, <1>11, <1>12, <1>13
     DEF Next, SceneRun, Web, World

LEMMA FlagsKept == TypeOK /\ [Next]_vars => Flags'
<1> SUFFICES ASSUME Flags, [Next]_vars PROVE Flags'
  BY DEF TypeOK, Flags
<1> USE DEF Flags, Types
<1>1. ScreenSaverRefresh => screenOff' \in BOOLEAN /\ raced' \in BOOLEAN
  BY DEF ScreenSaverRefresh, Checking
<1>2. CASE CheckQuitValue
  BY <1>1, <1>2 DEF CheckQuitValue, Goto, saver
<1>3. CASE Events
  BY <1>1, <1>3 DEF Events, Goto, saver
<1>4. CASE ReadTick
  BY <1>4 DEF ReadTick, Goto, saver
<1>5. CASE ScreenSaverCheck
  BY <1>5 DEF ScreenSaverCheck, Goto, saver
<1>6. CASE StoreCount
  BY <1>6 DEF StoreCount, Goto
<1>7. CASE ScreenSaverBlank \/ ScreenOff
  BY <1>7 DEF ScreenSaverBlank, ScreenOff, Goto, saver
<1>8. ASSUME NEW t \in Types, WebType(t) PROVE Flags'
  <2>1. webDark' \in BOOLEAN
    BY <1>8 DEF WebType
  <2> QED
    BY <1>8, <2>1 DEF WebType, saver, local
<1>9. CASE WebPost \/ WebRefresh
  BY <1>1, <1>9 DEF WebPost, WebRefresh, saver, local
<1>10. CASE Tick
  BY <1>10 DEF Tick, saver, local
<1>11. CASE Input
  BY <1>11 DEF Input, saver, local
<1>12. CASE SceneQuit
  BY <1>12 DEF SceneQuit, saver, local
<1>13. CASE UNCHANGED vars
  <2>1. UNCHANGED <<screenOff, type, gui, input, quitValue, server, raced, webDark>>
    BY <1>13 DEF vars, saver, local
  <2> QED
    BY <2>1
<1> QED
  BY <1>2, <1>3, <1>4, <1>5, <1>8, <1>9, <1>10, <1>13, <1>6, <1>7, <1>11, <1>12
     DEF Next, SceneRun, Web, World

LEMMA TypeKept == TypeOK /\ [Next]_vars => TypeOK'
BY NumbersKept, FlagsKept DEF TypeOK, Numbers, Flags

LEMMA CountKept == IInv /\ [Next]_vars => Counted' /\ Spent'
<1> SUFFICES ASSUME IInv, [Next]_vars PROVE Counted' /\ Spent'
  OBVIOUS
<1> USE TickAssumption DEF TypeOK
<1>1. TypeOK /\ TypeOK' /\ Counted /\ Spent
  BY TypeKept DEF IInv
<1>2. ASSUME ScreenSaverRefresh, UNCHANGED <<now, gui>> \/ (gui' \notin {"check", "store", "dark", "off"} /\ UNCHANGED now)
      PROVE  Counted' /\ Spent'
  <2>1. Elapsed(lastTick', now') = 0
    BY <1>1, <1>2, ElapsedFacts DEF ScreenSaverRefresh
  <2>2. raced' = FALSE => gui' \notin {"check", "store", "dark", "off"}
    BY <1>2 DEF ScreenSaverRefresh, Checking
  <2>3. CASE raced'
    BY <2>3 DEF Counted, Spent
  <2>4. CASE ~ raced'
    <3>1. raced' = FALSE /\ gui' \notin {"check", "store", "dark", "off"}
      BY <1>1, <2>2, <2>4
    <3>2. idle' = 0 /\ countDown' = TimeOut
      BY <1>2 DEF ScreenSaverRefresh
    <3>3. TimeOut + Elapsed(lastTick', now') <= idle' + countDown'
      BY <2>1, <3>2, SMT
    <3> QED
      BY <3>1, <3>3 DEF Counted, Spent
  <2> QED
    BY <2>3, <2>4
<1>3. ASSUME UNCHANGED <<now, saver, raced, idle, tick, count>>,
             gui' = gui \/ (gui \notin {"check", "store"} /\ gui' \notin {"check", "store"}),
             gui' \in {"dark", "off"} => gui \in {"dark", "off"}
      PROVE  Counted' /\ Spent'
  BY <1>1, <1>3, SMT DEF Counted, Spent, saver, Elapsed
<1>4. CASE CheckQuitValue
  <2>1. CASE quitValue /\ Saving /\ type = "blank"
    BY <1>2, <1>4, <2>1 DEF CheckQuitValue, Goto
  <2>2. CASE ~ (quitValue /\ Saving /\ type = "blank")
    BY <1>3, <1>4, <2>2 DEF CheckQuitValue, Goto
  <2> QED
    BY <2>1, <2>2
<1>5. CASE Events
  <2>1. CASE input
    BY <1>2, <1>5, <2>1 DEF Events, Goto
  <2>2. CASE ~ input
    BY <1>3, <1>5, <2>2 DEF Events, Goto
  <2> QED
    BY <2>1, <2>2
<1>6. CASE ReadTick
  <2>1. CASE ~ screenOff /\ type # "none"
    <3>1. Elapsed(tick', now') = 0
      BY <1>1, <1>6, <2>1, ElapsedFacts DEF ReadTick
    <3>2. Elapsed(lastTick', tick') = Elapsed(lastTick, now)
      BY <1>6, <2>1 DEF ReadTick, saver, Elapsed
    <3>3. Elapsed(lastTick, now) \in Nat
      BY <1>1, ElapsedFacts
    <3>4. /\ gui = "draw" /\ gui' = "check"
          /\ UNCHANGED <<countDown, idle, raced>>
      BY <1>6, <2>1 DEF ReadTick, saver, Goto
    <3> HIDE DEF TypeOK
    <3>5. Counted'
      BY <1>1, <3>1, <3>2, <3>3, <3>4, SMT DEF Counted, TypeOK
    <3> QED
      BY <3>4, <3>5 DEF Spent
  <2>2. CASE ~ (~ screenOff /\ type # "none")
    BY <1>3, <1>6, <2>2 DEF ReadTick, Goto
  <2> QED
    BY <2>1, <2>2
<1>7. CASE ScreenSaverCheck
  <2>1. UNCHANGED <<now, lastTick, countDown, idle, raced>> /\ gui = "check"
    BY <1>7 DEF ScreenSaverCheck, saver
  <2>2. /\ Elapsed(lastTick, now) <= Elapsed(lastTick, tick) + Elapsed(tick, now)
        /\ Elapsed(lastTick, tick) \in Nat /\ Elapsed(tick, now) \in Nat /\ Elapsed(lastTick, now) \in Nat
    BY <1>1, ElapsedFacts
  <2>3. Diff \in Int /\ Diff >= 0 /\ Diff <= Elapsed(lastTick, tick)
    BY <1>1, DiffFacts
  <2>4. CASE Diff >= Second
    <3>1. /\ gui' = "store" /\ UNCHANGED tick
          /\ count' = IF countDown > Diff THEN countDown - Diff ELSE 0
      BY <1>7, <2>4 DEF ScreenSaverCheck, Goto
    <3>2. Elapsed(tick', now') = Elapsed(tick, now)
      BY <2>1, <3>1 DEF Elapsed
    <3>3. Counted'
      BY <1>1, <2>1, <2>2, <2>3, <3>1, <3>2, SMT DEF Counted
    <3> QED
      BY <3>1, <3>3 DEF Spent
  <2>5. CASE ~ (Diff >= Second)
    <3>1. gui' = "frame"
      BY <1>7, <2>5 DEF ScreenSaverCheck, Goto
    <3>2. Elapsed(lastTick', now') = Elapsed(lastTick, now)
      BY <2>1 DEF Elapsed
    <3>3. Counted'
      BY <1>1, <2>1, <2>2, <3>1, <3>2, SMT DEF Counted
    <3> QED
      BY <3>1, <3>3 DEF Spent
  <2> QED
    BY <2>4, <2>5
<1>8. CASE StoreCount
  <2>1. /\ UNCHANGED <<now, idle, raced>> /\ gui = "store" /\ gui' \in {"dark", "frame"}
        /\ lastTick' = tick /\ countDown' = count
        /\ gui' = "dark" => count = 0
    BY <1>8 DEF StoreCount, Goto
  <2>2. Elapsed(lastTick', now') = Elapsed(tick, now)
    BY <2>1 DEF Elapsed
  <2>3. Counted'
    BY <1>1, <2>1, <2>2, SMT DEF Counted
  <2> QED
    BY <2>1, <2>3 DEF Spent
<1>9. CASE ScreenSaverBlank
  BY <1>3, <1>9 DEF ScreenSaverBlank, Goto
<1>10. CASE ScreenOff
  BY <1>1, <1>10, SMT DEF ScreenOff, Goto, Counted, Spent, Elapsed
<1>11. ASSUME NEW t \in Types, WebType(t) PROVE Counted' /\ Spent'
  BY <1>3, <1>11 DEF WebType, local
<1>12. CASE WebPost
  BY <1>3, <1>12 DEF WebPost, local
<1>13. CASE WebRefresh
  BY <1>2, <1>13 DEF WebRefresh, local
<1>14. CASE Tick
  <2>1. /\ UNCHANGED <<lastTick, countDown, raced, gui, tick, count>>
        /\ now' = IF now = Wrap - 1 THEN 0 ELSE now + 1
        /\ idle' = IF idle < TimeOut THEN idle + 1 ELSE idle
    BY <1>14 DEF Tick, saver, local
  <2>2. /\ Elapsed(lastTick, now') <= Elapsed(lastTick, now) + 1
        /\ Elapsed(tick, now') <= Elapsed(tick, now) + 1
        /\ Elapsed(lastTick, now) \in Nat /\ Elapsed(tick, now) \in Nat /\ Elapsed(lastTick, tick) \in Nat
    BY <1>1, <2>1, ElapsedFacts
  <2>3. Elapsed(lastTick, now') \in Nat /\ Elapsed(tick, now') \in Nat
    BY <1>1, ElapsedFacts
  <2>4. /\ Elapsed(lastTick', now') = Elapsed(lastTick, now')
        /\ Elapsed(tick', now') = Elapsed(tick, now')
        /\ Elapsed(lastTick', tick') = Elapsed(lastTick, tick)
    BY <2>1 DEF Elapsed
  <2>5. Counted'
    BY <1>1, <2>1, <2>2, <2>3, <2>4, SMT DEF Counted
  <2> QED
    BY <1>1, <2>1, <2>5 DEF Spent
<1>15. CASE Input \/ SceneQuit
  BY <1>3, <1>15 DEF Input, SceneQuit, local
<1>16. CASE UNCHANGED vars
  BY <1>3, <1>16 DEF vars, local
<1> QED
  BY <1>4, <1>5, <1>6, <1>7, <1>8, <1>9, <1>10, <1>11, <1>12, <1>13, <1>14, <1>15, <1>16
     DEF Next, SceneRun, Web, World

LEMMA DarkKept == IInv /\ [Next]_vars => DarkIsBlank' /\ LitAtEnd'
<1> SUFFICES ASSUME IInv, [Next]_vars PROVE DarkIsBlank' /\ LitAtEnd'
  OBVIOUS
<1> USE DEF DarkIsBlank, LitAtEnd
<1>1. TypeOK /\ DarkIsBlank /\ LitAtEnd
  BY DEF IInv
<1>2. screenOff \in BOOLEAN /\ webDark \in BOOLEAN
  BY <1>1 DEF TypeOK
<1>3. CASE CheckQuitValue
  BY <1>1, <1>2, <1>3 DEF CheckQuitValue, Goto, ScreenSaverRefresh, Saving, saver
<1>4. CASE Events
  BY <1>1, <1>2, <1>4 DEF Events, Goto, ScreenSaverRefresh, saver
<1>5. CASE ReadTick \/ ScreenSaverCheck \/ StoreCount \/ ScreenSaverBlank \/ ScreenOff
  BY <1>1, <1>2, <1>5 DEF ReadTick, ScreenSaverCheck, StoreCount, ScreenSaverBlank, ScreenOff, Goto, saver
<1>6. ASSUME NEW t \in Types, WebType(t) PROVE DarkIsBlank' /\ LitAtEnd'
  BY <1>1, <1>2, <1>6 DEF WebType, saver, local
<1>7. CASE WebPost \/ WebRefresh
  BY <1>1, <1>2, <1>7 DEF WebPost, WebRefresh, ScreenSaverRefresh, saver, local
<1>8. CASE World
  BY <1>1, <1>2, <1>8 DEF World, Tick, Input, SceneQuit, saver, local
<1>9. CASE UNCHANGED vars
  BY <1>1, <1>9 DEF vars, saver, local
<1> QED
  BY <1>3, <1>4, <1>5, <1>6, <1>7, <1>8, <1>9 DEF Next, SceneRun, Web

THEOREM Invariant == Spec => []IInv
<1>1. IInv /\ [Next]_vars => IInv'
  BY TypeKept, CountKept, DarkKept DEF IInv
<1> QED
  BY Initially, <1>1, PTL DEF Spec

(* Every variable of screen.c, and the history, keeps its type.            *)
THEOREM TypeCorrect == Spec => []TypeOK
<1>1. IInv => TypeOK
  BY DEF IInv
<1> QED
  BY Invariant, <1>1, PTL

(* The screen is turned off only a whole idle time after the last refresh, *)
(* however often the tick counter wraps, unless that refresh was made in   *)
(* the middle of ScreenSaverCheck.                                         *)
THEOREM NeverEarly == Spec => OffOnlyIdle
<1>1. ASSUME IInv, [Next]_vars, screenOff', ~ screenOff
      PROVE  idle = TimeOut \/ raced
  <2>1. gui = "off" /\ UNCHANGED raced
    BY <1>1 DEF Next, SceneRun, Web, World, CheckQuitValue, Events, ReadTick, ScreenSaverCheck,
       StoreCount, ScreenSaverBlank, ScreenOff, WebType, WebPost, WebRefresh, Tick, Input, SceneQuit,
       ScreenSaverRefresh, saver, vars
  <2>2. lastTick \in 0 .. Wrap - 1 /\ now \in 0 .. Wrap - 1 /\ idle \in 0 .. TimeOut
    BY <1>1 DEF IInv, TypeOK
  <2>3. Elapsed(lastTick, now) \in Nat
    BY <2>2, ElapsedFacts
  <2>4. Counted /\ Spent
    BY <1>1 DEF IInv
  <2> QED
    BY <2>1, <2>2, <2>3, <2>4, TickAssumption, SMT DEF Counted, Spent
<1>2. IInv /\ [Next]_vars => [screenOff' /\ ~ screenOff => idle = TimeOut \/ raced]_vars
  BY <1>1
<1> QED
  BY Invariant, <1>2, PTL DEF Spec, OffOnlyIdle

(* The program ends with the screen on, unless the web chose another type  *)
(* of screen saver for a dark screen (CheckQuitValue).                     *)
THEOREM EndsLit == Spec => []LitAtEnd
<1>1. IInv => LitAtEnd
  BY DEF IInv
<1> QED
  BY Invariant, <1>1, PTL
=============================================================================
