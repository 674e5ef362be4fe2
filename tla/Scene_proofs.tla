---------------------------- MODULE Scene_proofs ----------------------------
(***************************************************************************)
(* The GUI uses no scene that is not loaded and no queue that is freed,    *)
(* outside of the two windows SafeScene names, for queues of any length    *)
(* and any number of languages.                                            *)
(***************************************************************************)
EXTENDS Scene, Integers, TLAPS

(* The handle of the command queue follows the main thread.                *)
Handle ==
  /\ main = "init" => commandQueue = "none" /\ commands = <<>> /\ server # "send"
  /\ main \in Frames \cup {"load", "exit"} => commandQueue = "open"

(* Until the scene is loaded, the first command is the one that loads it,  *)
(* or one that came before; after the first commands, it is loaded.        *)
Loading ==
  crash = "none" =>
    /\ main = "load" /\ commands # <<>> => Head(commands) = "lang" /\ early
    /\ main \in {"frame", "commands"} /\ ~ root =>
         commands # <<>> /\ (Head(commands) = "load" \/ early)
    /\ main \in Frames \ {"frame", "commands"} => root

IInv == TypeOK /\ Handle /\ Loading /\ SafeScene

Ids == {"load", "lang", "predraw"}

(* What is sent goes to the end, if at all.                                *)
LEMMA SentFacts ==
  ASSUME NEW s \in Seq(Ids), Len(s) <= QueueSize, NEW id \in Ids
  PROVE  LET t == IF Len(s) < QueueSize THEN Append(s, id) ELSE s
         IN  /\ t \in Seq(Ids) /\ Len(t) <= QueueSize
             /\ t # <<>>
             /\ s # <<>> => Head(t) = Head(s)
             /\ s = <<>> => Head(t) = id
<1>1. QueueSize \in Nat \ {0}
  BY SceneAssumption
<1>2. CASE Len(s) < QueueSize
  <2>1. /\ Append(s, id) \in Seq(Ids) /\ Len(Append(s, id)) = Len(s) + 1
        /\ Append(s, id) # <<>>
    BY SMT DEF Ids
  <2>2. Head(Append(s, id)) = IF s = <<>> THEN id ELSE Head(s)
    BY SMT
  <2> QED
    BY <1>1, <1>2, <2>1, <2>2, SMT
<1>3. CASE ~ (Len(s) < QueueSize)
  <2>1. s # <<>>
    BY <1>1, <1>3, SMT
  <2> QED
    BY <1>3, <2>1
<1> QED
  BY <1>2, <1>3

LEMMA Initially == Init => IInv
<1> SUFFICES ASSUME Init PROVE IInv
  OBVIOUS
<1>1. 0 \in 0 .. Delay /\ 0 \in 0 .. QueueSize /\ Len(<<>>) <= QueueSize /\ <<>> \in Seq({"load", "lang", "predraw"})
  BY SceneAssumption, SMT
<1>2. TypeOK
  BY <1>1 DEF Init, TypeOK
<1> QED
  BY <1>2 DEF Init, IInv, Handle, Loading, SafeScene, Frames

(* No step is made after a crash.                                          *)
LEMMA Stopped == crash # "none" /\ [Next]_vars => UNCHANGED vars
BY DEF Up, Next, Main, SceneRun, Page, Server, SceneInit, SceneLoad, CheckQuitValue,
   ProcessCommand, CheckExternal, NoEvent, LangOnPress, MainMenuOnEnter, UartSendOnPress,
   ExternalSend, Timer, SceneExitClose, SceneExit, ExternalExit, WebSetting,
   SceneChangeLanguage, WebSend, SceneQuit, InTask, OutTask

LEMMA Step == IInv /\ [Next]_vars => IInv'
<1> SUFFICES ASSUME IInv, [Next]_vars PROVE IInv'
  OBVIOUS
<1>1. TypeOK /\ Handle /\ Loading /\ SafeScene
  BY DEF IInv
<1>2. commands \in Seq(Ids) /\ Len(commands) <= QueueSize
  BY <1>1 DEF TypeOK, Ids
<1>3. ASSUME NEW id \in Ids
      PROVE  /\ Sent(id) \in Seq(Ids) /\ Len(Sent(id)) <= QueueSize /\ Sent(id) # <<>>
             /\ commands # <<>> => Head(Sent(id)) = Head(commands)
             /\ commands = <<>> => Head(Sent(id)) = id
  BY <1>2, <1>3, SentFacts DEF Sent
<1>4. QueueSize \in Nat \ {0} /\ Delay \in Nat \ {0}
  BY SceneAssumption
<1>5. CASE UNCHANGED vars
  BY <1>1, <1>5 DEF vars, queue, gui, external, IInv, TypeOK, Handle, Loading, SafeScene
<1>6. CASE crash # "none"
  BY <1>5, <1>6, Stopped
<1> USE DEF IInv, Handle, Loading, SafeScene, Frames, Goto, Up, queue, gui, external
<1>7. CASE SceneInit
  BY <1>1, <1>7 DEF SceneInit, TypeOK
<1>8. CASE SceneLoad
  <2>1. TypeOK'
    BY <1>1, <1>3, <1>8 DEF SceneLoad, TypeOK, Ids
  <2>2. Loading'
    BY <1>1, <1>3, <1>8 DEF SceneLoad, Ids
  <2> QED
    BY <1>1, <1>8, <2>1, <2>2 DEF SceneLoad
<1>9. CASE CheckQuitValue
  BY <1>1, <1>9 DEF CheckQuitValue, TypeOK
<1>10. CASE ProcessCommand
  <2>1. CASE commands = <<>>
    BY <1>1, <1>10, <2>1 DEF ProcessCommand, TypeOK
  <2>2. CASE commands # <<>>
    <3>1. /\ commands' = Tail(commands) /\ Take(Head(commands)) /\ main = "commands" /\ main' = main
          /\ crash = "none"
          /\ UNCHANGED <<quitValue, commandQueue, delayed, predraw, lang, server, external, early>>
      BY <1>10, <2>2 DEF ProcessCommand
    <3>2. Tail(commands) \in Seq(Ids) /\ Len(Tail(commands)) <= QueueSize
      BY <1>2, <1>4, <2>2, SMT
    <3>3. /\ root' \in BOOLEAN /\ shown' \in Languages
          /\ root' \/ (crash' = "root" /\ early)
          /\ crash' \in {"none", "root"}
      BY <1>1, <2>2, <3>1 DEF Take, TypeOK
    <3>4. crash' = "root" => early
      BY <1>1, <2>2, <3>1 DEF Take
    <3>5. TypeOK'
      BY <1>1, <3>1, <3>2, <3>3 DEF TypeOK, Ids
    <3> QED
      BY <1>1, <3>1, <3>3, <3>4, <3>5
  <2> QED
    BY <2>1, <2>2
<1>11. CASE CheckExternal
  <2>1. root /\ crash' = "none" /\ main = "external" /\ main' = "events"
        /\ UNCHANGED <<quitValue, queue, gui, lang, server, outgoing, outTask, extQuit, early>>
    BY <1>1, <1>11 DEF CheckExternal
  <2>2. incoming' \in 0 .. QueueSize
    BY <1>1, <1>4, <1>11, SMT DEF CheckExternal, TypeOK
  <2>3. TypeOK'
    BY <1>1, <2>1, <2>2 DEF TypeOK
  <2> QED
    BY <1>1, <2>1, <2>3
<1>12. CASE Page
  <2>1. Delay \in 0 .. Delay
    BY <1>4, SMT
  <2>2. TypeOK'
    BY <1>1, <1>12, <2>1 DEF Page, NoEvent, LangOnPress, MainMenuOnEnter, UartSendOnPress, TypeOK
  <2>3. main = "events" /\ main' \in {"timer", "send"} /\ UNCHANGED <<queue, root, server, crash, early>>
    BY <1>12 DEF Page, NoEvent, LangOnPress, MainMenuOnEnter, UartSendOnPress
  <2> QED
    BY <1>1, <2>2, <2>3
<1>13. CASE ExternalSend
  <2>1. outgoing' \in 0 .. QueueSize
    BY <1>1, <1>4, <1>13, SMT DEF ExternalSend, TypeOK
  <2>2. TypeOK'
    BY <1>1, <1>13, <2>1 DEF ExternalSend, TypeOK
  <2> QED
    BY <1>1, <1>13, <2>2 DEF ExternalSend
<1>14. CASE Timer
  <2>1. delayed' \in 0 .. Delay /\ predraw' \in 0 .. Delay
    BY <1>1, <1>4, <1>14, SMT DEF Timer, TypeOK
  <2>2. commands' \in Seq(Ids) /\ Len(commands') <= QueueSize
    BY <1>2, <1>3, <1>14 DEF Timer, Ids
  <2>3. TypeOK'
    BY <1>1, <1>14, <2>1, <2>2 DEF Timer, TypeOK, Ids
  <2> QED
    BY <1>1, <1>14, <2>3 DEF Timer
<1>15. CASE SceneExitClose
  <2>1. <<>> \in Seq(Ids) /\ Len(<<>>) <= QueueSize
    BY <1>4, SMT
  <2>2. TypeOK'
    BY <1>1, <1>15, <2>1 DEF SceneExitClose, TypeOK, Ids
  <2> QED
    BY <1>1, <1>15, <2>2 DEF SceneExitClose
<1>16. CASE SceneExit \/ ExternalExit
  <2>1. CASE SceneExit
    <3>1. TypeOK'
      BY <1>1, <2>1 DEF SceneExit, TypeOK
    <3> QED
      BY <1>1, <2>1, <3>1 DEF SceneExit
  <2>2. CASE ExternalExit
    <3>1. TypeOK'
      BY <1>1, <2>2 DEF ExternalExit, TypeOK
    <3> QED
      BY <1>1, <2>2, <3>1 DEF ExternalExit
  <2> QED
    BY <1>16, <2>1, <2>2
<1>17. ASSUME NEW l \in Languages, WebSetting(l) PROVE IInv'
  BY <1>1, <1>17 DEF WebSetting, TypeOK
<1>18. CASE SceneChangeLanguage
  BY <1>1, <1>18 DEF SceneChangeLanguage, TypeOK
<1>19. CASE WebSend
  <2>1. CASE commandQueue = "open"
    <3>1. early' \in BOOLEAN
      BY <1>1, <1>19, <2>1 DEF WebSend, TypeOK
    <3>2. TypeOK'
      BY <1>1, <1>3, <1>19, <2>1, <3>1 DEF WebSend, TypeOK, Ids
    <3>3. /\ commands' # <<>> /\ (commands # <<>> => Head(commands') = Head(commands))
          /\ commands = <<>> => Head(commands') = "lang"
          /\ early' = (early \/ main = "load")
          /\ server = "send" /\ UNCHANGED <<main, root, crash, commandQueue>> /\ server' = "idle"
      BY <1>3, <1>19, <2>1 DEF WebSend, Ids
    <3>4. Loading'
      BY <1>1, <3>3
    <3> QED
      BY <1>1, <3>2, <3>3, <3>4
  <2>2. CASE commandQueue # "open"
    <3>1. main \in {"closed", "left", "over"}
      BY <1>1, <1>19, <2>2 DEF WebSend, TypeOK
    <3> QED
      BY <1>1, <1>19, <2>2, <3>1 DEF WebSend, TypeOK
  <2> QED
    BY <2>1, <2>2
<1>20. CASE SceneQuit
  BY <1>1, <1>20 DEF SceneQuit, TypeOK
<1>21. CASE InTask \/ OutTask
  <2>1. /\ incoming' \in 0 .. QueueSize /\ outgoing' \in 0 .. QueueSize
        /\ outTask' \in {"wait", "write", "ended"}
    BY <1>1, <1>4, <1>21, SMT DEF InTask, OutTask, TypeOK
  <2>2. UNCHANGED <<main, quitValue, queue, gui, lang, server, extQuit, crash, early>>
    BY <1>21 DEF InTask, OutTask
  <2>3. TypeOK'
    BY <1>1, <2>1, <2>2 DEF TypeOK
  <2> QED
    BY <1>1, <2>2, <2>3
<1> QED
  BY <1>5, <1>7, <1>8, <1>9, <1>10, <1>11, <1>12, <1>13, <1>14, <1>15, <1>16, <1>17, <1>18,
     <1>19, <1>20, <1>21 DEF Next, Main, SceneRun, Server

THEOREM Invariant == Spec => []IInv
BY Initially, Step, PTL DEF Spec

(* Every variable keeps its type, and the queues their length.             *)
THEOREM TypeCorrect == Spec => []TypeOK
<1>1. IInv => TypeOK
  BY DEF IInv
<1> QED
  BY Invariant, <1>1, PTL

(* For queues of any length: the GUI uses no widget before its scene is    *)
(* loaded, unless the web server sent a command before SceneLoad did, and  *)
(* no thread uses the command queue after it was freed, unless it was in   *)
(* SceneChangeLanguage during SceneExit.                                   *)
THEOREM SceneSafe == Spec => []SafeScene
<1>1. IInv => SafeScene
  BY DEF IInv
<1> QED
  BY Invariant, <1>1, PTL
=============================================================================
