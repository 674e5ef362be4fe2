------------------------------- MODULE Scene -------------------------------
(***************************************************************************)
(* The GUI of ctrlboard (main.c, scene.c, external.c): the main thread     *)
(* opens the command queue, has the scene loaded by a command, and draws   *)
(* frame after frame, until somebody asks it to quit.  Meanwhile the       *)
(* thread of the web server changes the language and sends commands, and   *)
(* two tasks carry events from and to the other processor.                 *)
(*                                                                         *)
(* The command queue and the queue of incoming events never block and drop *)
(* what does not fit; the queue of outgoing events blocks the GUI.  Their  *)
(* handles are closed while the threads still run.                         *)
(***************************************************************************)
EXTENDS Naturals, Sequences

CONSTANTS
  Languages,    \* the languages one can choose
  QueueSize,    \* MAX_COMMAND_QUEUE_SIZE, and EXT_MAX_QUEUE_SIZE
  Delay         \* frames until a delayed command of a page is executed

ASSUME SceneAssumption ==
  Languages # {} /\ QueueSize \in Nat \ {0} /\ Delay \in Nat \ {0}

VARIABLES
  main,         \* where the main thread is
  quitValue,    \* has anybody called SceneQuit?
  commandQueue, \* its handle: -1 ("none"), "open", or "closed" and not yet -1
  commands,     \* the commands that wait in it
  root,         \* is the scene loaded?
  lang,         \* theConfig.lang
  shown,        \* the language the widgets show
  delayed,      \* frames to SettingSystemChangeLangCommand; 0: not asked for
  predraw,      \* frames to ScenePredraw
  server,       \* where the web server is in SceneChangeLanguage
  incoming, outgoing,  \* events in the queues of the other processor
  outTask,      \* ExternalOutTask
  extQuit,
  crash,        \* what the program did that it must not
  early         \* history: was a command sent before the first one?

gui      == <<root, shown, delayed, predraw>>
queue    == <<commandQueue, commands>>
external == <<incoming, outgoing, outTask, extQuit>>
vars     == <<main, quitValue, queue, gui, lang, server, external, crash, early>>

Up      == crash = "none"
Goto(l) == main' = l
Frames  == {"frame", "commands", "external", "events", "send", "timer"}

SentOneMore(id) == IF Len(commands) <= QueueSize THEN Append(commands, id) ELSE commands
SentFirst(id)   == IF Len(commands) < QueueSize THEN <<id>> \o commands ELSE commands

(* mq_send to the command queue: what does not fit is dropped.             *)
Sent(id) == IF Len(commands) < QueueSize THEN Append(commands, id) ELSE commands

-------------------------------------------------------------------------------
(* The main thread: start.                                                 *)

SceneInit ==
  /\ Up /\ main = "init" /\ Goto("load")
  /\ commandQueue' = "open"
  /\ UNCHANGED <<quitValue, commands, gui, lang, server, external, crash, early>>

SceneLoad ==
  /\ Up /\ main = "load" /\ Goto("frame")
  /\ commands' = Sent("load")
  /\ UNCHANGED <<quitValue, commandQueue, gui, lang, server, external, crash, early>>

-------------------------------------------------------------------------------
(* One frame of SceneRun.                                                  *)

CheckQuitValue ==
  /\ Up /\ main = "frame"
  /\ Goto(IF quitValue THEN "exit" ELSE "commands")
  /\ UNCHANGED <<quitValue, queue, gui, lang, server, external, crash, early>>

(* The widgets read the language when they are told that it changed; there *)
(* are none to tell before the scene is loaded (assert in ituSceneUpdate). *)
Take(id) ==
  \/ id = "load" /\ root' = TRUE /\ shown' = lang /\ UNCHANGED crash
  \/ id = "lang" /\ root /\ shown' = lang /\ UNCHANGED <<root, crash>>
  \/ id = "predraw" /\ root /\ UNCHANGED <<root, shown, crash>>
  \/ id # "load" /\ ~ root /\ crash' = "root" /\ UNCHANGED <<root, shown>>

(* The queue is emptied, one command in each step.                         *)
ProcessCommand ==
  /\ Up /\ main = "commands"
  /\ IF commands = <<>>
     THEN Goto("external") /\ UNCHANGED <<commands, root, shown, crash>>
     ELSE commands' = Tail(commands) /\ Take(Head(commands)) /\ UNCHANGED main
  /\ UNCHANGED <<quitValue, commandQueue, delayed, predraw, lang, server, external, early>>

(* At most one event; its page is looked up when the scene is loaded.      *)
CheckExternal ==
  /\ Up /\ main = "external" /\ Goto("events")
  /\ \/ incoming = 0 /\ UNCHANGED <<incoming, crash>>
     \/ /\ incoming > 0 /\ incoming' = incoming - 1
        /\ crash' = IF root THEN "none" ELSE "widget"
  /\ UNCHANGED <<quitValue, queue, gui, lang, server, outgoing, outTask, extQuit, early>>

(* The user touches nothing, or something that does none of the following. *)
NoEvent ==
  /\ Up /\ main = "events" /\ Goto("timer")
  /\ UNCHANGED <<quitValue, queue, gui, lang, server, external, crash, early>>

(* SettingLang...RadioBoxOnPress *)
LangOnPress(l) ==
  /\ Up /\ main = "events" /\ Goto("timer")
  /\ root /\ lang # l /\ lang' = l
  /\ delayed' = Delay
  /\ UNCHANGED <<quitValue, queue, root, shown, predraw, server, external, crash, early>>

(* MainMenuOnEnter *)
MainMenuOnEnter ==
  /\ Up /\ main = "events" /\ Goto("timer")
  /\ root /\ predraw' = Delay
  /\ UNCHANGED <<quitValue, queue, root, shown, delayed, lang, server, external, crash, early>>

(* ButtonUartSendButtonOnPress *)
UartSendOnPress ==
  /\ Up /\ main = "events" /\ Goto(IF extQuit THEN "timer" ELSE "send")
  /\ root
  /\ UNCHANGED <<quitValue, queue, gui, lang, server, external, crash, early>>

(* ExternalSend waits for room.                                            *)
ExternalSend ==
  /\ Up /\ main = "send" /\ Goto("timer")
  /\ outgoing < QueueSize /\ outgoing' = outgoing + 1
  /\ UNCHANGED <<quitValue, queue, gui, lang, server, incoming, outTask, extQuit, crash, early>>

(* ITU_EVENT_TIMER executes the delayed commands that are due.             *)
Timer ==
  /\ Up /\ main = "timer" /\ Goto("frame")
  /\ delayed' = IF delayed > 0 THEN delayed - 1 ELSE 0
  /\ predraw' = IF predraw > 0 THEN predraw - 1 ELSE 0
  /\ shown'    = IF delayed = 1 THEN lang ELSE shown
  /\ commands' = IF predraw = 1 THEN Sent("predraw") ELSE commands
  /\ UNCHANGED <<quitValue, commandQueue, root, lang, server, external, crash, early>>

-------------------------------------------------------------------------------
(* The end: SceneExit, ExternalExit.                                       *)

SceneExitClose ==
  /\ Up /\ main = "exit" /\ Goto("closed")
  /\ commandQueue' = "closed" /\ commands' = <<>>
  /\ UNCHANGED <<quitValue, gui, lang, server, external, crash, early>>

SceneExit ==
  /\ Up /\ main = "closed" /\ Goto("left")
  /\ commandQueue' = "none" /\ root' = FALSE
  /\ UNCHANGED <<quitValue, commands, shown, delayed, predraw, lang, server, external, crash, early>>

ExternalExit ==
  /\ Up /\ main = "left" /\ Goto("over")
  /\ extQuit' = TRUE
  /\ UNCHANGED <<quitValue, queue, gui, lang, server, incoming, outgoing, outTask, crash, early>>

-------------------------------------------------------------------------------
(* The thread of the web server.                                           *)

(* ?action=setting&lang=... *)
WebSetting(l) ==
  /\ Up /\ server = "idle"
  /\ lang # l /\ lang' = l /\ server' = "test"
  /\ UNCHANGED <<main, quitValue, queue, gui, external, crash, early>>

SceneChangeLanguageOnce ==
  /\ Up /\ server = "test"
  /\ server' = IF commandQueue = "none" \/ commands # <<>> THEN "idle" ELSE "send"
  /\ UNCHANGED <<main, quitValue, queue, gui, lang, external, crash, early>>

(* SceneChangeLanguage looks at the handle first,                          *)
SceneChangeLanguage ==
  /\ Up /\ server = "test"
  /\ server' = IF commandQueue = "none" THEN "idle" ELSE "send"
  /\ UNCHANGED <<main, quitValue, queue, gui, lang, external, crash, early>>

(* and then sends, if the queue is still there.                            *)
WebSend ==
  /\ Up /\ server = "send" /\ server' = "idle"
  /\ IF commandQueue = "open"
     THEN /\ commands' = Sent("lang")
          /\ early' = (early \/ main = "load")
          /\ UNCHANGED crash
     ELSE crash' = "freed" /\ UNCHANGED <<commands, early>>
  /\ UNCHANGED <<main, quitValue, commandQueue, gui, lang, external>>

SceneQuitExternal ==
  /\ Up /\ ~ quitValue /\ quitValue' = TRUE
  /\ extQuit' = TRUE
  /\ UNCHANGED <<main, queue, gui, lang, server, incoming, outgoing, outTask, crash, early>>

(* SceneQuit: a page, or a request of the web server.                      *)
SceneQuit ==
  /\ Up /\ ~ quitValue /\ quitValue' = TRUE
  /\ UNCHANGED <<main, queue, gui, lang, server, external, crash, early>>

-------------------------------------------------------------------------------
(* The tasks of the other processor.                                       *)

(* ExternalInTask drops what does not fit.                                 *)
InTask ==
  /\ Up /\ main # "init" /\ ~ extQuit
  /\ incoming < QueueSize /\ incoming' = incoming + 1
  /\ UNCHANGED <<main, quitValue, queue, gui, lang, server, outgoing, outTask, extQuit, crash, early>>

OutTask ==
  /\ Up
  /\ \/ /\ outTask = "wait" /\ outgoing > 0
        /\ outgoing' = outgoing - 1 /\ outTask' = "write"
     \/ /\ outTask = "write"
        /\ outTask' = IF extQuit THEN "ended" ELSE "wait"
        /\ UNCHANGED outgoing
  /\ UNCHANGED <<main, quitValue, queue, gui, lang, server, incoming, extQuit, crash, early>>

-------------------------------------------------------------------------------
(* ExternalInit has run: its tasks are there before the scene is.          *)
Init ==
  /\ main = "init" /\ quitValue = FALSE
  /\ commandQueue = "none" /\ commands = <<>>
  /\ root = FALSE /\ lang \in Languages /\ shown \in Languages
  /\ delayed = 0 /\ predraw = 0
  /\ server = "idle"
  /\ incoming = 0 /\ outgoing = 0 /\ outTask = "wait" /\ extQuit = FALSE
  /\ crash = "none" /\ early = FALSE

Page == \/ NoEvent \/ MainMenuOnEnter \/ UartSendOnPress
        \/ \E l \in Languages : LangOnPress(l)
SceneRun == \/ CheckQuitValue \/ ProcessCommand \/ CheckExternal
            \/ Page \/ ExternalSend \/ Timer
Main == \/ SceneInit \/ SceneLoad \/ SceneRun
        \/ SceneExitClose \/ SceneExit \/ ExternalExit
Server == SceneChangeLanguage \/ WebSend
Next == \/ Main \/ Server \/ SceneQuit \/ InTask \/ OutTask
        \/ \E l \in Languages : WebSetting(l)

Spec == Init /\ [][Next]_vars
FairSpec == Spec /\ WF_vars(Main) /\ WF_vars(Server) /\ WF_vars(OutTask)

-------------------------------------------------------------------------------
(* Every variable keeps its type; the queues keep their length (SceneInit, *)
(* ExternalInit).                                                          *)
TypeOK ==
  /\ main \in Frames \cup {"init", "load", "exit", "closed", "left", "over"}
  /\ quitValue \in BOOLEAN
  /\ commandQueue \in {"none", "open", "closed"}
  /\ commands \in Seq({"load", "lang", "predraw"}) /\ Len(commands) <= QueueSize
  /\ root \in BOOLEAN /\ lang \in Languages /\ shown \in Languages
  /\ delayed \in 0 .. Delay /\ predraw \in 0 .. Delay
  /\ server \in {"idle", "test", "send"}
  /\ incoming \in 0 .. QueueSize /\ outgoing \in 0 .. QueueSize
  /\ outTask \in {"wait", "write", "ended"} /\ extQuit \in BOOLEAN
  /\ crash \in {"none", "root", "widget", "freed"} /\ early \in BOOLEAN

(* Whatever the other threads send and whatever is dropped, the program    *)
(* uses a scene that is not loaded only when the web server sent a command *)
(* before SceneLoad did, and a queue that is freed only when it was in     *)
(* SceneChangeLanguage during SceneExit.  An event of the other processor  *)
(* never gets to a page that is not there (ProcessCommand, CheckExternal). *)
SafeScene ==
  /\ crash # "widget"
  /\ crash = "root" => early
  /\ crash = "freed" => main \in {"closed", "left", "over"}

Over == main \in {"exit", "closed", "left", "over"} \/ crash # "none"

(* Although commands are dropped, the GUI in the end shows the language    *)
(* that was chosen last, in a page or from the web (SceneChangeLanguage).  *)
LanguageShown ==
  \A l \in Languages : <>[](lang = l) => <>[](shown = l \/ Over)

(* When the GUI is asked to quit it does, unless languages are changed for *)
(* ever: no full queue holds it (SceneRun, ExternalSend).                  *)
QuitEnds ==
  (\E l \in Languages : <>[](lang = l)) => [](quitValue => <>(main = "over" \/ crash # "none"))
=============================================================================
