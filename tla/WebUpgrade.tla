----------------------------- MODULE WebUpgrade -----------------------------
(***************************************************************************)
(* The firmware upgrade from the web page: the thread of the web server    *)
(* (webserver.c) receives a package, makes the GUI quit (scene.c, main.c), *)
(* hands the package to the main thread (upgrade.c) and waits for its      *)
(* result.  The two threads meet in the polled variables quitValue,        *)
(* upgradeIsReady, upgradeStream and upgradeIsFinished, without a lock.    *)
(*                                                                         *)
(* A package is a model value.  Requests that change nothing here (pages,  *)
(* refused requests) are stuttering steps.                                 *)
(***************************************************************************)
EXTENDS Naturals

CONSTANTS
  Conns,        \* bound: the connections open at a time
  Buffers,      \* the memory there is for packages: one buffer each
  Packages,     \* the packages with a correct checksum
  Damaged,      \* a package with a wrong one
  Torn,         \* a flash programmed in part
  MaxRestarts,  \* bound: the restarts that are followed
  None

ASSUME WebUpgradeAssumption ==
  /\ Conns # {} /\ MaxRestarts \in Nat
  /\ Packages \cap {Damaged, Torn, None} = {}
  /\ Damaged # None /\ Torn # None
  /\ None \notin Conns \cup Buffers

QuitValue == {"none", "factory", "firmware", "web"}

VARIABLES
  quit,        \* quitValue
  main,        \* where the main thread is
  ret,         \* what SceneRun returned
  ready, stream, finished, result,  \* upgradeIsReady, upgradeStream, ...
  heap,        \* what each allocated buffer holds, None when it is free
  request,     \* the POST requests: how far, and filebuf
  fwFileBuf,   \* the package received last; fwFileSize > 0 when there is one
  web,         \* the server's thread: where it is, for which request, and
               \*   which package it has verified
  shutdown,    \* MHD_stop_daemon was called
  firmware,    \* what is programmed, as seen through the NOR cache and on flash
  promised,    \* the package whose upgrade was answered with success
  restarts

vars == <<quit, main, ret, ready, stream, finished, result, heap, request,
          fwFileBuf, web, shutdown, firmware, promised, restarts>>

upgradeVars == <<ready, stream, finished, result>>
webVars     == <<heap, request, fwFileBuf, web>>

Firmware == Packages \cup {Torn}

TypeOK ==
  /\ quit \in QuitValue /\ ret \in QuitValue
  /\ main \in {"scene", "quit", "exit", "join", "process", "clear", "wait",
               "program", "programmed", "asleep", "off"}
  /\ ready \in BOOLEAN /\ finished \in BOOLEAN /\ shutdown \in BOOLEAN
  /\ stream \in Buffers \cup {None} /\ fwFileBuf \in Buffers \cup {None}
  /\ result \in {0, 1}
  /\ heap \in [Buffers -> Packages \cup {Damaged, None}]
  /\ request \in [Conns -> [at  : {"closed", "open", "answered"},
                            buf : Buffers \cup {None}]]
  /\ web \in [at      : {"select", "ready?", "hand", "finished?", "stopped"},
              conn    : Conns \cup {None},
              package : Packages \cup {Damaged, None}]
  /\ firmware \in [cached : Firmware, durable : Firmware]
  /\ promised \in Packages \cup {None}
  /\ restarts \in 0 .. MaxRestarts

Closed == [at |-> "closed", buf |-> None]
Idle   == [at |-> "select", conn |-> None, package |-> None]

\* What every start of the program sets up, UpgradeInit and WebServerInit.
Started(p) ==
  /\ quit = "none" /\ ret = "none" /\ main = "scene"
  /\ ready = FALSE /\ stream = None /\ finished = FALSE /\ result = 0
  /\ heap = [b \in Buffers |-> None]
  /\ request = [c \in Conns |-> Closed]
  /\ fwFileBuf = None /\ web = Idle /\ shutdown = FALSE
  /\ firmware = [cached |-> p, durable |-> p]

Init ==
  /\ \E p \in Packages : Started(p)
  /\ promised = None /\ restarts = 0

-----------------------------------------------------------------------------
\* Starting again with the firmware p on the flash; with a firmware that is
\* not whole the boot loader takes over, and this model ends.
Boot(p) ==
  /\ quit' = "none" /\ ret' = "none"
  /\ main' = IF p = Torn \/ restarts = MaxRestarts THEN "off" ELSE "scene"
  /\ ready' = FALSE /\ stream' = None /\ finished' = FALSE /\ result' = 0
  /\ heap' = [b \in Buffers |-> None]
  /\ request' = [c \in Conns |-> Closed]
  /\ fwFileBuf' = None /\ web' = Idle /\ shutdown' = FALSE
  /\ firmware' = [cached |-> p, durable |-> p]
  /\ restarts' = IF main' = "off" THEN restarts ELSE restarts + 1

\* exit: _exit (itp_posix_openrtos.c:170) flushes the NOR cache before the
\* watchdog resets the board.
Exit(p) == Boot(p)

\* A power loss: of what was not flushed, all, some or nothing remains.
PowerLoss ==
  /\ main # "off"
  /\ \E p \in {firmware.durable, firmware.cached}
               \cup (IF firmware.cached = firmware.durable THEN {} ELSE {Torn}) :
       Boot(p)
  /\ UNCHANGED promised

-----------------------------------------------------------------------------
\* The thread of the web server.

Serving == main # "off" /\ web.at = "select"

\* Mutant: a POST that does not make the GUI quit.
PostWithoutQuit(c) ==
  /\ Serving /\ request[c].at = "closed"
  /\ request' = [request EXCEPT ![c] = [at |-> "open", buf |-> None]]
  /\ UNCHANGED <<quit, main, ret, upgradeVars, heap, fwFileBuf, web, shutdown,
                 firmware, promised, restarts>>

\* The first call for a POST on /dev/info.cgi makes the GUI quit.
Post(c) ==
  /\ Serving /\ request[c].at = "closed"
  /\ request' = [request EXCEPT ![c] = [at |-> "open", buf |-> None]]
  /\ quit' = "web"
  /\ UNCHANGED <<main, ret, upgradeVars, heap, fwFileBuf, web, shutdown,
                 firmware, promised, restarts>>

\* The first part of a package: wait for upgradeIsReady.  The parts that
\* follow are copied to the same buffer.
Upload(c) ==
  /\ Serving /\ request[c] = [at |-> "open", buf |-> None]
  /\ web' = [web EXCEPT !.at = "ready?", !.conn = c]
  /\ UNCHANGED <<quit, main, ret, upgradeVars, heap, request, fwFileBuf,
                 shutdown, firmware, promised, restarts>>

\* Mutant: no wait for upgradeIsReady.
ReceiveEarly(p) ==
  /\ main # "off" /\ web.at = "ready?"
  /\ web' = Idle
  /\ \E b \in Buffers :
       /\ heap[b] = None
       /\ heap' = [heap EXCEPT ![b] = p]
       /\ request' = [request EXCEPT ![web.conn].buf = b]
  /\ UNCHANGED <<quit, main, ret, upgradeVars, fwFileBuf, shutdown, firmware,
                 promised, restarts>>

\* Without memory the part is dropped.
Receive(p) ==
  /\ main # "off" /\ web.at = "ready?" /\ ready
  /\ web' = Idle
  /\ \/ \E b \in Buffers :
          /\ heap[b] = None
          /\ heap' = [heap EXCEPT ![b] = p]
          /\ request' = [request EXCEPT ![web.conn].buf = b]
     \/ /\ \A b \in Buffers : heap[b] # None
        /\ UNCHANGED <<heap, request>>
  /\ UNCHANGED <<quit, main, ret, upgradeVars, fwFileBuf, shutdown, firmware,
                 promised, restarts>>

\* Mutant: the request keeps the buffer it has handed over.
UploadedKept(c) ==
  /\ Serving /\ request[c].at = "open"
  /\ fwFileBuf' = request[c].buf
  /\ request' = [request EXCEPT ![c].at = "answered"]
  /\ UNCHANGED <<quit, main, ret, upgradeVars, heap, web, shutdown, firmware,
                 promised, restarts>>

\* Mutant: the request in place of its buffer.
UploadedRequest(c) ==
  /\ Serving /\ request[c].at = "open"
  /\ fwFileBuf' = request[c]
  /\ request' = [request EXCEPT ![c] = [at |-> "answered", buf |-> None]]
  /\ UNCHANGED <<quit, main, ret, upgradeVars, heap, web, shutdown, firmware,
                 promised, restarts>>

\* The last call for a POST: the package received before is not freed.
Uploaded(c) ==
  /\ Serving /\ request[c].at = "open"
  /\ fwFileBuf' = request[c].buf
  /\ request' = [request EXCEPT ![c] = [at |-> "answered", buf |-> None]]
  /\ UNCHANGED <<quit, main, ret, upgradeVars, heap, web, shutdown, firmware,
                 promised, restarts>>

\* A heap without the buffers of B.
Without(B) == [b \in Buffers |-> IF b \in B THEN None ELSE heap[b]]

\* The request is over, answered or given up by the client.
Completed(c) ==
  /\ Serving /\ request[c].at # "closed"
  /\ heap' = Without({request[c].buf})
  /\ request' = [request EXCEPT ![c] = Closed]
  /\ UNCHANGED <<quit, main, ret, upgradeVars, fwFileBuf, web, shutdown,
                 firmware, promised, restarts>>

\* Mutant: upgradeIsFinished is not reset.
GetUpgradeStale ==
  /\ Serving /\ fwFileBuf # None /\ heap[fwFileBuf] \in Packages
  /\ web' = [web EXCEPT !.at = "hand", !.package = heap[fwFileBuf]]
  /\ UNCHANGED <<quit, main, ret, upgradeVars, heap, request, fwFileBuf,
                 shutdown, firmware, promised, restarts>>

\* GET action=upgrade: the checksum is verified, then UpgradeSetStream.
GetUpgrade ==
  /\ Serving /\ fwFileBuf # None /\ heap[fwFileBuf] \in Packages
  /\ web' = [web EXCEPT !.at = "hand", !.package = heap[fwFileBuf]]
  /\ finished' = FALSE /\ result' = 0
  /\ UNCHANGED <<quit, main, ret, ready, stream, heap, request, fwFileBuf,
                 shutdown, firmware, promised, restarts>>

SetStream ==
  /\ main # "off" /\ web.at = "hand"
  /\ stream' = fwFileBuf
  /\ web' = [web EXCEPT !.at = "finished?"]
  /\ UNCHANGED <<quit, main, ret, ready, finished, result, heap, request,
                 fwFileBuf, shutdown, firmware, promised, restarts>>

\* The answer to GET action=upgrade; before a success the NOR cache is flushed.
Answer ==
  /\ main # "off" /\ web.at = "finished?" /\ finished
  /\ web' = Idle
  /\ IF result = 0
     THEN /\ firmware' = [firmware EXCEPT !.durable = firmware.cached]
          /\ promised' = web.package
     ELSE UNCHANGED <<firmware, promised>>
  /\ UNCHANGED <<quit, main, ret, upgradeVars, heap, request, fwFileBuf,
                 shutdown, restarts>>

GetReboot ==
  /\ Serving
  /\ Exit(firmware.cached)
  /\ UNCHANGED promised

\* Refused while the GUI quits for an upgrade.
GetResetFactory ==
  /\ Serving /\ quit # "web"
  /\ quit' = "factory"
  /\ UNCHANGED <<main, ret, upgradeVars, webVars, shutdown, firmware,
                 promised, restarts>>

\* What MHD_stop_daemon makes the server's thread do: it looks at the flag
\* between two rounds only (MHD_select_thread, daemon.c:2699), and ends.
Stop ==
  /\ Serving /\ shutdown
  /\ web' = [Idle EXCEPT !.at = "stopped"]
  /\ UNCHANGED <<quit, main, ret, upgradeVars, heap, request, fwFileBuf,
                 shutdown, firmware, promised, restarts>>

-----------------------------------------------------------------------------
\* The main thread.

\* The button of the GUI that starts an upgrade from USB or FTP.
UpgradeButton ==
  /\ main = "scene"
  /\ quit' = "firmware"
  /\ UNCHANGED <<main, ret, upgradeVars, webVars, shutdown, firmware,
                 promised, restarts>>

CheckQuitValue ==
  /\ main = "scene" /\ quit # "none"
  /\ main' = "quit"
  /\ UNCHANGED <<quit, ret, upgradeVars, webVars, shutdown, firmware,
                 promised, restarts>>

\* SceneRun reads quitValue once more to return it.
SceneReturn ==
  /\ main = "quit"
  /\ ret' = quit /\ main' = "exit"
  /\ UNCHANGED <<quit, upgradeVars, webVars, shutdown, firmware, promised,
                 restarts>>

\* For an upgrade from the web the server goes on.
WebServerExit ==
  /\ main = "exit"
  /\ IF ret = "web" THEN main' = "process" /\ UNCHANGED shutdown
                    ELSE main' = "join" /\ shutdown' = TRUE
  /\ UNCHANGED <<quit, ret, upgradeVars, webVars, firmware, promised, restarts>>

\* MHD_stop_daemon (daemon.c:4151) joins the thread and closes what is open.
Join ==
  /\ main = "join" /\ web.at = "stopped"
  /\ main' = "process"
  /\ heap' = Without({request[c].buf : c \in Conns})
  /\ request' = [c \in Conns |-> Closed]
  /\ UNCHANGED <<quit, ret, upgradeVars, fwFileBuf, web, shutdown, firmware,
                 promised, restarts>>

ResetFactory ==
  /\ main = "process" /\ ret = "factory"
  /\ Exit(firmware.cached)
  /\ UNCHANGED promised

\* A package from USB or FTP: none usable, programmed, or programmed in part.
UpgradeFirmware ==
  /\ main = "process" /\ ret = "firmware"
  /\ \/ Exit(firmware.cached) /\ UNCHANGED promised
     \/ \E p \in Firmware : Exit(p) /\ promised' = None

ClearStream ==
  /\ main = "process" /\ ret = "web"
  /\ stream' = None
  /\ main' = "clear"
  /\ UNCHANGED <<quit, ret, ready, finished, result, webVars, shutdown,
                 firmware, promised, restarts>>

SetReady ==
  /\ main = "clear"
  /\ ready' = TRUE
  /\ main' = "wait"
  /\ UNCHANGED <<quit, ret, stream, finished, result, webVars, shutdown,
                 firmware, promised, restarts>>

\* The loop that waits for upgradeStream ends, programming begins.
TakeStream ==
  /\ main = "wait" /\ stream # None
  /\ main' = "program"
  /\ firmware' = [firmware EXCEPT !.cached = Torn]
  /\ promised' = None
  /\ UNCHANGED <<quit, ret, upgradeVars, webVars, shutdown, restarts>>

\* ugUpgradePackage, which may fail, and upgradeResult; ready stays set.
UpgradePackage ==
  /\ main = "program"
  /\ main' = "programmed"
  /\ \/ /\ heap[stream] \in Packages
        /\ firmware' = [firmware EXCEPT !.cached = heap[stream]]
        /\ result' = 0
     \/ UNCHANGED firmware /\ result' = 1
  /\ UNCHANGED <<quit, ret, ready, stream, finished, webVars, shutdown,
                 promised, restarts>>

\* Mutant: a failed upgrade does not set upgradeIsFinished.
SetFinishedOnSuccess ==
  /\ main = "programmed"
  /\ finished' = (result = 0)
  /\ main' = "asleep"
  /\ UNCHANGED <<quit, ret, ready, stream, result, webVars, shutdown, firmware,
                 promised, restarts>>

\* The main thread sleeps from now on.
SetFinished ==
  /\ main = "programmed"
  /\ finished' = TRUE
  /\ main' = "asleep"
  /\ UNCHANGED <<quit, ret, ready, stream, result, webVars, shutdown, firmware,
                 promised, restarts>>

-----------------------------------------------------------------------------
Client ==
  \/ \E c \in Conns : Post(c) \/ Upload(c) \/ Uploaded(c) \/ Completed(c)
  \/ GetUpgrade \/ GetReboot \/ GetResetFactory

ReceiveAny == \E p \in Packages \cup {Damaged} : Receive(p)
WebThread == ReceiveAny \/ SetStream \/ Answer \/ Stop

MainThread ==
  \/ CheckQuitValue \/ SceneReturn \/ WebServerExit \/ Join \/ ResetFactory
  \/ UpgradeFirmware \/ ClearStream \/ SetReady \/ TakeStream \/ UpgradePackage
  \/ SetFinished

Next == Client \/ WebThread \/ MainThread \/ UpgradeButton \/ PowerLoss

Spec == Init /\ [][Next]_vars

\* Both threads are scheduled for ever, and the server's tests its shutdown
\* flag after every round of requests; what clients send is up to them.
FairSpec ==
  Spec /\ WF_vars(WebThread) /\ WF_vars(MainThread) /\ SF_vars(Stop)

-----------------------------------------------------------------------------
(***************************************************************************)
(* A package that was received is in memory no request frees when it ends  *)
(* (webserver.c:360), and while it is programmed it is the one whose       *)
(* checksum was verified, with the request that verified it still waiting: *)
(* the main thread reads a stream on that thread's stack (upgrade.c:465).  *)
(***************************************************************************)
StreamInMemory ==
  /\ fwFileBuf # None => /\ heap[fwFileBuf] # None
                         /\ \A c \in Conns : request[c].buf # fwFileBuf
  /\ main = "program" => /\ web.at = "finished?"
                         /\ heap[stream] = web.package

(***************************************************************************)
(* An upgrade that was answered with success (webserver.c:177-182) stays,  *)
(* whatever power losses and restarts follow, until another one begins.    *)
(***************************************************************************)
OkSurvives == promised # None => firmware.durable = promised

(***************************************************************************)
(* The stream a request waits for is not taken away: it was not handed     *)
(* over before UpgradeProcess had cleared the variable (upgrade.c:451).    *)
(***************************************************************************)
StreamKept ==
  [][web.at = "finished?" /\ web'.at = "finished?" => stream' = stream]_vars

(***************************************************************************)
(* An upgrade that has begun is answered, failed ones too                  *)
(* (webserver.c:170), unless the board restarts.                           *)
(***************************************************************************)
UpgradeAnswered == main = "program" ~> web.at = "select"

(***************************************************************************)
(* The server comes back to its clients again and again, except when the   *)
(* main thread has served its one upgrade, or stops the server.            *)
(***************************************************************************)
ServerBack ==
  []<>(web.at \in {"select", "stopped"} \/ main \in {"asleep", "join", "off"})

(***************************************************************************)
(* ctrlboard.h:449, "Quit to reset to factory setting": when SceneRun has  *)
(* returned that value the reset is done, and the board restarts.          *)
(***************************************************************************)
ResetHappens == main = "exit" /\ ret = "factory" ~> main \in {"scene", "off"}

=============================================================================
