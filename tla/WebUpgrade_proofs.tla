-------------------------- MODULE WebUpgrade_proofs --------------------------
(***************************************************************************)
(* Proofs about WebUpgrade, for any number of connections, buffers,        *)
(* packages and restarts.                                                  *)
(***************************************************************************)
EXTENDS WebUpgrade, TLAPS

(* Each buffer in use has one owner: a request, or fwFileBuf.              *)
Owned ==
  /\ fwFileBuf # None => heap[fwFileBuf] # None
  /\ \A c \in Conns : request[c].buf # None =>
       /\ heap[request[c].buf] # None
       /\ request[c].buf # fwFileBuf
       /\ \A d \in Conns : request[d].buf = request[c].buf => d = c

(* Nothing is received before the main thread is ready.                    *)
ReadyFirst ==
  /\ ready => main \in {"wait", "program", "programmed", "asleep"}
  /\ fwFileBuf # None => ready
  /\ \A c \in Conns : request[c].buf # None => ready

(* While a request waits, its package is in the stream it handed over, and *)
(* the main thread works on a stream only while a request waits for it.    *)
Handshake ==
  /\ web.at \in {"hand", "finished?"} =>
       /\ fwFileBuf # None /\ heap[fwFileBuf] = web.package
       /\ web.package \in Packages
  /\ web.at = "hand" => ~finished
  /\ web.at = "finished?" => stream = fwFileBuf
  /\ main = "clear" => stream = None
  /\ main = "wait" /\ stream # None => web.at = "finished?"
  /\ main \in {"program", "programmed"} => web.at = "finished?"
  /\ finished => main = "asleep"

(* What was promised is on the flash and in the cache, and nothing is      *)
(* promised while the firmware is programmed.                              *)
Promise ==
  /\ promised # None => firmware.durable = promised /\ firmware.cached = promised
  /\ main \in {"program", "programmed"} => promised = None
  /\ web.at = "finished?" /\ result = 0 /\ (main = "programmed" \/ finished) =>
       firmware.cached = web.package

IInv == TypeOK /\ Owned /\ ReadyFirst /\ Handshake /\ Promise

-----------------------------------------------------------------------------
LEMMA BootKeeps ==
  ASSUME NEW p \in Firmware, Boot(p), TypeOK, promised' \in {p, None} \cap (Packages \cup {None})
  PROVE  IInv'
<1> USE DEF Boot, Closed, Idle
<1>1. TypeOK'
  <2>1. restarts' \in 0 .. MaxRestarts
    BY WebUpgradeAssumption DEF TypeOK
  <2>2. heap' \in [Buffers -> Packages \cup {Damaged, None}]
    OBVIOUS
  <2>3. request' \in [Conns -> [at : {"closed", "open", "answered"}, buf : Buffers \cup {None}]]
    OBVIOUS
  <2>4. firmware' \in [cached : Firmware, durable : Firmware]
    OBVIOUS
  <2> QED
    BY <2>1, <2>2, <2>3, <2>4 DEF TypeOK, QuitValue
<1>2. Owned' /\ ReadyFirst' /\ Handshake' /\ Promise'
  BY DEF Owned, ReadyFirst, Handshake, Promise
<1> QED
  BY <1>1, <1>2 DEF IInv

(* Every restart leaves a state of the invariant.                          *)
LEMMA Restarted ==
  ASSUME IInv, GetReboot \/ ResetFactory \/ UpgradeFirmware \/ PowerLoss
  PROVE  IInv'
<1> USE DEF IInv, Exit
<1>0. /\ firmware.cached \in Firmware /\ firmware.durable \in Firmware
      /\ Torn \in Firmware /\ promised \in Packages \cup {None}
  BY DEF TypeOK, Firmware
<1>1. CASE GetReboot
  BY <1>0, <1>1, BootKeeps DEF GetReboot, Promise
<1>2. CASE ResetFactory
  BY <1>0, <1>2, BootKeeps DEF ResetFactory, Promise
<1>3. CASE UpgradeFirmware
  BY <1>0, <1>3, BootKeeps DEF UpgradeFirmware, Promise
<1>4. CASE PowerLoss
  BY <1>0, <1>4, BootKeeps DEF PowerLoss, Promise
<1> QED
  BY <1>1, <1>2, <1>3, <1>4

(* What the server's thread can be doing (of TypeOK).                      *)
WebStates == [at      : {"select", "ready?", "hand", "finished?", "stopped"},
              conn    : Conns \cup {None},
              package : Packages \cup {Damaged, None}]

LEMMA TypeStep ==
  ASSUME IInv, [Next]_vars
  PROVE  TypeOK'
<1> USE DEF IInv, TypeOK, Firmware, QuitValue
<1>1. ASSUME NEW c \in Conns, Post(c) PROVE TypeOK'
  BY <1>1 DEF Post, Serving, upgradeVars
<1>2. ASSUME NEW c \in Conns, Upload(c) PROVE TypeOK'
  <2>1. web' \in WebStates
    BY <1>2 DEF Upload, WebStates
  <2> QED
    BY <1>2, <2>1 DEF Upload, Serving, WebStates, upgradeVars
<1>3. ASSUME NEW c \in Conns, Uploaded(c) PROVE TypeOK'
  BY <1>3 DEF Uploaded, Serving, upgradeVars
<1>4. ASSUME NEW c \in Conns, Completed(c) PROVE TypeOK'
  BY <1>4 DEF Completed, Serving, Closed, Without, upgradeVars
<1>5. CASE GetUpgrade
  <2>1. web' \in WebStates
    BY <1>5 DEF GetUpgrade, WebStates
  <2>2. finished' \in BOOLEAN /\ result' \in {0, 1}
    BY <1>5 DEF GetUpgrade
  <2>3. UNCHANGED <<quit, main, ret, ready, stream, heap, request, fwFileBuf, shutdown, firmware,
                    promised, restarts>>
    BY <1>5 DEF GetUpgrade
  <2> QED
    BY <2>1, <2>2, <2>3 DEF WebStates
<1>6. CASE GetReboot \/ ResetFactory \/ UpgradeFirmware \/ PowerLoss
  BY <1>6, Restarted
<1>7. CASE GetResetFactory
  BY <1>7 DEF GetResetFactory, Serving, upgradeVars, webVars
<1>8. ASSUME NEW p \in Packages \cup {Damaged}, Receive(p) PROVE TypeOK'
  BY <1>8 DEF Receive, Idle, upgradeVars
<1>9. CASE SetStream
  BY <1>9 DEF SetStream
<1>10. CASE Answer
  <2>1. firmware' \in [cached : Firmware, durable : Firmware] /\ web' \in WebStates
    BY <1>10 DEF Answer, Idle, WebStates
  <2>2. promised' \in Packages \cup {None}
    BY <1>10 DEF Answer, Handshake
  <2>3. UNCHANGED <<quit, main, ret, upgradeVars, heap, request, fwFileBuf, shutdown, restarts>>
    BY <1>10 DEF Answer
  <2> QED
    BY <2>1, <2>2, <2>3 DEF WebStates, upgradeVars
<1>11. CASE Stop
  BY <1>11 DEF Stop, Serving, Idle, upgradeVars
<1>12. CASE CheckQuitValue
  BY <1>12 DEF CheckQuitValue, upgradeVars, webVars
<1>13. CASE SceneReturn
  BY <1>13 DEF SceneReturn, upgradeVars, webVars
<1>14. CASE WebServerExit
  <2>1. main' \in {"process", "join"} /\ shutdown' \in BOOLEAN
    BY <1>14 DEF WebServerExit
  <2> QED
    BY <1>14, <2>1 DEF WebServerExit, upgradeVars, webVars
<1>15. CASE Join
  BY <1>15 DEF Join, Closed, Without, upgradeVars
<1>16. CASE ClearStream
  BY <1>16 DEF ClearStream, webVars
<1>17. CASE SetReady
  BY <1>17 DEF SetReady, webVars
<1>18. CASE TakeStream
  BY <1>18 DEF TakeStream, upgradeVars, webVars
<1>19. CASE UpgradePackage
  BY <1>19 DEF UpgradePackage, webVars
<1>20. CASE SetFinished
  BY <1>20 DEF SetFinished, webVars
<1>21. CASE UpgradeButton
  BY <1>21 DEF UpgradeButton, upgradeVars, webVars
<1>22. CASE UNCHANGED vars
  BY <1>22 DEF vars, upgradeVars, webVars
<1> QED
  BY <1>1, <1>2, <1>3, <1>4, <1>5, <1>6, <1>7, <1>8, <1>9, <1>10, <1>11, <1>12, <1>13, <1>14, <1>15,
     <1>16, <1>17, <1>18, <1>19, <1>20, <1>21, <1>22 DEF Next, Client, WebThread, ReceiveAny,
     MainThread

(* A buffer is taken only when it is free, and given back by its owner.    *)
LEMMA OwnedStep ==
  ASSUME IInv, [Next]_vars
  PROVE  Owned'
<1> USE DEF IInv, TypeOK, Owned
<1>1. ASSUME NEW c \in Conns, Post(c) PROVE Owned'
  BY <1>1 DEF Post, Serving, upgradeVars
<1>2. ASSUME NEW c \in Conns, Upload(c) PROVE Owned'
  BY <1>2 DEF Upload, Serving, upgradeVars
<1>3. ASSUME NEW c \in Conns, Uploaded(c) PROVE Owned'
  BY <1>3 DEF Uploaded, Serving, upgradeVars
<1>4. ASSUME NEW c \in Conns, Completed(c) PROVE Owned'
  BY <1>4 DEF Completed, Serving, Closed, Without, upgradeVars
<1>5. CASE GetUpgrade
  BY <1>5 DEF GetUpgrade, Serving
<1>6. CASE GetReboot \/ ResetFactory \/ UpgradeFirmware \/ PowerLoss
  BY <1>6, Restarted
<1>7. CASE GetResetFactory
  BY <1>7 DEF GetResetFactory, Serving, upgradeVars, webVars
<1>8. ASSUME NEW p \in Packages \cup {Damaged}, Receive(p) PROVE Owned'
  <2>1. CASE \A b \in Buffers : heap[b] # None
    BY <1>8, <2>1 DEF Receive
  <2>2. ASSUME NEW b \in Buffers, heap[b] = None,
               heap' = [heap EXCEPT ![b] = p],
               request' = [request EXCEPT ![web.conn].buf = b]
        PROVE  Owned'
    <3>1. fwFileBuf' = fwFileBuf /\ p # None
      BY <1>8, WebUpgradeAssumption DEF Receive
    <3>2. \A c \in Conns : request'[c].buf = IF c = web.conn THEN b ELSE request[c].buf
      BY <2>2
    <3>3. \A a \in Buffers : heap'[a] = IF a = b THEN p ELSE heap[a]
      BY <2>2
    <3> QED
      BY <2>2, <3>1, <3>2, <3>3
  <2> QED
    BY <1>8, <2>1, <2>2 DEF Receive
<1>9. CASE SetStream
  BY <1>9 DEF SetStream
<1>10. CASE Answer
  BY <1>10 DEF Answer, Idle, upgradeVars
<1>11. CASE Stop
  BY <1>11 DEF Stop, Serving, Idle, upgradeVars
<1>12. CASE CheckQuitValue
  BY <1>12 DEF CheckQuitValue, upgradeVars, webVars
<1>13. CASE SceneReturn
  BY <1>13 DEF SceneReturn, upgradeVars, webVars
<1>14. CASE WebServerExit
  BY <1>14 DEF WebServerExit, upgradeVars, webVars
<1>15. CASE Join
  BY <1>15 DEF Join, Closed, Without, upgradeVars
<1>16. CASE ClearStream
  BY <1>16 DEF ClearStream, webVars
<1>17. CASE SetReady
  BY <1>17 DEF SetReady, webVars
<1>18. CASE TakeStream
  BY <1>18 DEF TakeStream, upgradeVars, webVars
<1>19. CASE UpgradePackage
  BY <1>19 DEF UpgradePackage, webVars
<1>20. CASE SetFinished
  BY <1>20 DEF SetFinished, webVars
<1>21. CASE UpgradeButton
  BY <1>21 DEF UpgradeButton, upgradeVars, webVars
<1>22. CASE UNCHANGED vars
  BY <1>22 DEF vars, upgradeVars, webVars
<1> QED
  BY <1>1, <1>2, <1>3, <1>4, <1>5, <1>6, <1>7, <1>8, <1>9, <1>10, <1>11, <1>12, <1>13, <1>14, <1>15,
     <1>16, <1>17, <1>18, <1>19, <1>20, <1>21, <1>22 DEF Next, Client, WebThread, ReceiveAny,
     MainThread

LEMMA ReadyStep ==
  ASSUME IInv, [Next]_vars
  PROVE  ReadyFirst'
<1> USE DEF IInv, TypeOK, ReadyFirst
<1>1. ASSUME NEW c \in Conns, Post(c) PROVE ReadyFirst'
  BY <1>1 DEF Post, Serving, upgradeVars
<1>2. ASSUME NEW c \in Conns, Upload(c) PROVE ReadyFirst'
  BY <1>2 DEF Upload, Serving, upgradeVars
<1>3. ASSUME NEW c \in Conns, Uploaded(c) PROVE ReadyFirst'
  BY <1>3 DEF Uploaded, Serving, upgradeVars
<1>4. ASSUME NEW c \in Conns, Completed(c) PROVE ReadyFirst'
  BY <1>4 DEF Completed, Serving, Closed, Without, upgradeVars
<1>5. CASE GetUpgrade
  BY <1>5 DEF GetUpgrade, Serving
<1>6. CASE GetReboot \/ ResetFactory \/ UpgradeFirmware \/ PowerLoss
  BY <1>6, Restarted
<1>7. CASE GetResetFactory
  BY <1>7 DEF GetResetFactory, Serving, upgradeVars, webVars
<1>8. ASSUME NEW p \in Packages \cup {Damaged}, Receive(p) PROVE ReadyFirst'
  BY <1>8 DEF Receive, Idle, upgradeVars
<1>9. CASE SetStream
  BY <1>9 DEF SetStream
<1>10. CASE Answer
  BY <1>10 DEF Answer, Idle, upgradeVars
<1>11. CASE Stop
  BY <1>11 DEF Stop, Serving, Idle, upgradeVars
<1>12. CASE CheckQuitValue
  BY <1>12 DEF CheckQuitValue, upgradeVars, webVars
<1>13. CASE SceneReturn
  BY <1>13 DEF SceneReturn, upgradeVars, webVars
<1>14. CASE WebServerExit
  BY <1>14 DEF WebServerExit, upgradeVars, webVars
<1>15. CASE Join
  BY <1>15 DEF Join, Closed, Without, upgradeVars
<1>16. CASE ClearStream
  BY <1>16 DEF ClearStream, webVars
<1>17. CASE SetReady
  BY <1>17 DEF SetReady, webVars
<1>18. CASE TakeStream
  BY <1>18 DEF TakeStream, upgradeVars, webVars
<1>19. CASE UpgradePackage
  BY <1>19 DEF UpgradePackage, webVars
<1>20. CASE SetFinished
  BY <1>20 DEF SetFinished, webVars
<1>21. CASE UpgradeButton
  BY <1>21 DEF UpgradeButton, upgradeVars, webVars
<1>22. CASE UNCHANGED vars
  BY <1>22 DEF vars, upgradeVars, webVars
<1> QED
  BY <1>1, <1>2, <1>3, <1>4, <1>5, <1>6, <1>7, <1>8, <1>9, <1>10, <1>11, <1>12, <1>13, <1>14, <1>15,
     <1>16, <1>17, <1>18, <1>19, <1>20, <1>21, <1>22 DEF Next, Client, WebThread, ReceiveAny,
     MainThread

(* No step of one thread disturbs what the other one waits for.            *)
LEMMA HandshakeStep ==
  ASSUME IInv, [Next]_vars
  PROVE  Handshake'
<1> USE DEF IInv, TypeOK, Handshake, ReadyFirst, Owned
<1>1. ASSUME NEW c \in Conns, Post(c) PROVE Handshake'
  BY <1>1 DEF Post, Serving, upgradeVars
<1>2. ASSUME NEW c \in Conns, Upload(c) PROVE Handshake'
  BY <1>2 DEF Upload, Serving, upgradeVars
<1>3. ASSUME NEW c \in Conns, Uploaded(c) PROVE Handshake'
  BY <1>3 DEF Uploaded, Serving, upgradeVars
<1>4. ASSUME NEW c \in Conns, Completed(c) PROVE Handshake'
  BY <1>4 DEF Completed, Serving, Closed, Without, upgradeVars
<1>5. CASE GetUpgrade
  BY <1>5 DEF GetUpgrade, Serving
<1>6. CASE GetReboot \/ ResetFactory \/ UpgradeFirmware \/ PowerLoss
  BY <1>6, Restarted
<1>7. CASE GetResetFactory
  BY <1>7 DEF GetResetFactory, Serving, upgradeVars, webVars
<1>8. ASSUME NEW p \in Packages \cup {Damaged}, Receive(p) PROVE Handshake'
  BY <1>8 DEF Receive, Idle, upgradeVars
<1>9. CASE SetStream
  BY <1>9 DEF SetStream
<1>10. CASE Answer
  BY <1>10 DEF Answer, Idle, upgradeVars
<1>11. CASE Stop
  BY <1>11 DEF Stop, Serving, Idle, upgradeVars
<1>12. CASE CheckQuitValue
  BY <1>12 DEF CheckQuitValue, upgradeVars, webVars
<1>13. CASE SceneReturn
  BY <1>13 DEF SceneReturn, upgradeVars, webVars
<1>14. CASE WebServerExit
  BY <1>14 DEF WebServerExit, upgradeVars, webVars
<1>15. CASE Join
  BY <1>15 DEF Join, Closed, Without, upgradeVars
<1>16. CASE ClearStream
  BY <1>16 DEF ClearStream, webVars
<1>17. CASE SetReady
  BY <1>17 DEF SetReady, webVars
<1>18. CASE TakeStream
  BY <1>18 DEF TakeStream, upgradeVars, webVars
<1>19. CASE UpgradePackage
  BY <1>19 DEF UpgradePackage, webVars
<1>20. CASE SetFinished
  BY <1>20 DEF SetFinished, webVars
<1>21. CASE UpgradeButton
  BY <1>21 DEF UpgradeButton, upgradeVars, webVars
<1>22. CASE UNCHANGED vars
  BY <1>22 DEF vars, upgradeVars, webVars
<1> QED
  BY <1>1, <1>2, <1>3, <1>4, <1>5, <1>6, <1>7, <1>8, <1>9, <1>10, <1>11, <1>12, <1>13, <1>14, <1>15,
     <1>16, <1>17, <1>18, <1>19, <1>20, <1>21, <1>22 DEF Next, Client, WebThread, ReceiveAny,
     MainThread

LEMMA PromiseStep ==
  ASSUME IInv, [Next]_vars
  PROVE  Promise'
<1> USE DEF IInv, TypeOK, Promise, Handshake
<1>1. ASSUME NEW c \in Conns, Post(c) PROVE Promise'
  BY <1>1 DEF Post, Serving, upgradeVars
<1>2. ASSUME NEW c \in Conns, Upload(c) PROVE Promise'
  BY <1>2 DEF Upload, Serving, upgradeVars
<1>3. ASSUME NEW c \in Conns, Uploaded(c) PROVE Promise'
  BY <1>3 DEF Uploaded, Serving, upgradeVars
<1>4. ASSUME NEW c \in Conns, Completed(c) PROVE Promise'
  BY <1>4 DEF Completed, Serving, Closed, Without, upgradeVars
<1>5. CASE GetUpgrade
  BY <1>5 DEF GetUpgrade, Serving
<1>6. CASE GetReboot \/ ResetFactory \/ UpgradeFirmware \/ PowerLoss
  BY <1>6, Restarted
<1>7. CASE GetResetFactory
  BY <1>7 DEF GetResetFactory, Serving, upgradeVars, webVars
<1>8. ASSUME NEW p \in Packages \cup {Damaged}, Receive(p) PROVE Promise'
  BY <1>8 DEF Receive, Idle, upgradeVars
<1>9. CASE SetStream
  BY <1>9 DEF SetStream
<1>10. CASE Answer
  BY <1>10 DEF Answer, Idle, upgradeVars
<1>11. CASE Stop
  BY <1>11 DEF Stop, Serving, Idle, upgradeVars
<1>12. CASE CheckQuitValue
  BY <1>12 DEF CheckQuitValue, upgradeVars, webVars
<1>13. CASE SceneReturn
  BY <1>13 DEF SceneReturn, upgradeVars, webVars
<1>14. CASE WebServerExit
  BY <1>14 DEF WebServerExit, upgradeVars, webVars
<1>15. CASE Join
  BY <1>15 DEF Join, Closed, Without, upgradeVars
<1>16. CASE ClearStream
  BY <1>16 DEF ClearStream, webVars
<1>17. CASE SetReady
  BY <1>17 DEF SetReady, webVars
<1>18. CASE TakeStream
  BY <1>18 DEF TakeStream, upgradeVars, webVars
<1>19. CASE UpgradePackage
  BY <1>19 DEF UpgradePackage, webVars
<1>20. CASE SetFinished
  BY <1>20 DEF SetFinished, webVars
<1>21. CASE UpgradeButton
  BY <1>21 DEF UpgradeButton, upgradeVars, webVars
<1>22. CASE UNCHANGED vars
  BY <1>22 DEF vars, upgradeVars, webVars
<1> QED
  BY <1>1, <1>2, <1>3, <1>4, <1>5, <1>6, <1>7, <1>8, <1>9, <1>10, <1>11, <1>12, <1>13, <1>14, <1>15,
     <1>16, <1>17, <1>18, <1>19, <1>20, <1>21, <1>22 DEF Next, Client, WebThread, ReceiveAny,
     MainThread

-----------------------------------------------------------------------------
LEMMA InvInit == Init => IInv
<1> SUFFICES ASSUME Init PROVE IInv
  OBVIOUS
<1> USE DEF Init, Started, Closed, Idle
<1>1. TypeOK
  <2>1. PICK p \in Packages : Started(p)
    OBVIOUS
  <2>2. heap \in [Buffers -> Packages \cup {Damaged, None}]
    OBVIOUS
  <2>3. request \in [Conns -> [at : {"closed", "open", "answered"}, buf : Buffers \cup {None}]]
    OBVIOUS
  <2>4. firmware \in [cached : Firmware, durable : Firmware]
    BY <2>1 DEF Firmware
  <2>5. restarts \in 0 .. MaxRestarts
    BY WebUpgradeAssumption
  <2>6. web \in WebStates
    BY DEF WebStates
  <2> QED
    BY <2>2, <2>3, <2>4, <2>5, <2>6 DEF TypeOK, QuitValue, WebStates
<1>2. Owned /\ ReadyFirst /\ Handshake /\ Promise
  BY DEF Owned, ReadyFirst, Handshake, Promise
<1> QED
  BY <1>1, <1>2 DEF IInv

LEMMA InvStep == IInv /\ [Next]_vars => IInv'
  BY TypeStep, OwnedStep, ReadyStep, HandshakeStep, PromiseStep DEF IInv

LEMMA Invariance == Spec => []IInv
<1>1. Init => IInv
  BY InvInit
<1>2. IInv /\ [Next]_vars => IInv'
  BY InvStep
<1> QED
  BY <1>1, <1>2, PTL DEF Spec

(***************************************************************************)
(* The variables of both threads keep their types (the type invariant).    *)
(***************************************************************************)
THEOREM TypeCorrect == Spec => []TypeOK
<1>1. IInv => TypeOK
  BY DEF IInv
<1> QED
  BY <1>1, Invariance, PTL

(***************************************************************************)
(* A package that was received stays in memory, and the one that is        *)
(* programmed is the one that was verified: no request frees the buffer    *)
(* the main thread reads (webserver.c:360, upgrade.c:465).                 *)
(***************************************************************************)
THEOREM PackageInMemory == Spec => []StreamInMemory
<1>1. IInv => StreamInMemory
  BY DEF IInv, TypeOK, Owned, Handshake, StreamInMemory
<1> QED
  BY <1>1, Invariance, PTL

(***************************************************************************)
(* An upgrade answered with success outlives power losses and restarts     *)
(* (webserver.c:177-182).                                                  *)
(***************************************************************************)
THEOREM SuccessIsDurable == Spec => []OkSurvives
<1>1. IInv => OkSurvives
  BY DEF IInv, Promise, OkSurvives
<1> QED
  BY <1>1, Invariance, PTL

(***************************************************************************)
(* The stream a request waits for is not taken from it: UpgradeProcess     *)
(* clears the variable only before a package can be received               *)
(* (upgrade.c:451-455).                                                    *)
(***************************************************************************)
THEOREM StreamIsKept == Spec => StreamKept
<1>1. IInv /\ [Next]_vars => [web.at = "finished?" /\ web'.at = "finished?" => stream' = stream]_vars
  <2> SUFFICES ASSUME IInv, [Next]_vars, web.at = "finished?", web'.at = "finished?"
               PROVE  stream' = stream
    OBVIOUS
  <2>1. main # "process" /\ ready
    BY DEF IInv, Handshake, ReadyFirst
  <2>2. ~ \E p \in Firmware : Boot(p)
    BY DEF Boot, Idle
  <2>3. ~GetReboot /\ ~ResetFactory /\ ~UpgradeFirmware /\ ~PowerLoss
    BY <2>2 DEF GetReboot, ResetFactory, UpgradeFirmware, PowerLoss, Exit, IInv, TypeOK, Firmware
  <2> QED
    BY <2>1, <2>3 DEF Next, Client, WebThread, ReceiveAny, MainThread, Post, Upload, Uploaded,
       Completed, GetUpgrade, GetResetFactory, Receive, SetStream, Answer, Stop, CheckQuitValue,
       SceneReturn, WebServerExit, Join, ClearStream, SetReady, TakeStream, UpgradePackage,
       SetFinished, UpgradeButton, Serving, vars, upgradeVars, webVars
<1> QED
  BY <1>1, Invariance, PTL DEF Spec, StreamKept

-----------------------------------------------------------------------------
(* How many steps the answer to an upgrade that is programmed is away.     *)
ToAnswer ==
  CASE main = "program"    -> 3
    [] main = "programmed" -> 2
    [] main \notin {"program", "programmed"} /\ web.at = "finished?" /\ finished -> 1
    [] OTHER -> 0

(* The request that asked for the upgrade holds the server's thread.       *)
LEMMA RequestWaits ==
  ASSUME IInv, ToAnswer > 0
  PROVE  /\ web.at = "finished?" /\ main \in {"program", "programmed", "asleep"}
         /\ finished <=> main = "asleep"
BY DEF IInv, TypeOK, Handshake, ToAnswer

(* A restart closes all requests.                                          *)
LEMMA RestartAnswersNobody ==
  ASSUME NEW p \in Firmware, Boot(p)
  PROVE  web'.at = "select" /\ ToAnswer' = 0
<1>1. web' = Idle /\ main' \in {"off", "scene"} BY DEF Boot
<1>2. web'.at = "select" BY <1>1 DEF Idle
<1> QED BY <1>1, <1>2 DEF ToAnswer

LEMMA AnswerNearer ==
  ASSUME IInv, ToAnswer > 0, [Next]_vars
  PROVE  /\ web'.at = "select" \/ ToAnswer' \in 1 .. ToAnswer
         /\ WebThread \/ MainThread => ToAnswer' < ToAnswer
<1>1. /\ web.at = "finished?" /\ main \in {"program", "programmed", "asleep"}
      /\ finished <=> main = "asleep"
  BY RequestWaits
<1>2. firmware.cached \in Firmware /\ firmware.durable \in Firmware /\ Torn \in Firmware
  BY DEF IInv, TypeOK, Firmware
<1>3. ~ Client /\ ~ UpgradeButton
  BY <1>1 DEF Client, Post, Upload, Uploaded, Completed, GetUpgrade, GetReboot, GetResetFactory,
     Serving, UpgradeButton
<1>4. WebThread => Answer
  BY <1>1 DEF WebThread, ReceiveAny, Receive, SetStream, Stop, Serving
<1>5. MainThread => UpgradePackage \/ SetFinished
  BY <1>1 DEF MainThread, CheckQuitValue, SceneReturn, WebServerExit, Join, ResetFactory,
     UpgradeFirmware, ClearStream, SetReady, TakeStream
<1>6. CASE UpgradePackage
  <2>1. main = "program" /\ main' = "programmed" BY <1>6 DEF UpgradePackage
  <2>2. ToAnswer = 3 /\ ToAnswer' = 2 BY <2>1 DEF ToAnswer
  <2> QED BY <2>2
<1>7. CASE SetFinished
  <2>1. main = "programmed" /\ main' = "asleep" /\ finished' = TRUE /\ web' = web
    BY <1>7 DEF SetFinished, webVars
  <2>2. ToAnswer = 2 /\ ToAnswer' = 1 BY <1>1, <2>1 DEF ToAnswer
  <2> QED BY <2>2
<1>8. CASE Answer
  <2>1. web'.at = "select" /\ main = "asleep" /\ main' = main BY <1>1, <1>8 DEF Answer, Idle
  <2>2. ToAnswer' = 0 BY <2>1 DEF ToAnswer
  <2> QED BY <2>1, <2>2
<1>9. CASE PowerLoss
  <2>1. PICK p \in Firmware : Boot(p) BY <1>2, <1>9 DEF PowerLoss
  <2>2. web'.at = "select" /\ ToAnswer' = 0 BY <2>1, RestartAnswersNobody
  <2> QED BY <2>2
<1>10. CASE UNCHANGED vars
  <2>1. ToAnswer' = ToAnswer BY <1>10 DEF vars, upgradeVars, ToAnswer
  <2>2. ToAnswer \in 1 .. 3 BY <1>1 DEF ToAnswer
  <2>3. ~ WebThread /\ ~ MainThread
    <3>1. ~ UpgradePackage /\ ~ SetFinished
      BY <1>10 DEF UpgradePackage, SetFinished, vars
    <3>2. ~ Answer
      <4>1. Answer => web'.at = "select" BY DEF Answer, Idle
      <4> QED BY <1>1, <1>10, <4>1 DEF vars
    <3> QED BY <1>4, <1>5, <3>1, <3>2
  <2> QED BY <2>1, <2>2, <2>3
<1> QED BY <1>3, <1>4, <1>5, <1>6, <1>7, <1>8, <1>9, <1>10 DEF Next

(***************************************************************************)
(* An upgrade that is programmed is at most three steps from its answer:   *)
(* nothing a client, a button or a request does comes between, each step   *)
(* of a thread brings the answer nearer, and a power loss ends the request *)
(* with the server (UpgradeProcess, UpgradeIsFinished).                    *)
(***************************************************************************)
THEOREM UpgradeGetsOn ==
  Spec => [][ToAnswer > 0 =>
               /\ web'.at = "select" \/ ToAnswer' \in 1 .. ToAnswer
               /\ WebThread \/ MainThread => ToAnswer' < ToAnswer]_vars
<1>1. IInv /\ [Next]_vars =>
        [ToAnswer > 0 =>
           /\ web'.at = "select" \/ ToAnswer' \in 1 .. ToAnswer
           /\ WebThread \/ MainThread => ToAnswer' < ToAnswer]_vars
  BY AnswerNearer
<1> QED BY <1>1, Invariance, PTL DEF Spec
=============================================================================
