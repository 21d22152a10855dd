----------------------------- MODULE ServerProofs -----------------------------
(***************************************************************************)
(* Proofs about ServerConfig for any workers, ports, subnets, names, keys  *)
(* and number of requests and crashes.                                     *)
(***************************************************************************)
EXTENDS ServerConfig, TLAPS

(* What a position in a handler, or in main(), says of the values that the *)
(* next step uses.                                                         *)
LocalsOK ==
  /\ \A w \in Workers :
       /\ pc[w] \in {"trunc", "write", "unlock", "generate"} => cfg[w] \in Config
       /\ pc[w] = "sync" => shown[w] \in Interface
  /\ proc # "up" => \A w \in Workers : pc[w] = "idle"
  /\ proc \in {"fill", "fillwrite", "generate", "keysync", "keywrite", "bring"} => boot \in Config
  /\ proc \in {"fill", "generate", "keysync", "keywrite", "bring"} /\ ~botched =>
       cfgFile # Torn /\ cfgFile.port = boot.port /\ cfgFile.net = boot.net
  /\ proc = "keywrite" => wg0 # Down

TypeInv == TypeOK /\ LocalsOK

USE SettingsAssumption, SentinelAssumption DEF SettingsAssumption, SentinelAssumption

LEMMA InitTypes == Init => TypeInv
<1> SUFFICES ASSUME Init PROVE TypeInv
  OBVIOUS
<1>1. cfgFile \in Config
  BY DEF Init, DefaultConfig, Config
<1>2. conf \in Interface
  BY DEF Init, Interface
<1>3. LocalsOK /\ \A w \in Workers : mu = w <=> pc[w] \in {"trunc", "write", "unlock"}
  BY DEF Init, LocalsOK
<1>4. /\ pc \in [Workers -> {"idle"}] /\ op \in [Workers -> {"none"}]
      /\ cfg \in [Workers -> {Torn}] /\ shown \in [Workers -> {Down}]
  BY DEF Init
<1>5. /\ wgPort \in Ports /\ used \subseteq Keys /\ keyFile \in Keys /\ wg0 = conf
      /\ reqs \in 0 .. MaxRequests /\ faults \in 0 .. MaxFaults /\ proc \in {"up"} /\ mu \in {Free}
  BY DEF Init
<1>6. saved \in BOOLEAN /\ boot = Torn /\ botched = FALSE
  BY DEF Init
<1> QED
  BY <1>1, <1>2, <1>3, <1>4, <1>5, <1>6 DEF TypeInv, TypeOK

(* A request arrives: nothing is held and no file changes. *)
LEMMA ArriveTypes ==
  ASSUME TypeInv, NEW w \in Workers, Arrive(w)
  PROVE  TypeInv'
<1> USE DEF TypeInv, TypeOK, LocalsOK, Begin, At, Goto, disk, memory, start
<1>1. CASE SaveRead(w)
  BY <1>1 DEF SaveRead
<1>2. CASE GeneralBegin(w)
  BY <1>2 DEF GeneralBegin
<1>3. CASE PeerRead(w)
  BY <1>3 DEF PeerRead
<1>4. CASE PeerReadTorn(w)
  BY <1>4 DEF PeerReadTorn
<1>5. CASE Restart(w)
  BY <1>5 DEF Restart
<1>6. CASE StopServer(w)
  BY <1>6 DEF StopServer
<1>7. CASE StartServer(w)
  BY <1>7 DEF StartServer
<1> QED
  BY <1>1, <1>2, <1>3, <1>4, <1>5, <1>6, <1>7 DEF Arrive

(* generateWgConfig writes a file and keeps or makes a key. *)
LEMMA WriteConfTypes ==
  ASSUME TypeInv, NEW c \in Config, WriteConf(c)
  PROVE  /\ conf' \in Interface /\ keyFile' \in Keys /\ used' \subseteq Keys
         /\ conf'.port = c.port /\ c.net # BadNet
<1>1. PICK k \in Keys : TakeKey(k) /\ conf' = [port |-> c.port, net |-> c.net, key |-> k]
  BY DEF WriteConf
<1>2. c.net # BadNet
  BY DEF WriteConf
<1> QED
  BY <1>1, <1>2 DEF TakeKey, TypeInv, TypeOK, Config, Interface

(* It fails with wg0.conf as it was. *)
LEMMA NoConfTypes ==
  ASSUME TypeInv, NEW c, NoConf(c)
  PROVE  /\ conf' = conf /\ keyFile' \in Keys \cup {NoKey} /\ used' \subseteq Keys
         /\ faults' \in 0 .. MaxFaults
         /\ faults' = faults => c.net = BadNet \/ keyFile' = NoKey
<1>1. CASE NoKeyStored
  BY <1>1 DEF NoConf, NoKeyStored, Fault, TypeInv, TypeOK
<1>2. CASE \E k \in Keys : TakeKey(k)
  BY <1>2 DEF NoConf, NoKeyStored, TakeKey, Fault, TypeInv, TypeOK
<1> QED
  BY <1>1, <1>2 DEF NoConf

LEMMA EmptyTyped == DefaultConfig \in Config /\ EmptyConfig \in Config /\ EmptyConfig # Torn
<1>1. DefaultConfig \in Config
  BY DEF DefaultConfig, Config
<1>2. EmptyConfig \in Config
  BY <1>1 DEF EmptyConfig, Config
<1> QED
  BY <1>1, <1>2

LEMMA SaveTypes ==
  ASSUME TypeInv, NEW w \in Workers,
         \/ SaveRefused(w) \/ SavePanics(w) \/ SaveApply(w) \/ GeneralApply(w)
         \/ SaveTrunc(w) \/ SaveFailed(w) \/ SaveWrite(w) \/ SaveBroken(w) \/ SaveUnlock(w)
  PROVE  TypeInv'
<1> USE DEF TypeInv, TypeOK, LocalsOK, At, Goto, Reset, disk, memory, start, Fault
<1>1. CASE SaveRefused(w)
  BY <1>1 DEF SaveRefused
<1>2. CASE SavePanics(w)
  BY <1>2 DEF SavePanics
<1>3. CASE SaveApply(w)
  <2>1. cfg'[w] \in Config /\ cfg' \in [Workers -> Config \cup {Torn}]
    BY <1>3 DEF SaveApply, Config
  <2> QED
    BY <1>3, <2>1 DEF SaveApply
<1>4. CASE GeneralApply(w)
  <2>1. cfg'[w] \in Config /\ cfg' \in [Workers -> Config \cup {Torn}]
    BY <1>4, EmptyTyped DEF GeneralApply, Config
  <2> QED
    BY <1>4, <2>1 DEF GeneralApply
<1>5. CASE SaveTrunc(w)
  BY <1>5 DEF SaveTrunc
<1>6. CASE SaveFailed(w)
  BY <1>6 DEF SaveFailed
<1>7. CASE SaveWrite(w)
  BY <1>7 DEF SaveWrite
<1>8. CASE SaveUnlock(w)
  <2>1. wgPort' \in Ports /\ saved' \in BOOLEAN
    BY <1>8 DEF SaveUnlock, Config
  <2> QED
    BY <1>8, <2>1 DEF SaveUnlock
<1>9. CASE SaveBroken(w)
  <2>1. faults' \in 0 .. MaxFaults
    BY <1>9 DEF SaveBroken
  <2> HIDE DEF Fault
  <2> QED
    BY <1>9, <2>1 DEF SaveBroken
<1> QED
  BY <1>1, <1>2, <1>3, <1>4, <1>5, <1>6, <1>7, <1>8, <1>9

LEMMA InterfaceTypes ==
  ASSUME TypeInv, NEW w \in Workers,
         \/ GenerateWgConfig(w) \/ GenerateFailed(w) \/ ShowConf(w) \/ SyncConf(w) \/ SyncFailed(w)
         \/ RestartLock(w) \/ WgQuickDown(w) \/ WgQuickUp(w) \/ StopDown(w)
  PROVE  TypeInv'
<1> USE DEF TypeInv, TypeOK, LocalsOK, At, Goto, Reset, disk, memory, start, Fault
<1>1. CASE GenerateWgConfig(w)
  BY <1>1, WriteConfTypes DEF GenerateWgConfig
<1>2. CASE ShowConf(w)
  BY <1>2 DEF ShowConf
<1>3. CASE SyncConf(w)
  <2>1. wg0' \in Interface
    BY <1>3 DEF SyncConf, Interface
  <2> QED
    BY <1>3, <2>1 DEF SyncConf
<1>4. CASE SyncFailed(w)
  BY <1>4 DEF SyncFailed
<1>5. CASE RestartLock(w)
  BY <1>5 DEF RestartLock
<1>6. CASE WgQuickDown(w)
  BY <1>6 DEF WgQuickDown
<1>7. CASE WgQuickUp(w)
  BY <1>7 DEF WgQuickUp
<1>8. CASE StopDown(w)
  BY <1>8 DEF StopDown
<1>9. CASE GenerateFailed(w)
  BY <1>9, NoConfTypes DEF GenerateFailed
<1> QED
  BY <1>1, <1>2, <1>3, <1>4, <1>5, <1>6, <1>7, <1>8, <1>9

LEMMA StartupTypes ==
  ASSUME TypeInv, Startup \/ Crash
  PROVE  TypeInv'
<1> USE DEF TypeInv, TypeOK, LocalsOK, disk, memory, locals, Fault
<1>1. CASE StartLoad
  BY <1>1 DEF StartLoad
<1>2. CASE StartKeyTrunc
  BY <1>2 DEF StartKeyTrunc
<1>3. CASE StartNewKey
  BY <1>3 DEF StartNewKey
<1>4. CASE StartDefault
  BY <1>4, EmptyTyped DEF StartDefault
<1>5. CASE StartGenerate
  BY <1>5, WriteConfTypes DEF StartGenerate
<1>6. CASE StartKeySync
  BY <1>6 DEF StartKeySync
<1>7. CASE StartKeyWrite
  BY <1>7 DEF StartKeyWrite, Interface
<1>8. CASE StartBring
  <2>1. wg0' \in Interface
    BY <1>8 DEF StartBring, Interface
  <2> QED
    BY <1>8, <2>1 DEF StartBring
<1>9. CASE Crash
  BY <1>9 DEF Crash
<1>10. CASE StartFillTrunc
  <2>1. boot' \in Config
    BY <1>10 DEF StartFillTrunc, Config
  <2> QED
    BY <1>10, <2>1 DEF StartFillTrunc
<1>11. CASE StartFillWrite
  BY <1>11 DEF StartFillWrite
<1>12. CASE StartFillFailed
  BY <1>12 DEF StartFillFailed
<1>13. CASE StartGenerateFailed
  BY <1>13, NoConfTypes DEF StartGenerateFailed
<1>14. CASE StartKeyWriteFailed
  BY <1>14 DEF StartKeyWriteFailed
<1> QED
  BY <1>1, <1>2, <1>3, <1>4, <1>5, <1>6, <1>7, <1>8, <1>9, <1>10, <1>11, <1>12, <1>13, <1>14 DEF Startup

LEMMA StepTypes == TypeInv /\ [Next]_vars => TypeInv'
<1> SUFFICES ASSUME TypeInv, [Next]_vars PROVE TypeInv'
  OBVIOUS
<1>1. CASE UNCHANGED vars
  BY <1>1 DEF vars, disk, memory, start, locals, TypeInv, TypeOK, LocalsOK
<1>2. CASE Next
  BY <1>2, ArriveTypes, SaveTypes, InterfaceTypes, StartupTypes DEF Next, Continue
<1> QED
  BY <1>1, <1>2

LEMMA Types == Spec => []TypeInv
BY InitTypes, StepTypes, PTL DEF Spec

(* The variables keep their types, and s.mu is held by at most one         *)
(* handler, the one between its Lock and its Unlock, or for ever by one    *)
(* that panicked.                                                          *)
THEOREM TypeCorrect == Spec => []TypeOK
BY Types, PTL DEF TypeInv

-----------------------------------------------------------------------------
(* The port.  Only the holder of s.mu changes config.json; between its     *)
(* write and its Unlock the file is its copy, and a saveGeneralConfig      *)
(* leaves the port as it has found it under the lock.                      *)
PortAgrees == cfgFile # Torn /\ wgPort = cfgFile.port

PortInv ==
  /\ proc # "up" => ~saved
  /\ saved /\ mu \notin Workers => PortAgrees
  /\ \A w \in Workers :
       /\ pc[w] = "trunc" /\ saved => PortAgrees
       /\ pc[w] = "unlock" => cfgFile = cfg[w]
       /\ pc[w] \in {"trunc", "write", "unlock"} /\ saved /\ op[w] = "general" => cfg[w].port = wgPort

LEMMA InitPort == Init => PortInv
BY DEF Init, PortInv

(* A step of a request that neither takes, uses nor gives back s.mu. *)
Apart(w) ==
  /\ {pc[w], pc'[w]} \cap {"trunc", "write", "unlock"} = {}
  /\ \A v \in Workers \ {w} : pc'[v] = pc[v] /\ op'[v] = op[v] /\ cfg'[v] = cfg[v]
  /\ UNCHANGED <<cfgFile, memory, proc>>
  /\ mu' = mu \/ (mu' = Leaked /\ mu = Free)

LEMMA PortFrame ==
  ASSUME TypeInv, PortInv, NEW w \in Workers, Apart(w)
  PROVE  PortInv'
BY DEF Apart, memory, TypeInv, TypeOK, PortInv, PortAgrees

LEMMA ArriveApart ==
  ASSUME TypeInv, NEW w \in Workers, Arrive(w)
  PROVE  Apart(w)
<1> USE DEF TypeInv, TypeOK, Begin, At, Goto, disk, start, Apart
<1>1. CASE SaveRead(w) \/ GeneralBegin(w)
  BY <1>1 DEF SaveRead, GeneralBegin
<1>2. CASE PeerRead(w) \/ PeerReadTorn(w)
  BY <1>2 DEF PeerRead, PeerReadTorn
<1>3. CASE Restart(w) \/ StopServer(w) \/ StartServer(w)
  BY <1>3 DEF Restart, StopServer, StartServer
<1> QED
  BY <1>1, <1>2, <1>3 DEF Arrive

LEMMA InterfaceApart ==
  ASSUME TypeInv, NEW w \in Workers,
         \/ SaveRefused(w) \/ SavePanics(w)
         \/ GenerateWgConfig(w) \/ GenerateFailed(w) \/ ShowConf(w) \/ SyncConf(w) \/ SyncFailed(w)
         \/ RestartLock(w) \/ WgQuickDown(w) \/ WgQuickUp(w) \/ StopDown(w)
  PROVE  Apart(w)
<1> USE DEF TypeInv, TypeOK, At, Goto, Reset, disk, start, Apart
<1>1. CASE SaveRefused(w) \/ SavePanics(w)
  BY <1>1 DEF SaveRefused, SavePanics
<1>2. CASE GenerateWgConfig(w) \/ GenerateFailed(w)
  BY <1>2 DEF GenerateWgConfig, GenerateFailed
<1>3. CASE ShowConf(w) \/ SyncConf(w) \/ SyncFailed(w)
  BY <1>3 DEF ShowConf, SyncConf, SyncFailed
<1>4. CASE RestartLock(w) \/ WgQuickDown(w) \/ WgQuickUp(w) \/ StopDown(w)
  BY <1>4 DEF RestartLock, WgQuickDown, WgQuickUp, StopDown
<1> QED
  BY <1>1, <1>2, <1>3, <1>4

LEMMA SavePort ==
  ASSUME TypeInv, PortInv, NEW w \in Workers,
         \/ SaveApply(w) \/ GeneralApply(w)
         \/ SaveTrunc(w) \/ SaveFailed(w) \/ SaveWrite(w) \/ SaveBroken(w) \/ SaveUnlock(w)
  PROVE  PortInv'
<1> USE DEF TypeInv, TypeOK, LocalsOK, At, Goto, Reset, disk, memory, start, Fault
<1>1. CASE SaveApply(w)
  BY <1>1 DEF SaveApply, PortInv, PortAgrees
<1>2. CASE GeneralApply(w)
  <2>1. saved => cfgFile # Torn /\ wgPort = cfgFile.port
    BY <1>2 DEF GeneralApply, PortInv, PortAgrees
  <2>2. saved => cfg'[w].port = wgPort
    BY <1>2, <2>1 DEF GeneralApply, Config
  <2>3. mu \notin Workers /\ pc' = [pc EXCEPT ![w] = "trunc"] /\ UNCHANGED <<cfgFile, saved, wgPort, op, proc>>
        /\ \A v \in Workers \ {w} : cfg'[v] = cfg[v]
    BY <1>2 DEF GeneralApply
  <2> QED
    BY <2>1, <2>2, <2>3 DEF PortInv, PortAgrees
<1>3. CASE SaveTrunc(w)
  BY <1>3 DEF SaveTrunc, PortInv, PortAgrees
<1>4. CASE SaveFailed(w)
  BY <1>4 DEF SaveFailed, PortInv, PortAgrees
<1>5. CASE SaveWrite(w)
  BY <1>5 DEF SaveWrite, PortInv, PortAgrees
<1>6. CASE SaveUnlock(w)
  BY <1>6 DEF SaveUnlock, PortInv, PortAgrees
<1>7. CASE SaveBroken(w)
  BY <1>7 DEF SaveBroken, PortInv, PortAgrees
<1> QED
  BY <1>1, <1>2, <1>3, <1>4, <1>5, <1>6, <1>7

LEMMA StartupPort ==
  ASSUME TypeInv, PortInv, Startup \/ Crash
  PROVE  PortInv'
<1> USE DEF TypeInv, LocalsOK, PortInv, memory, locals
<1>1. CASE Startup
  <2>1. UNCHANGED <<saved, pc, op, cfg>> /\ proc # "up"
    BY <1>1 DEF Startup, StartLoad, StartKeyTrunc, StartNewKey, StartDefault, StartFillTrunc,
                StartFillWrite, StartFillFailed, StartGenerate, StartGenerateFailed, StartKeySync,
                StartKeyWrite, StartKeyWriteFailed, StartBring
  <2> QED
    BY <2>1
<1>2. CASE Crash
  BY <1>2 DEF Crash
<1> QED
  BY <1>1, <1>2

LEMMA StepPort == TypeInv /\ PortInv /\ [Next]_vars => PortInv'
<1> SUFFICES ASSUME TypeInv, PortInv, [Next]_vars PROVE PortInv'
  OBVIOUS
<1>1. CASE UNCHANGED vars
  BY <1>1 DEF vars, disk, memory, start, locals, PortInv, PortAgrees
<1>2. CASE Next
  BY <1>2, ArriveApart, InterfaceApart, PortFrame, SavePort, StartupPort DEF Next, Continue
<1> QED
  BY <1>1, <1>2

(* However many saves race, the port in memory is the stored one from the  *)
(* first save of a process on (saveConfig, saveGeneralConfig).             *)
THEOREM PortAlwaysRemembered == Spec => []SavedPortRemembered
<1>1. PortInv => SavedPortRemembered
  BY DEF PortInv, PortAgrees, SavedPortRemembered
<1> QED
  BY <1>1, InitPort, StepPort, Types, PTL DEF Spec

-----------------------------------------------------------------------------
(* The start.  Between the rendering of wg0.conf and the end of main() no  *)
(* request runs, so that the file still has the port that main() has read, *)
(* unless it could not be rendered.                                        *)
StartInv ==
  proc \in {"keysync", "keywrite", "bring"} /\ ~botched /\ boot.net # BadNet => conf.port = boot.port

(* A request runs only while the process serves, and main() then does not. *)
LEMMA RequestServing ==
  ASSUME NEW w \in Workers, Arrive(w) \/ Continue(w)
  PROVE  proc = "up" /\ UNCHANGED <<proc, boot, botched>>
<1>1. CASE Arrive(w)
  BY <1>1 DEF Arrive, SaveRead, GeneralBegin, PeerRead, PeerReadTorn, Restart, StopServer, StartServer,
              Begin, At, start
<1>2. CASE Continue(w)
  <2> USE DEF At, start
  <2>1. CASE SaveRefused(w) \/ SavePanics(w) \/ SaveApply(w) \/ GeneralApply(w)
    BY <2>1 DEF SaveRefused, SavePanics, SaveApply, GeneralApply
  <2>2. CASE SaveTrunc(w) \/ SaveFailed(w) \/ SaveWrite(w) \/ SaveBroken(w) \/ SaveUnlock(w)
    BY <2>2 DEF SaveTrunc, SaveFailed, SaveWrite, SaveBroken, SaveUnlock
  <2>3. CASE GenerateWgConfig(w) \/ GenerateFailed(w) \/ ShowConf(w) \/ SyncConf(w) \/ SyncFailed(w)
    BY <2>3 DEF GenerateWgConfig, GenerateFailed, ShowConf, SyncConf, SyncFailed
  <2>4. CASE RestartLock(w) \/ WgQuickDown(w) \/ WgQuickUp(w) \/ StopDown(w)
    BY <2>4 DEF RestartLock, WgQuickDown, WgQuickUp, StopDown
  <2> QED
    BY <1>2, <2>1, <2>2, <2>3, <2>4 DEF Continue
<1> QED
  BY <1>1, <1>2

LEMMA StepStart == TypeInv /\ StartInv /\ [Next]_vars => StartInv'
<1> SUFFICES ASSUME TypeInv, StartInv, [Next]_vars PROVE StartInv'
  OBVIOUS
<1> USE DEF StartInv, TypeInv, LocalsOK, TypeOK, disk, memory, locals
<1>1. CASE UNCHANGED vars
  BY <1>1 DEF vars, start
<1>2. ASSUME NEW w \in Workers, Arrive(w) \/ Continue(w) PROVE StartInv'
  BY <1>2, RequestServing
<1>3. CASE StartGenerate
  BY <1>3, WriteConfTypes DEF StartGenerate
<1>4. CASE StartLoad \/ StartKeyTrunc \/ StartNewKey \/ StartDefault
  BY <1>4 DEF StartLoad, StartKeyTrunc, StartNewKey, StartDefault
<1>5. CASE StartKeySync \/ StartKeyWrite \/ StartBring
  BY <1>5 DEF StartKeySync, StartKeyWrite, StartBring
<1>6. CASE Crash
  BY <1>6 DEF Crash
<1>7. CASE StartFillTrunc \/ StartFillWrite \/ StartFillFailed
  BY <1>7 DEF StartFillTrunc, StartFillWrite, StartFillFailed
<1>8. CASE StartGenerateFailed
  BY <1>8, NoConfTypes DEF StartGenerateFailed
<1>9. CASE StartKeyWriteFailed
  BY <1>9 DEF StartKeyWriteFailed
<1> QED
  BY <1>1, <1>2, <1>3, <1>4, <1>5, <1>6, <1>7, <1>8, <1>9 DEF Next, Startup

(* Every start ends with wg0 on the port and the key of wg0.conf, and that *)
(* port is the stored one, whatever was cut off before, unless the stored  *)
(* subnet cannot be parsed or a write of this start failed (main).         *)
THEOREM StartupAlwaysApplies == Spec => StartupApplies
<1>1. Init => StartInv
  BY DEF Init, StartInv
<1>2. TypeInv /\ StartInv /\ [Next]_vars =>
        [proc # "up" /\ proc' = "up" =>
           /\ wg0'.port = conf'.port /\ wg0'.key = conf'.key
           /\ ~botched' => cfgFile' # Torn
           /\ ~botched' /\ cfgFile'.net # BadNet => conf'.port = cfgFile'.port]_vars
  <2> SUFFICES ASSUME TypeInv, StartInv, [Next]_vars, proc # "up", proc' = "up"
               PROVE  /\ wg0'.port = conf'.port /\ wg0'.key = conf'.key
                      /\ ~botched' => cfgFile' # Torn
                      /\ ~botched' /\ cfgFile'.net # BadNet => conf'.port = cfgFile'.port
    OBVIOUS
  <2>1. Next
    BY DEF vars, start
  <2>2. ASSUME NEW w \in Workers, Arrive(w) \/ Continue(w) PROVE FALSE
    BY <2>2, RequestServing
  <2>3. StartBring
    BY <2>1, <2>2 DEF Next, Crash, Startup, StartLoad, StartKeyTrunc, StartNewKey, StartDefault,
                      StartFillTrunc, StartFillWrite, StartFillFailed, StartGenerate,
                      StartGenerateFailed, StartKeySync, StartKeyWrite, StartKeyWriteFailed
  <2>4. proc = "bring" /\ UNCHANGED <<disk, botched>>
        /\ wg0' = IF wg0 = Down THEN conf ELSE [conf EXCEPT !.net = wg0.net]
    BY <2>3 DEF StartBring
  <2>5. wg0'.port = conf'.port /\ wg0'.key = conf'.key
    BY <2>4 DEF TypeInv, TypeOK, Interface, disk
  <2>6. ~botched' => cfgFile' # Torn /\ cfgFile'.port = boot.port /\ cfgFile'.net = boot.net
    BY <2>4 DEF TypeInv, LocalsOK, disk
  <2>7. ~botched' /\ cfgFile'.net # BadNet => conf'.port = cfgFile'.port
    BY <2>4, <2>6 DEF StartInv, disk
  <2> QED
    BY <2>5, <2>6, <2>7
<1> QED
  BY <1>1, <1>2, StepStart, Types, PTL DEF Spec, StartupApplies

-----------------------------------------------------------------------------
(* The key.  While no second key was made, the file is empty only within   *)
(* main(), before a step that puts the key back or makes a new one, and    *)
(* after a start that failed to put it back.                               *)
KeyInv ==
  /\ FirstKey \in used
  /\ NoKeyMade =>
       /\ keyFile \in {FirstKey, NoKey}
       /\ proc \in {"up", "keysync", "bring"} /\ ~botched => keyFile = FirstKey
       /\ proc # "default"
       /\ conf.key = FirstKey
       /\ wg0 # Down => wg0.key = FirstKey
       /\ \A w \in Workers : shown[w] # Down => shown[w].key = FirstKey

LEMMA TakeKeyKeeps ==
  ASSUME KeyInv, NEW k \in Keys, TakeKey(k)
  PROVE  /\ FirstKey \in used'
         /\ NoKeyMade' => NoKeyMade /\ keyFile' = FirstKey /\ k = FirstKey
BY DEF KeyInv, NoKeyMade, TakeKey

LEMMA WriteConfKeeps ==
  ASSUME TypeInv, KeyInv, NEW c, WriteConf(c)
  PROVE  /\ FirstKey \in used'
         /\ NoKeyMade' => NoKeyMade /\ keyFile' = FirstKey /\ conf'.key = FirstKey
<1>1. PICK k \in Keys : TakeKey(k) /\ conf' = [port |-> c.port, net |-> c.net, key |-> k]
  BY DEF WriteConf
<1>2. conf'.key = k
  BY <1>1
<1> QED
  BY <1>1, <1>2, TakeKeyKeeps

LEMMA NoConfKeeps ==
  ASSUME TypeInv, KeyInv, NEW c, NoConf(c)
  PROVE  /\ FirstKey \in used' /\ conf' = conf
         /\ NoKeyMade' => NoKeyMade /\ (keyFile' = FirstKey \/ (keyFile' = NoKey /\ keyFile = NoKey))
<1>1. CASE NoKeyStored
  BY <1>1 DEF NoConf, NoKeyStored, KeyInv, NoKeyMade
<1>2. CASE \E k \in Keys : TakeKey(k)
  BY <1>2, TakeKeyKeeps DEF NoConf
<1> QED
  BY <1>1, <1>2 DEF NoConf

LEMMA RequestKey ==
  ASSUME TypeInv, KeyInv, NEW w \in Workers, Arrive(w) \/ Continue(w)
  PROVE  KeyInv'
<1> USE DEF KeyInv, NoKeyMade, disk, memory, start, TypeInv, TypeOK
<1>1. CASE Arrive(w)
  BY <1>1 DEF Arrive, SaveRead, GeneralBegin, PeerRead, PeerReadTorn, Restart, StopServer, StartServer, Begin
<1>2. CASE SaveRefused(w) \/ SavePanics(w) \/ SaveFailed(w) \/ SaveBroken(w) \/ SyncFailed(w)
  BY <1>2 DEF SaveRefused, SavePanics, SaveFailed, SaveBroken, SyncFailed, Reset
<1>3. CASE SaveApply(w) \/ GeneralApply(w) \/ SaveTrunc(w) \/ SaveWrite(w) \/ RestartLock(w)
  BY <1>3 DEF SaveApply, GeneralApply, SaveTrunc, SaveWrite, RestartLock
<1>4. CASE SaveUnlock(w)
  BY <1>4 DEF SaveUnlock, Reset
<1>5. CASE GenerateWgConfig(w)
  BY <1>5, WriteConfKeeps DEF GenerateWgConfig, At
<1>9. CASE GenerateFailed(w)
  <2>1. shown' = shown \/ shown' = [shown EXCEPT ![w] = Down]
    BY <1>9 DEF GenerateFailed, Reset
  <2> QED
    BY <1>9, <2>1, NoConfKeeps DEF GenerateFailed, At
<1>6. CASE ShowConf(w)
  BY <1>6 DEF ShowConf
<1>7. CASE SyncConf(w)
  <2>1. wg0' = [wg0 EXCEPT !.port = shown[w].port, !.key = shown[w].key] /\ wg0 \in Interface /\ shown[w] # Down
    BY <1>7 DEF SyncConf, At, LocalsOK
  <2>2. wg0'.key = shown[w].key
    BY <2>1 DEF Interface
  <2> QED
    BY <1>7, <2>1, <2>2 DEF SyncConf, Reset
<1>8. CASE WgQuickDown(w) \/ WgQuickUp(w) \/ StopDown(w)
  BY <1>8 DEF WgQuickDown, WgQuickUp, StopDown, Reset
<1> QED
  BY <1>1, <1>2, <1>3, <1>4, <1>5, <1>6, <1>7, <1>8, <1>9 DEF Continue

LEMMA StartupKey ==
  ASSUME TypeInv, KeyInv, Startup \/ Crash
  PROVE  KeyInv'
<1> USE DEF KeyInv, NoKeyMade, disk, memory, locals, TypeInv, TypeOK
<1>1. CASE StartLoad \/ StartKeyTrunc \/ StartDefault
  BY <1>1 DEF StartLoad, StartKeyTrunc, StartDefault
<1>7. CASE StartFillTrunc \/ StartFillWrite \/ StartFillFailed \/ StartKeyWriteFailed
  BY <1>7 DEF StartFillTrunc, StartFillWrite, StartFillFailed, StartKeyWriteFailed
<1>8. CASE StartGenerateFailed
  BY <1>8, NoConfKeeps DEF StartGenerateFailed
<1>2. CASE StartNewKey
  BY <1>2 DEF StartNewKey
<1>3. CASE StartGenerate
  BY <1>3, WriteConfKeeps DEF StartGenerate
<1>4. CASE StartKeySync \/ StartKeyWrite
  BY <1>4 DEF StartKeySync, StartKeyWrite, LocalsOK
<1>5. CASE StartBring
  <2>1. wg0'.key = conf.key
    BY <1>5 DEF StartBring, Interface
  <2> QED
    BY <1>5, <2>1 DEF StartBring
<1>6. CASE Crash
  BY <1>6 DEF Crash
<1> QED
  BY <1>1, <1>2, <1>3, <1>4, <1>5, <1>6, <1>7, <1>8 DEF Startup

LEMMA StepKey == TypeInv /\ KeyInv /\ [Next]_vars => KeyInv'
<1> SUFFICES ASSUME TypeInv, KeyInv, [Next]_vars PROVE KeyInv'
  OBVIOUS
<1>1. CASE UNCHANGED vars
  BY <1>1 DEF vars, disk, memory, start, locals, KeyInv, NoKeyMade
<1>2. CASE Next
  BY <1>2, RequestKey, StartupKey DEF Next
<1> QED
  BY <1>1, <1>2

(* The installed key stays in the file, in wg0.conf and on wg0 as long as  *)
(* no second one had to be made (generateWgConfig,                         *)
(* syncServerKeyFromRunning).                                              *)
THEOREM KeyAlwaysKept == Spec => []KeyKept
<1>1. Init => KeyInv
  BY DEF Init, KeyInv, NoKeyMade
<1>2. KeyInv => KeyKept
  BY DEF KeyInv, KeyKept
<1> QED
  BY <1>1, <1>2, StepKey, Types, PTL DEF Spec
=============================================================================
