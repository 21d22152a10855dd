----------------------------- MODULE ServerConfig -----------------------------
(***************************************************************************)
(* The settings of the WireGuard server: data/config.json, the copy of the *)
(* port that Server keeps in memory under s.mu, the private key in         *)
(* data/server_private.key, the [Interface] section of wg0.conf and the    *)
(* running wg0.  PeerStore has the peers; this module has everything else  *)
(* the same handlers touch, and main()'s start-up in full.                 *)
(*                                                                         *)
(* Each action is one access to the shared state by a request goroutine, a *)
(* step of main(), or a crash.                                             *)
(***************************************************************************)
EXTENDS Naturals, FiniteSets

CONSTANTS
  Workers,                  \* request goroutines that may run at once
  Ports, DefaultPort, NoPort,  \* WireGuard ports; 51820; 0, which lets WireGuard choose
  Nets, DefaultNet, BadNet, \* posted subnets; 10.0.0.0/24; one that is no CIDR
  Names, NoName,            \* server names; the empty one
  Keys, FirstKey, NoKey,    \* private keys; the one installed; an empty key file
  Torn,                     \* a file truncated and not yet written
  Down,                     \* wg0 does not exist
  Free, Leaked,             \* s.mu: not held; held for ever by a handler that panicked
  MaxRequests,              \* bound: requests in one behaviour
  MaxFaults                 \* bound: writes that fail in one behaviour

VARIABLES
  cfgFile,        \* data/config.json
  keyFile,        \* data/server_private.key
  conf,           \* wg0.conf: ListenPort, Address, PrivateKey
  wg0,            \* the same of the running interface
  wgPort,         \* s.wgPort
  saved,          \* history: saveConfig has set it, no write of cfgFile broke off since
  mu,             \* s.mu: its holder
  used,           \* keys generated so far
  reqs, faults,   \* requests begun and writes failed so far
  proc,           \* the process: serving, or how far main() has come
  boot,           \* main()'s own copy of the config
  botched,        \* history: a write of main() has failed since the process started
  pc, op, cfg, shown   \* per worker: its position and locals

disk   == <<cfgFile, keyFile, conf>>
locals == <<pc, op, cfg, shown>>
memory == <<wgPort, saved>>
start  == <<proc, boot, botched>>
vars   == <<disk, wg0, memory, mu, used, reqs, faults, start, locals>>

ASSUME SettingsAssumption ==
  /\ {DefaultPort, NoPort} \subseteq Ports /\ {DefaultNet, BadNet} \subseteq Nets
  /\ DefaultNet # BadNet
  /\ FirstKey \in Keys /\ NoName \notin Names /\ NoKey \notin Keys
  /\ MaxRequests \in Nat /\ MaxFaults \in Nat

(* "wan" tells whether a WAN interface is set.  An empty subnet is the     *)
(* default one wherever it is read.                                        *)
Config    == [port : Ports, net : Nets, name : Names \cup {NoName}, wan : BOOLEAN]
Interface == [port : Ports, net : Nets \ {BadNet}, key : Keys]

DefaultConfig == [port |-> DefaultPort, net |-> DefaultNet, name |-> NoName, wan |-> FALSE]
EmptyConfig   == [DefaultConfig EXCEPT !.port = NoPort]

ASSUME SentinelAssumption ==
  /\ Torn \notin Config /\ Down \notin Interface
  /\ Free \notin Workers /\ Leaked \notin Workers /\ Free # Leaked

-----------------------------------------------------------------------------
Init ==
  /\ \E n \in Names : cfgFile = [DefaultConfig EXCEPT !.name = n, !.wan = TRUE]
  /\ keyFile = FirstKey
  /\ conf = [port |-> DefaultPort, net |-> DefaultNet, key |-> FirstKey]
  /\ wg0 = conf
  /\ wgPort = DefaultPort
  /\ saved = FALSE
  /\ mu = Free
  /\ used = {FirstKey}
  /\ reqs = 0 /\ faults = 0
  /\ proc = "up" /\ boot = Torn /\ botched = FALSE
  /\ pc = [w \in Workers |-> "idle"]
  /\ op = [w \in Workers |-> "none"]
  /\ cfg = [w \in Workers |-> Torn]
  /\ shown = [w \in Workers |-> Down]

Goto(w, label) == pc' = [pc EXCEPT ![w] = label]
At(w, label)   == proc = "up" /\ pc[w] = label

(* A write to the disk fails. *)
Fault == faults < MaxFaults /\ faults' = faults + 1

Begin(w, o, label) ==
  /\ At(w, "idle") /\ reqs < MaxRequests
  /\ reqs' = reqs + 1
  /\ op' = [op EXCEPT ![w] = o]
  /\ Goto(w, label)

Reset(w) ==
  /\ Goto(w, "idle")
  /\ op' = [op EXCEPT ![w] = "none"]
  /\ cfg' = [cfg EXCEPT ![w] = Torn]
  /\ shown' = [shown EXCEPT ![w] = Down]

-----------------------------------------------------------------------------
(* saveConfig.  It reads the old config before it takes s.mu.  The form of *)
(* the WireGuard settings ("wg") posts no server name, the choice of a WAN *)
(* interface ("wan") posts back a whole config.                            *)

SaveRead(w) ==
  /\ \E o \in {"wg", "wan"} : Begin(w, o, "lock")
  /\ cfg' = [cfg EXCEPT ![w] = cfgFile]
  /\ UNCHANGED <<disk, wg0, memory, mu, used, faults, start, shown>>

(* Mutant: the answer 400 leaves s.mu locked. *)
SaveRefusedLocked(w) ==
  /\ At(w, "lock") /\ mu = Free
  /\ mu' = w
  /\ Reset(w)
  /\ UNCHANGED <<disk, wg0, memory, used, reqs, faults, start>>

(* An httpPort out of range: 400.  saveGeneralConfig has the same answer. *)
SaveRefused(w) ==
  /\ At(w, "lock") /\ mu = Free
  /\ Reset(w)
  /\ UNCHANGED <<disk, wg0, memory, mu, used, reqs, faults, start>>

(* Without an old config the posted subnet is compared through a nil       *)
(* pointer; net/http recovers the panic, and nobody unlocks s.mu.          *)
SavePanics(w) ==
  /\ At(w, "lock") /\ mu = Free
  /\ op[w] # "general" /\ cfg[w] = Torn
  /\ mu' = Leaked
  /\ Reset(w)
  /\ UNCHANGED <<disk, wg0, memory, used, reqs, faults, start>>

(* The subnet is stored as posted, unread; an absent server name is stored *)
(* as the empty one; both forms post the WAN interface.                    *)
SaveApply(w) ==
  /\ At(w, "lock") /\ mu = Free
  /\ op[w] # "general" /\ cfg[w] # Torn
  /\ mu' = w
  /\ \E p \in Ports, n \in Nets, s \in Names \cup {NoName} :
       /\ s = NoName <=> op[w] = "wg"
       /\ cfg' = [cfg EXCEPT ![w] = [port |-> p, net |-> n, name |-> s, wan |-> TRUE]]
  /\ Goto(w, "trunc")
  /\ UNCHANGED <<disk, wg0, memory, used, reqs, faults, start, op, shown>>

(* saveGeneralConfig reads under the lock, and changes only the name here. *)
(* A config it cannot read is the empty one: no port, no subnet.           *)
GeneralBegin(w) ==
  /\ Begin(w, "general", "lock")
  /\ UNCHANGED <<disk, wg0, memory, mu, used, faults, start, cfg, shown>>

GeneralApply(w) ==
  /\ At(w, "lock") /\ mu = Free
  /\ op[w] = "general"
  /\ mu' = w
  /\ LET old == IF cfgFile = Torn THEN EmptyConfig ELSE cfgFile IN
       \E s \in Names : cfg' = [cfg EXCEPT ![w] = [old EXCEPT !.name = s]]
  /\ Goto(w, "trunc")
  /\ UNCHANGED <<disk, wg0, memory, used, reqs, faults, start, op, shown>>

(* saveConfig(path, cfg): os.Create, which truncates, then Encode.  Either *)
(* may fail, and is answered 500: SaveFailed leaves the old config.json,   *)
(* SaveBroken a torn one, and the process goes on serving.                 *)
SaveTrunc(w) ==
  /\ At(w, "trunc")
  /\ cfgFile' = Torn
  /\ Goto(w, "write")
  /\ UNCHANGED <<keyFile, conf, wg0, memory, mu, used, reqs, faults, start, op, cfg, shown>>

SaveFailed(w) ==
  /\ At(w, "trunc")
  /\ mu' = Free
  /\ Reset(w)
  /\ UNCHANGED <<disk, wg0, memory, used, reqs, faults, start>>

SaveBroken(w) ==
  /\ At(w, "write")
  /\ Fault
  /\ mu' = Free
  /\ saved' = FALSE
  /\ Reset(w)
  /\ UNCHANGED <<disk, wg0, wgPort, used, reqs, start>>

SaveWrite(w) ==
  /\ At(w, "write")
  /\ cfgFile' = cfg[w]
  /\ Goto(w, "unlock")
  /\ UNCHANGED <<keyFile, conf, wg0, memory, mu, used, reqs, faults, start, op, cfg, shown>>

(* Mutant: s.wgPort is left as it was. *)
SaveUnlockForgets(w) ==
  /\ At(w, "unlock")
  /\ mu' = Free
  /\ \/ op[w] = "general" /\ Reset(w) /\ UNCHANGED saved
     \/ op[w] # "general" /\ Goto(w, "generate") /\ saved' = TRUE /\ UNCHANGED <<op, cfg, shown>>
  /\ UNCHANGED <<disk, wg0, wgPort, used, reqs, faults, start>>

(* saveConfig updates the copy in memory; both release s.mu. *)
SaveUnlock(w) ==
  /\ At(w, "unlock")
  /\ mu' = Free
  /\ \/ op[w] = "general" /\ Reset(w) /\ UNCHANGED memory
     \/ /\ op[w] # "general"
        /\ wgPort' = cfg[w].port /\ saved' = TRUE
        /\ Goto(w, "generate")
        /\ UNCHANGED <<op, cfg, shown>>
  /\ UNCHANGED <<disk, wg0, used, reqs, faults, start>>

-----------------------------------------------------------------------------
(* addPeer and removePeer read the config, without the lock, and write the *)
(* whole of wg0.conf from it.  Without a config addPeer panics, and        *)
(* removePeer leaves wg0.conf alone.                                       *)

PeerRead(w) ==
  /\ Begin(w, "peer", "generate")
  /\ cfgFile # Torn
  /\ cfg' = [cfg EXCEPT ![w] = cfgFile]
  /\ UNCHANGED <<disk, wg0, memory, mu, used, faults, start, shown>>

PeerReadTorn(w) ==
  /\ Begin(w, "peer", "show")
  /\ cfgFile = Torn
  /\ UNCHANGED <<disk, wg0, memory, mu, used, faults, start, cfg, shown>>

(* generateWgConfig takes the stored key, and makes one if the file is empty. *)
TakeKey(k) ==
  /\ k \in IF keyFile = NoKey THEN Keys \ used ELSE {keyFile}
  /\ keyFile' = k
  /\ used' = used \cup {k}

WriteConf(c) ==
  /\ c.net # BadNet
  /\ \E k \in Keys : TakeKey(k) /\ conf' = [port |-> c.port, net |-> c.net, key |-> k]

(* It fails, and leaves wg0.conf alone: when no key can be made or stored  *)
(* (nor can it when the model has none left); when, with a key, the subnet *)
(* is no CIDR; and when the file that would replace wg0.conf is not        *)
(* written.                                                                *)
NoKeyStored ==
  /\ keyFile = NoKey
  /\ Fault \/ (Keys \subseteq used /\ UNCHANGED faults)
  /\ UNCHANGED <<keyFile, used>>

NoConf(c) ==
  /\ UNCHANGED conf
  /\ \/ NoKeyStored
     \/ (\E k \in Keys : TakeKey(k)) /\ c.net = BadNet /\ UNCHANGED faults
     \/ (\E k \in Keys : TakeKey(k)) /\ Fault

GenerateWgConfig(w) ==
  /\ At(w, "generate")
  /\ WriteConf(cfg[w])
  /\ Goto(w, IF op[w] = "peer" THEN "show" ELSE "relock")
  /\ UNCHANGED <<cfgFile, wg0, memory, mu, reqs, faults, start, op, cfg, shown>>

(* addPeer and removePeer ignore the error; saveConfig answers 500 with    *)
(* the config stored and nothing restarted.                                *)
GenerateFailed(w) ==
  /\ At(w, "generate")
  /\ NoConf(cfg[w])
  /\ \/ op[w] = "peer" /\ Goto(w, "show") /\ UNCHANGED <<op, cfg, shown>>
     \/ op[w] # "peer" /\ Reset(w)
  /\ UNCHANGED <<cfgFile, wg0, memory, mu, reqs, start>>

(* wg showconf prints ListenPort and PrivateKey too, and the wg syncconf   *)
(* that follows sets them back; the address is not WireGuard's.            *)
ShowConf(w) ==
  /\ At(w, "show") /\ wg0 # Down
  /\ shown' = [shown EXCEPT ![w] = wg0]
  /\ Goto(w, "sync")
  /\ UNCHANGED <<disk, wg0, memory, mu, used, reqs, faults, start, op, cfg>>

SyncConf(w) ==
  /\ At(w, "sync") /\ wg0 # Down
  /\ wg0' = [wg0 EXCEPT !.port = shown[w].port, !.key = shown[w].key]
  /\ Reset(w)
  /\ UNCHANGED <<disk, memory, mu, used, reqs, faults, start>>

SyncFailed(w) ==
  /\ proc = "up" /\ pc[w] \in {"show", "sync"} /\ wg0 = Down
  /\ Reset(w)
  /\ UNCHANGED <<disk, wg0, memory, mu, used, reqs, faults, start>>

-----------------------------------------------------------------------------
(* restartServerDirect locks s.mu once more to read configPath; wg-quick   *)
(* up fails if somebody has brought wg0 up in between.                     *)

Restart(w) ==
  /\ Begin(w, "restart", "relock")
  /\ UNCHANGED <<disk, wg0, memory, mu, used, faults, start, cfg, shown>>

RestartLock(w) ==
  /\ At(w, "relock") /\ mu = Free
  /\ Goto(w, "down")
  /\ UNCHANGED <<disk, wg0, memory, mu, used, reqs, faults, start, op, cfg, shown>>

WgQuickDown(w) ==
  /\ At(w, "down")
  /\ wg0' = Down
  /\ Goto(w, "quickup")
  /\ UNCHANGED <<disk, memory, mu, used, reqs, faults, start, op, cfg, shown>>

WgQuickUp(w) ==
  /\ At(w, "quickup")
  /\ wg0' = IF wg0 = Down THEN conf ELSE wg0
  /\ Reset(w)
  /\ UNCHANGED <<disk, memory, mu, used, reqs, faults, start>>

StopServer(w) ==
  /\ Begin(w, "stop", "stop")
  /\ UNCHANGED <<disk, wg0, memory, mu, used, faults, start, cfg, shown>>

StopDown(w) ==
  /\ At(w, "stop") /\ mu = Free
  /\ wg0' = Down
  /\ Reset(w)
  /\ UNCHANGED <<disk, memory, mu, used, reqs, faults, start>>

StartServer(w) ==
  /\ Begin(w, "start", "quickup")
  /\ UNCHANGED <<disk, wg0, memory, mu, used, faults, start, cfg, shown>>

-----------------------------------------------------------------------------
(* The process is killed, or the machine reboots and wg0 is gone.  The new *)
(* process sets s.wgPort to 51820 and never to the port it then reads.     *)
Crash ==
  /\ proc' = "load" /\ boot' = Torn /\ botched' = FALSE
  /\ wg0' \in {wg0, Down}
  /\ wgPort' = DefaultPort
  /\ saved' = FALSE
  /\ mu' = Free
  /\ pc' = [w \in Workers |-> "idle"]
  /\ op' = [w \in Workers |-> "none"]
  /\ cfg' = [w \in Workers |-> Torn]
  /\ shown' = [w \in Workers |-> Down]
  /\ UNCHANGED <<disk, used, reqs, faults>>

StartLoad ==
  /\ proc = "load" /\ cfgFile # Torn
  /\ boot' = cfgFile
  /\ proc' = IF cfgFile.wan THEN "generate" ELSE "fill"
  /\ UNCHANGED <<disk, wg0, memory, mu, used, reqs, faults, botched, locals>>

(* createDefaultConfig: savePrivateKey truncates and writes, then the      *)
(* default config is saved; a write that fails ends the process (a crash). *)
StartKeyTrunc ==
  /\ proc = "load" /\ cfgFile = Torn
  /\ keyFile' = NoKey
  /\ proc' = "newkey"
  /\ UNCHANGED <<cfgFile, conf, wg0, memory, mu, used, reqs, faults, boot, botched, locals>>

StartNewKey ==
  /\ proc = "newkey"
  /\ \E k \in Keys \ used : keyFile' = k /\ used' = used \cup {k}
  /\ proc' = "default"
  /\ UNCHANGED <<cfgFile, conf, wg0, memory, mu, reqs, faults, boot, botched, locals>>

StartDefault ==
  /\ proc = "default"
  /\ cfgFile' = DefaultConfig /\ boot' = DefaultConfig
  /\ proc' = "fill"
  /\ UNCHANGED <<keyFile, conf, wg0, memory, mu, used, reqs, faults, botched, locals>>

(* A config without a WAN interface is completed and saved again; an error *)
(* is ignored, and main() goes on with its own copy.                       *)
StartFillTrunc ==
  /\ proc = "fill"
  /\ boot' = [boot EXCEPT !.wan = TRUE]
  /\ cfgFile' = Torn
  /\ proc' = "fillwrite"
  /\ UNCHANGED <<keyFile, conf, wg0, memory, mu, used, reqs, faults, botched, locals>>

StartFillWrite ==
  /\ proc = "fillwrite"
  /\ cfgFile' = boot
  /\ proc' = "generate"
  /\ UNCHANGED <<keyFile, conf, wg0, memory, mu, used, reqs, faults, boot, botched, locals>>

StartFillFailed ==
  /\ proc \in {"fill", "fillwrite"}
  /\ Fault /\ botched' = TRUE
  /\ proc' = "generate"
  /\ UNCHANGED <<disk, wg0, memory, mu, used, reqs, boot, locals>>

StartGenerate ==
  /\ proc = "generate"
  /\ WriteConf(boot)
  /\ proc' = "keysync"
  /\ UNCHANGED <<cfgFile, wg0, memory, mu, reqs, faults, boot, botched, locals>>

(* main() logs the failure and goes on with the old wg0.conf. *)
StartGenerateFailed ==
  /\ proc = "generate"
  /\ NoConf(boot)
  /\ botched' = (botched \/ faults' # faults \/ keyFile' = NoKey)
  /\ proc' = "keysync"
  /\ UNCHANGED <<cfgFile, wg0, memory, mu, reqs, boot, locals>>

(* Mutant: without an interface the empty answer of wg show is saved as    *)
(* the key (before v1.12.17).                                              *)
StartKeySyncAlways ==
  /\ proc = "keysync"
  /\ keyFile' = NoKey
  /\ proc' = IF wg0 = Down THEN "bring" ELSE "keywrite"
  /\ UNCHANGED <<cfgFile, conf, wg0, memory, mu, used, reqs, faults, boot, botched, locals>>

(* syncServerKeyFromRunning: the key of a running wg0 replaces the stored  *)
(* one, after wg0.conf has been written with the stored one.               *)
StartKeySync ==
  /\ proc = "keysync"
  /\ \/ wg0 = Down /\ proc' = "bring" /\ UNCHANGED keyFile
     \/ wg0 # Down /\ proc' = "keywrite" /\ keyFile' = NoKey
  /\ UNCHANGED <<cfgFile, conf, wg0, memory, mu, used, reqs, faults, boot, botched, locals>>

StartKeyWrite ==
  /\ proc = "keywrite"
  /\ keyFile' = wg0.key
  /\ proc' = "bring"
  /\ UNCHANGED <<cfgFile, conf, wg0, memory, mu, used, reqs, faults, boot, botched, locals>>

StartKeyWriteFailed ==
  /\ proc = "keywrite"
  /\ Fault /\ botched' = TRUE
  /\ proc' = "bring"
  /\ UNCHANGED <<disk, wg0, memory, mu, used, reqs, boot, locals>>

(* Mutant: a running wg0 is left as it is (before v1.12.18). *)
StartBringKeeps ==
  /\ proc = "bring"
  /\ wg0' = IF wg0 = Down THEN conf ELSE wg0
  /\ proc' = "up" /\ boot' = Torn
  /\ UNCHANGED <<disk, memory, mu, used, reqs, faults, botched, locals>>

(* wg-quick up, or wg syncconf, which leaves the address of a running wg0. *)
StartBring ==
  /\ proc = "bring"
  /\ wg0' = IF wg0 = Down THEN conf ELSE [conf EXCEPT !.net = wg0.net]
  /\ proc' = "up" /\ boot' = Torn
  /\ UNCHANGED <<disk, memory, mu, used, reqs, faults, botched, locals>>

-----------------------------------------------------------------------------
(* What a goroutine does once it has a request. *)
Continue(w) ==
  \/ SaveRefused(w) \/ SavePanics(w) \/ SaveApply(w) \/ GeneralApply(w)
  \/ SaveTrunc(w) \/ SaveFailed(w) \/ SaveWrite(w) \/ SaveBroken(w) \/ SaveUnlock(w)
  \/ GenerateWgConfig(w) \/ GenerateFailed(w) \/ ShowConf(w) \/ SyncConf(w) \/ SyncFailed(w)
  \/ RestartLock(w) \/ WgQuickDown(w) \/ WgQuickUp(w) \/ StopDown(w)

Arrive(w) ==
  \/ SaveRead(w) \/ GeneralBegin(w) \/ PeerRead(w) \/ PeerReadTorn(w)
  \/ Restart(w) \/ StopServer(w) \/ StartServer(w)

Startup ==
  \/ StartLoad \/ StartKeyTrunc \/ StartNewKey \/ StartDefault
  \/ StartFillTrunc \/ StartFillWrite \/ StartFillFailed
  \/ StartGenerate \/ StartGenerateFailed
  \/ StartKeySync \/ StartKeyWrite \/ StartKeyWriteFailed \/ StartBring

Next == (\E w \in Workers : Arrive(w) \/ Continue(w)) \/ Crash \/ Startup

(* The Go scheduler runs every goroutine that can run, and each external   *)
(* command ends or is killed by execWithTimeout.                           *)
Spec == Init /\ [][Next]_vars /\ \A w \in Workers : WF_vars(Continue(w))

-----------------------------------------------------------------------------
(***************************************************************************)
(* Properties.                                                             *)
(***************************************************************************)

(* The variables hold what the code can put there; s.mu is held exactly by *)
(* the handler between its Lock and its Unlock.                            *)
TypeOK ==
  /\ cfgFile \in Config \cup {Torn}
  /\ keyFile \in Keys \cup {NoKey}
  /\ conf \in Interface
  /\ wg0 \in Interface \cup {Down}
  /\ wgPort \in Ports
  /\ saved \in BOOLEAN
  /\ mu \in Workers \cup {Free, Leaked}
  /\ used \subseteq Keys
  /\ reqs \in 0 .. MaxRequests /\ faults \in 0 .. MaxFaults
  /\ proc \in {"load", "newkey", "default", "fill", "fillwrite", "generate", "keysync", "keywrite",
               "bring", "up"}
  /\ boot \in Config \cup {Torn} /\ botched \in BOOLEAN
  /\ pc \in [Workers -> {"idle", "lock", "trunc", "write", "unlock", "generate", "show", "sync",
                         "relock", "down", "quickup", "stop"}]
  /\ op \in [Workers -> {"none", "wg", "wan", "general", "peer", "restart", "stop", "start"}]
  /\ cfg \in [Workers -> Config \cup {Torn}]
  /\ shown \in [Workers -> Interface \cup {Down}]
  /\ \A w \in Workers : mu = w <=> pc[w] \in {"trunc", "write", "unlock"}

Quiescent == proc = "up" /\ \A w \in Workers : pc[w] = "idle"
NoKeyMade == used = {FirstKey}

(* Saves that race one another, of either kind, never split the port in    *)
(* memory, which goes into every peer's config, from the one in            *)
(* config.json, whatever a save read before it had the lock.  (Until the   *)
(* first save of a process the two may differ: PeerConfigPort.  A save     *)
(* whose Encode fails leaves config.json torn, and a general save then     *)
(* stores port 0: nothing is said until the next saveConfig goes through.) *)
SavedPortRemembered ==
  saved /\ mu \notin Workers => cfgFile # Torn /\ wgPort = cfgFile.port

(* main() ends with wg0 on the port and the key of wg0.conf, whatever was  *)
(* cut off or failed before (main.go:261), the commands on wg0 doing their *)
(* work; and that port is the stored one, unless the stored subnet cannot  *)
(* be parsed or a write failed in this very start: then main() has only    *)
(* logged it and wg0.conf is the old one (main.go:234).                    *)
StartupApplies ==
  [][proc # "up" /\ proc' = "up" =>
       /\ wg0'.port = conf'.port /\ wg0'.key = conf'.key
       /\ ~botched' => cfgFile' # Torn
       /\ ~botched' /\ cfgFile'.net # BadNet => conf'.port = cfgFile'.port]_vars

(* As long as no second key had to be made, the installed key stays in     *)
(* the three places it is kept, through every restart (the peers know the  *)
(* public key that belongs to it); only a start that fails to write it     *)
(* back leaves the file empty.                                             *)
KeyKept ==
  NoKeyMade =>
    /\ proc = "up" /\ ~botched => keyFile = FirstKey
    /\ conf.key = FirstKey
    /\ wg0 # Down => wg0.key = FirstKey

(* Every request is answered, or cut off by a crash, unless a save has     *)
(* panicked with s.mu locked.                                              *)
RequestsAnswered ==
  \A w \in Workers : pc[w] # "idle" ~> pc[w] = "idle" \/ mu = Leaked

-----------------------------------------------------------------------------
(* What the repository says, and the code does not do. *)

(* The port in a peer's config is the one wg0 listens on, the stored       *)
(* settings being ones that can be applied (CHANGELOG v1.12.2;             *)
(* generatePeerConfig is given s.wgPort).                                  *)
Applicable == cfgFile # Torn /\ cfgFile.net # BadNet
PeerConfigPort == Quiescent /\ wg0 # Down /\ Applicable => wgPort = wg0.port

(* A new subnet is applied: with nothing in flight wg0 has the address of  *)
(* the stored one, if that is one (README, features).                      *)
SubnetApplied ==
  Quiescent /\ wg0 # Down /\ Applicable => wg0.net = cfgFile.net
=============================================================================
