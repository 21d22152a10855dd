------------------------------ MODULE PeerStore ------------------------------
(***************************************************************************)
(* The peer registry of ncmanager: data/peers.json, the subnet kept in     *)
(* data/config.json, the [Peer] sections of wg0.conf and the peers of the  *)
(* running interface wg0, as the HTTP handlers of src/main.go change them. *)
(*                                                                         *)
(* Every request runs in a goroutine of its own (a worker here), no lock   *)
(* guards the files, and every handler works on the copy of peers.json it  *)
(* read when it began.  Each action is one access to the shared state: a   *)
(* read of a file, os.Create (which truncates), the write that follows,    *)
(* the atomic rename of wg0.conf, one run of the wg tool.  The process may *)
(* be killed between any two of them; main() then starts it again.         *)
(*                                                                         *)
(* A peer list is a function from the ids it holds (an id stands for the   *)
(* key pair too: both are made once, at random) to the peer's fields.      *)
(***************************************************************************)
EXTENDS Integers

CONSTANTS
  Workers,        \* request goroutines that may run at once
  Ids,            \* peer ids (and public keys) that may ever be generated
  Names,          \* peer names
  Ifs,            \* interface names a router reports after an import
  NoIf,           \* RouterIfName = ""
  Subnets,        \* subnets: [base |-> first address, size |-> addresses]
  DefaultSubnet,  \* the subnet createDefaultConfig writes
  BadSubnet,      \* a subnet string net.ParseCIDR rejects
  Torn,           \* a file truncated by os.Create and not yet written
  NoIP,           \* no allowed IP left on the interface
  NoId,
  InitLists,      \* the peers an installation may start with
  MaxRequests,    \* bound: requests that change the store, in one behaviour
  MaxFaults       \* bound: writes that fail in one behaviour

VARIABLES
  cfgFile,        \* data/config.json, its subnet
  peersFile,      \* data/peers.json
  wgConf,         \* wg0.conf: the address of each peer section
  ifaceUp,        \* wg0 exists
  ifacePeers,     \* peers of the running wg0 with their allowed IP
  ui,             \* the last GET /config a browser holds
  used,           \* ids generated so far
  reqs,           \* requests begun so far
  faults,         \* writes that have failed so far
  broken,         \* history: one has since the process started
  proc,           \* the process: serving, or how far main() has come
  pc, op, id, sub, list, todo, shown  \* per worker: its position and locals

files  == <<cfgFile, peersFile, wgConf>>
iface  == <<ifaceUp, ifacePeers>>
failures == <<faults, broken>>
locals == <<pc, op, id, sub, list, todo, shown>>
vars   == <<files, iface, ui, used, reqs, failures, proc, locals>>

ASSUME SubnetsAssumption ==
  /\ Subnets \subseteq [base : Nat, size : Nat]
  /\ DefaultSubnet \in Subnets
ASSUME BoundAssumption == MaxRequests \in Nat /\ MaxFaults \in Nat
ASSUME SentinelAssumption ==
  /\ BadSubnet \notin Subnets /\ Torn \notin Subnets /\ Torn # BadSubnet
  /\ NoIP \notin Nat /\ NoId \notin Ids /\ NoIf \notin Ifs

Peer  == [ip : Nat, name : Names, ifn : Ifs \cup {NoIf}]
IsList(l)     == DOMAIN l \subseteq Ids /\ l \in [DOMAIN l -> Peer]
IsSections(s) == DOMAIN s \subseteq Ids /\ s \in [DOMAIN s -> Nat \cup {NoIP}]
Distinct(l)   == \A i, j \in DOMAIN l : l[i].ip = l[j].ip => i = j

ASSUME InitListsAssumption == \A l \in InitLists : IsList(l) /\ Distinct(l)
ASSUME TornAssumption == \A S \in SUBSET Ids : Torn \notin [S -> Peer]

EmptyList == [i \in {} |-> i]
Ips(l)    == [i \in DOMAIN l |-> l[i].ip]
With(l, i, p) == [j \in DOMAIN l \cup {i} |-> IF j = i THEN p ELSE l[j]]
Without(l, i) == [j \in DOMAIN l \ {i} |-> l[j]]

-----------------------------------------------------------------------------
(* Mutant: the used map is not filled from the list. *)
TakenByServer(l, s) == {s.base, s.base + 1}

(* nextAvailableIP: the lowest host of s that is neither an address of s   *)
(* the server keeps (the network address and the one after it) nor held by *)
(* a peer of the list.  {} stands for a refusal: no config, a subnet that  *)
(* does not parse, or no free address.                                     *)
Taken(l, s) == {s.base, s.base + 1} \cup {l[i].ip : i \in DOMAIN l}
Free(l, s)  == (s.base + 1 .. s.base + s.size - 2) \ Taken(l, s)

NextAvailableIP(l, s) ==
  IF s \in Subnets THEN {a \in Free(l, s) : \A b \in Free(l, s) : a <= b}
  ELSE {}

(* loadPeers answers an empty list, and no error, for a file it cannot decode. *)
LoadPeers == IF peersFile = Torn THEN EmptyList ELSE peersFile

-----------------------------------------------------------------------------
Init ==
  /\ cfgFile = DefaultSubnet
  /\ peersFile \in InitLists
  /\ wgConf = Ips(peersFile)
  /\ ifaceUp = TRUE
  /\ ifacePeers = wgConf
  /\ ui = [sub |-> cfgFile, peers |-> peersFile]
  /\ used = DOMAIN peersFile
  /\ reqs = 0
  /\ faults = 0 /\ broken = FALSE
  /\ proc = "up"
  /\ pc = [w \in Workers |-> "idle"]
  /\ op = [w \in Workers |-> "none"]
  /\ id = [w \in Workers |-> NoId]
  /\ sub = [w \in Workers |-> DefaultSubnet]
  /\ list = [w \in Workers |-> EmptyList]
  /\ todo = [w \in Workers |-> {}]
  /\ shown = [w \in Workers |-> EmptyList]

Goto(w, label) == pc' = [pc EXCEPT ![w] = label]
At(w, label)   == proc = "up" /\ pc[w] = label

(* A request begins with its first access to the shared state. *)
Begin(w) == At(w, "idle") /\ reqs < MaxRequests /\ reqs' = reqs + 1

(* A write fails. *)
Fault == faults < MaxFaults /\ faults' = faults + 1 /\ broken' = TRUE

(* A request ends: its goroutine's locals are gone.  It may have answered, *)
(* or panicked (net/http recovers a handler's panic).                      *)
Reset(w) ==
  /\ Goto(w, "idle")
  /\ op' = [op EXCEPT ![w] = "none"]
  /\ id' = [id EXCEPT ![w] = NoId]
  /\ sub' = [sub EXCEPT ![w] = DefaultSubnet]
  /\ list' = [list EXCEPT ![w] = EmptyList]
  /\ todo' = [todo EXCEPT ![w] = {}]
  /\ shown' = [shown EXCEPT ![w] = EmptyList]

(* A request that has edited its copy l of the list for peer i goes on to save it. *)
Edited(w, o, i, l) ==
  /\ op' = [op EXCEPT ![w] = o]
  /\ id' = [id EXCEPT ![w] = i]
  /\ list' = [list EXCEPT ![w] = l]
  /\ Goto(w, "trunc")

-----------------------------------------------------------------------------
(* addPeer reads peers.json, then config.json, then runs wg genkey.        *)

AddLoad(w) ==
  /\ Begin(w)
  /\ op' = [op EXCEPT ![w] = "add"]
  /\ list' = [list EXCEPT ![w] = LoadPeers]
  /\ Goto(w, "addcfg")
  /\ UNCHANGED <<files, iface, ui, used, proc, failures, id, sub, todo, shown>>

AddCfg(w) ==
  /\ At(w, "addcfg")
  /\ \E a \in NextAvailableIP(list[w], cfgFile), i \in Ids \ used, n \in Names :
       /\ Edited(w, "add", i, With(list[w], i, [ip |-> a, name |-> n, ifn |-> NoIf]))
       /\ used' = used \cup {i}
  /\ sub' = [sub EXCEPT ![w] = cfgFile]
  /\ UNCHANGED <<files, iface, ui, reqs, proc, failures, todo, shown>>

(* Without a config cfg is nil and cfg.Subnet panics; otherwise 409. *)
AddRefused(w) ==
  /\ At(w, "addcfg")
  /\ NextAvailableIP(list[w], cfgFile) = {}
  /\ Reset(w)
  /\ UNCHANGED <<files, iface, ui, used, reqs, proc, failures>>

(* removePeer; an unknown id answers 404 and changes nothing. *)
RemoveLoad(w) ==
  /\ Begin(w)
  /\ \E i \in DOMAIN LoadPeers : Edited(w, "remove", i, Without(LoadPeers, i))
  /\ UNCHANGED <<files, iface, ui, used, proc, failures, sub, todo, shown>>

(* updatePeer: a new name must differ from every other peer's. *)
UpdateLoad(w) ==
  /\ Begin(w)
  /\ \E i \in DOMAIN LoadPeers, n \in Names :
       /\ \A j \in DOMAIN LoadPeers \ {i} : LoadPeers[j].name # n
       /\ Edited(w, "edit", i, With(LoadPeers, i, [LoadPeers[i] EXCEPT !.name = n]))
  /\ UNCHANGED <<files, iface, ui, used, proc, failures, sub, todo, shown>>

(* importPeerToKeenetic reads the list before the router is spoken to and  *)
(* saves that copy afterwards, if the router named another interface.      *)
ImportLoad(w) ==
  /\ Begin(w)
  /\ \E i \in DOMAIN LoadPeers, f \in Ifs :
       /\ f # LoadPeers[i].ifn
       /\ Edited(w, "edit", i, With(LoadPeers, i, [LoadPeers[i] EXCEPT !.ifn = f]))
  /\ UNCHANGED <<files, iface, ui, used, proc, failures, sub, todo, shown>>

(* The last step of the VPN jobs: applyPeerVpn sets the interface name,    *)
(* removePeerVpn clears it, if the reloaded list still has the peer.       *)
VpnJobLoad(w) ==
  /\ Begin(w)
  /\ \E i \in DOMAIN LoadPeers, f \in Ifs \cup {NoIf} :
       Edited(w, "edit", i, With(LoadPeers, i, [LoadPeers[i] EXCEPT !.ifn = f]))
  /\ UNCHANGED <<files, iface, ui, used, proc, failures, sub, todo, shown>>

-----------------------------------------------------------------------------
(* savePeers: os.Create truncates, Encode writes. *)

PeersTrunc(w) ==
  /\ At(w, "trunc")
  /\ peersFile' = Torn
  /\ Goto(w, "write")
  /\ UNCHANGED <<cfgFile, wgConf, iface, ui, used, reqs, proc, failures, op, id, sub, list, todo, shown>>

PeersWrite(w) ==
  /\ At(w, "write")
  /\ peersFile' = list[w]
  /\ \/ op[w] = "edit" /\ Reset(w)
     \/ op[w] = "remove" /\ Goto(w, "cfg") /\ UNCHANGED <<op, id, sub, list, todo, shown>>
     \/ /\ op[w] \notin {"edit", "remove"}
        /\ Goto(w, "conf")
        /\ UNCHANGED <<op, id, sub, list, todo, shown>>
  /\ UNCHANGED <<cfgFile, wgConf, iface, ui, used, reqs, proc, failures>>

(* os.Create fails and leaves the file, or Encode fails and leaves it      *)
(* torn.  addPeer answers 500; an edit ends here too; removePeer and       *)
(* saveConfig ignore the error and go on with their list.                  *)
PeersFailed(w) ==
  /\ proc = "up" /\ pc[w] \in {"trunc", "write"}
  /\ Fault
  /\ \/ op[w] \in {"add", "edit"} /\ Reset(w)
     \/ op[w] = "remove" /\ Goto(w, "cfg") /\ UNCHANGED <<op, id, sub, list, todo, shown>>
     \/ /\ op[w] \notin {"add", "edit", "remove"}
        /\ Goto(w, "conf")
        /\ UNCHANGED <<op, id, sub, list, todo, shown>>
  /\ UNCHANGED <<files, iface, ui, used, reqs, proc>>

(* removePeer loads the config only now. *)
RemoveCfg(w) ==
  /\ At(w, "cfg")
  /\ sub' = [sub EXCEPT ![w] = cfgFile]
  /\ Goto(w, "conf")
  /\ UNCHANGED <<files, iface, ui, used, reqs, proc, failures, op, id, list, todo, shown>>

(* generateWgConfig renders the list the request saved, without reading    *)
(* peers.json again.  It fails without a config, with a bad subnet, or     *)
(* when the file that would replace wg0.conf cannot be written: add and    *)
(* remove ignore that, saveConfig answers 500.                             *)
RenderConf(w) ==
  /\ wgConf' = Ips(list[w])
  /\ Goto(w, IF op[w] \in {"add", "remove"} THEN "show" ELSE "down")
  /\ UNCHANGED <<op, id, sub, list, todo, shown>>

KeepConf(w) ==
  /\ UNCHANGED wgConf
  /\ \/ op[w] \in {"add", "remove"} /\ Goto(w, "show") /\ UNCHANGED <<op, id, sub, list, todo, shown>>
     \/ op[w] \notin {"add", "remove"} /\ Reset(w)

GenerateWgConfig(w) ==
  /\ At(w, "conf")
  /\ \/ sub[w] \in Subnets /\ RenderConf(w) /\ UNCHANGED failures
     \/ sub[w] \notin Subnets /\ KeepConf(w) /\ UNCHANGED failures
     \/ KeepConf(w) /\ Fault
  /\ UNCHANGED <<cfgFile, peersFile, iface, ui, used, reqs, proc>>

-----------------------------------------------------------------------------
(* syncconfAddPeer, syncconfRemovePeer: wg showconf, an edit of its text,  *)
(* wg syncconf.  Both runs fail, and the request answers, when wg0 is down. *)

ShowConf(w) ==
  /\ At(w, "show")
  /\ ifaceUp
  /\ shown' = [shown EXCEPT ![w] = ifacePeers]
  /\ Goto(w, "sync")
  /\ UNCHANGED <<files, iface, ui, used, reqs, proc, failures, op, id, sub, list, todo>>

(* An allowed IP belongs to one peer: the section read last takes it. *)
AppendSection(s, i, a) ==
  [j \in DOMAIN s \cup {i} |-> IF j = i THEN a ELSE IF s[j] = a THEN NoIP ELSE s[j]]

(* Mutant: removePeer reads the public key of the peer to remove after the *)
(* filtered list has overwritten it (CHANGELOG v1.14.7).                   *)
SyncConfShifted(w) ==
  /\ At(w, "sync")
  /\ ifaceUp
  /\ ifacePeers' =
       IF op[w] = "add" THEN AppendSection(shown[w], id[w], list[w][id[w]].ip)
       ELSE IF DOMAIN list[w] = {} THEN Without(shown[w], id[w])
       ELSE Without(shown[w], CHOOSE j \in DOMAIN list[w] : TRUE)
  /\ Reset(w)
  /\ UNCHANGED <<files, ifaceUp, ui, used, reqs, proc, failures>>

SyncConf(w) ==
  /\ At(w, "sync")
  /\ ifaceUp
  /\ ifacePeers' = IF op[w] = "add"
                   THEN AppendSection(shown[w], id[w], list[w][id[w]].ip)
                   ELSE Without(shown[w], id[w])
  /\ Reset(w)
  /\ UNCHANGED <<files, ifaceUp, ui, used, reqs, proc, failures>>

SyncFailed(w) ==
  /\ proc = "up" /\ pc[w] \in {"show", "sync"}
  /\ ~ifaceUp
  /\ Reset(w)
  /\ UNCHANGED <<files, iface, ui, used, reqs, proc, failures>>

-----------------------------------------------------------------------------
(* saveConfig.  The old config is read before s.mu is taken; without one   *)
(* the request panics (ServerConfig has the lock and the other settings).  *)
(* The request carries another subnet, only other settings, or all that an *)
(* earlier GET /config returned, peers included.                           *)

SaveConfigRead(w) ==
  /\ Begin(w)
  /\ cfgFile # Torn
  /\ \/ \E s \in (Subnets \cup {BadSubnet}) \ {cfgFile} :
          sub' = [sub EXCEPT ![w] = s] /\ op' = [op EXCEPT ![w] = "subnet"] /\ UNCHANGED list
     \/ sub' = [sub EXCEPT ![w] = cfgFile] /\ op' = [op EXCEPT ![w] = "settings"] /\ UNCHANGED list
     \/ /\ sub' = [sub EXCEPT ![w] = ui.sub]
        /\ op' = [op EXCEPT ![w] = "post"]
        /\ list' = [list EXCEPT ![w] = ui.peers]
  /\ Goto(w, "cfgtrunc")
  /\ UNCHANGED <<files, iface, ui, used, proc, failures, id, todo, shown>>

(* s.mu is held from here to the end of the write. *)
SavingConfig == \E v \in Workers : pc[v] = "cfgwrite"

ConfigTrunc(w) ==
  /\ At(w, "cfgtrunc")
  /\ ~SavingConfig
  /\ cfgFile' = Torn
  /\ Goto(w, "cfgwrite")
  /\ UNCHANGED <<peersFile, wgConf, iface, ui, used, reqs, proc, failures, op, id, sub, list, todo, shown>>

(* saveGeneralConfig reads the config under s.mu and saves it with the     *)
(* subnet it found, or with an empty one, which is the default; nobody     *)
(* else writes the file in between.                                        *)
GeneralTrunc(w) ==
  /\ Begin(w)
  /\ ~SavingConfig
  /\ sub' = [sub EXCEPT ![w] = IF cfgFile = Torn THEN DefaultSubnet ELSE cfgFile]
  /\ op' = [op EXCEPT ![w] = "general"]
  /\ cfgFile' = Torn
  /\ Goto(w, "cfgwrite")
  /\ UNCHANGED <<peersFile, wgConf, iface, ui, used, proc, failures, id, list, todo, shown>>

ConfigWrite(w) ==
  /\ At(w, "cfgwrite")
  /\ cfgFile' = sub[w]
  /\ \/ op[w] = "general" /\ Reset(w)
     \/ op[w] # "general" /\ Goto(w, "cfgload") /\ UNCHANGED <<op, id, sub, list, todo, shown>>
  /\ UNCHANGED <<peersFile, wgConf, iface, ui, used, reqs, proc, failures>>

(* os.Create or Encode fails: 500. *)
ConfigFailed(w) ==
  /\ \/ At(w, "cfgtrunc") /\ ~SavingConfig
     \/ At(w, "cfgwrite")
  /\ Fault
  /\ Reset(w)
  /\ UNCHANGED <<files, iface, ui, used, reqs, proc>>

(* The list saved is the posted one if there is one; a new subnet has each *)
(* peer of the loaded list renumbered before it is saved.                  *)
SaveConfigLoad(w) ==
  /\ At(w, "cfgload")
  /\ list' = [list EXCEPT ![w] = IF op[w] = "post" THEN list[w] ELSE LoadPeers]
  /\ todo' = [todo EXCEPT ![w] = IF op[w] = "subnet" THEN DOMAIN LoadPeers ELSE {}]
  /\ Goto(w, "renumber")
  /\ UNCHANGED <<files, iface, ui, used, reqs, proc, failures, op, id, sub, shown>>

(* Mutant: a peer for which no address is free is left out of the list. *)
RenumberDropping(w) ==
  /\ At(w, "renumber")
  /\ \E i \in todo[w] :
       /\ todo' = [todo EXCEPT ![w] = @ \ {i}]
       /\ \/ \E a \in NextAvailableIP(list[w], sub[w]) :
               list' = [list EXCEPT ![w] = With(@, i, [@[i] EXCEPT !.ip = a])]
          \/ /\ NextAvailableIP(list[w], sub[w]) = {}
             /\ list' = [list EXCEPT ![w] = Without(@, i)]
  /\ UNCHANGED <<files, iface, ui, used, reqs, proc, failures, pc, op, id, sub, shown>>

(* One turn of the loop: the peer's own old address counts as taken, and   *)
(* a peer for which none is free keeps the address it has.                 *)
Renumber(w) ==
  /\ At(w, "renumber")
  /\ \E i \in todo[w] :
       /\ todo' = [todo EXCEPT ![w] = @ \ {i}]
       /\ \/ \E a \in NextAvailableIP(list[w], sub[w]) :
               list' = [list EXCEPT ![w] = With(@, i, [@[i] EXCEPT !.ip = a])]
          \/ NextAvailableIP(list[w], sub[w]) = {} /\ UNCHANGED list
  /\ UNCHANGED <<files, iface, ui, used, reqs, proc, failures, pc, op, id, sub, shown>>

Renumbered(w) ==
  /\ At(w, "renumber")
  /\ todo[w] = {}
  /\ Goto(w, "trunc")
  /\ UNCHANGED <<files, iface, ui, used, reqs, proc, failures, op, id, sub, list, todo, shown>>

-----------------------------------------------------------------------------
(* restartServerDirect: wg-quick down and ip link del, then wg-quick up,   *)
(* which does nothing but fail when somebody brought wg0 up meanwhile.     *)

Restart(w) ==
  /\ Begin(w)
  /\ Goto(w, "down")
  /\ UNCHANGED <<files, iface, ui, used, proc, failures, op, id, sub, list, todo, shown>>

(* Mutant: wg-quick down fails, and ip link del is not tried. *)
WgQuickDownFails(w) ==
  /\ At(w, "down")
  /\ Goto(w, "quickup")
  /\ UNCHANGED <<files, iface, ui, used, reqs, proc, failures, op, id, sub, list, todo, shown>>

WgQuickDown(w) ==
  /\ At(w, "down")
  /\ ifaceUp' = FALSE /\ ifacePeers' = EmptyList
  /\ Goto(w, "quickup")
  /\ UNCHANGED <<files, ui, used, reqs, proc, failures, op, id, sub, list, todo, shown>>

WgQuickUp(w) ==
  /\ At(w, "quickup")
  /\ ifaceUp' = TRUE
  /\ ifacePeers' = IF ifaceUp THEN ifacePeers ELSE wgConf
  /\ Reset(w)
  /\ UNCHANGED <<files, ui, used, reqs, proc, failures>>

StopServer(w) ==
  /\ At(w, "idle")
  /\ ifaceUp' = FALSE /\ ifacePeers' = EmptyList
  /\ UNCHANGED <<files, ui, used, reqs, proc, failures, locals>>

StartServer(w) ==
  /\ At(w, "idle")
  /\ ~ifaceUp
  /\ ifaceUp' = TRUE /\ ifacePeers' = wgConf
  /\ UNCHANGED <<files, ui, used, reqs, proc, failures, locals>>

(* Mutant: getConfig goes on with the config it could not read. *)
GetConfigUnchecked(w) ==
  /\ At(w, "idle")
  /\ ui' = [sub |-> cfgFile, peers |-> LoadPeers]
  /\ UNCHANGED <<files, iface, used, reqs, proc, failures, locals>>

(* getConfig: a browser keeps what it was told for as long as it likes. *)
GetConfig(w) ==
  /\ At(w, "idle")
  /\ cfgFile # Torn
  /\ ui' = [sub |-> cfgFile, peers |-> LoadPeers]
  /\ UNCHANGED <<files, iface, used, reqs, proc, failures, locals>>

-----------------------------------------------------------------------------
(* The process is killed (wg0 survives it) or the machine reboots (it does *)
(* not); systemd runs main() again.                                        *)

Crash ==
  /\ proc' = "load"
  /\ \/ UNCHANGED iface
     \/ ifaceUp' = FALSE /\ ifacePeers' = EmptyList
  /\ pc' = [w \in Workers |-> "idle"]
  /\ op' = [w \in Workers |-> "none"]
  /\ id' = [w \in Workers |-> NoId]
  /\ sub' = [w \in Workers |-> DefaultSubnet]
  /\ list' = [w \in Workers |-> EmptyList]
  /\ todo' = [w \in Workers |-> {}]
  /\ shown' = [w \in Workers |-> EmptyList]
  /\ broken' = FALSE
  /\ UNCHANGED <<files, ui, used, reqs, faults>>

(* main(): a config it cannot read is replaced by the default one. *)
StartConfig ==
  /\ proc = "load"
  /\ cfgFile' = IF cfgFile = Torn THEN DefaultSubnet ELSE cfgFile
  /\ proc' = "generate"
  /\ UNCHANGED <<peersFile, wgConf, iface, ui, used, reqs, failures, locals>>

(* main() only logs it when wg0.conf cannot be rendered or written. *)
StartGenerate ==
  /\ proc = "generate"
  /\ \/ cfgFile \in Subnets /\ wgConf' = Ips(LoadPeers) /\ UNCHANGED failures
     \/ cfgFile \notin Subnets /\ UNCHANGED <<wgConf, failures>>
     \/ Fault /\ UNCHANGED wgConf
  /\ proc' = "sync"
  /\ UNCHANGED <<cfgFile, peersFile, iface, ui, used, reqs, locals>>

(* Mutant: an interface that is up is left as it is (before v1.12.18). *)
StartSyncKeeps ==
  /\ proc = "sync"
  /\ ifaceUp' = TRUE
  /\ ifacePeers' = IF ifaceUp THEN ifacePeers ELSE wgConf
  /\ proc' = "up"
  /\ UNCHANGED <<files, ui, used, reqs, failures, locals>>

(* wg0 is brought up, or made to match wg0.conf with wg syncconf. *)
StartSync ==
  /\ proc = "sync"
  /\ ifaceUp' = TRUE
  /\ ifacePeers' = wgConf
  /\ proc' = "up"
  /\ UNCHANGED <<files, ui, used, reqs, failures, locals>>

-----------------------------------------------------------------------------
Request(w) ==
  \/ AddLoad(w) \/ AddCfg(w) \/ AddRefused(w)
  \/ RemoveLoad(w) \/ RemoveCfg(w)
  \/ UpdateLoad(w) \/ ImportLoad(w) \/ VpnJobLoad(w)
  \/ PeersTrunc(w) \/ PeersWrite(w) \/ PeersFailed(w)
  \/ GenerateWgConfig(w)
  \/ ShowConf(w) \/ SyncConf(w) \/ SyncFailed(w)
  \/ SaveConfigRead(w) \/ ConfigTrunc(w) \/ GeneralTrunc(w) \/ ConfigWrite(w)
  \/ ConfigFailed(w)
  \/ SaveConfigLoad(w) \/ Renumber(w) \/ Renumbered(w)
  \/ Restart(w) \/ WgQuickDown(w) \/ WgQuickUp(w)
  \/ StopServer(w) \/ StartServer(w) \/ GetConfig(w)

Startup == StartConfig \/ StartGenerate \/ StartSync

Next == (\E w \in Workers : Request(w)) \/ Crash \/ Startup

Spec == Init /\ [][Next]_vars
-----------------------------------------------------------------------------
(***************************************************************************)
(* Properties.                                                             *)
(***************************************************************************)

(* The variables hold what the code can put there: a list of known ids or  *)
(* a truncated file, a subnet (maybe an invalid one), a position in a      *)
(* handler with the locals that position needs.                            *)
TypeOK ==
  /\ cfgFile \in Subnets \cup {BadSubnet, Torn}
  /\ peersFile = Torn \/ IsList(peersFile)
  /\ IsSections(wgConf)
  /\ ifaceUp \in BOOLEAN
  /\ IsSections(ifacePeers)
  /\ ui = [sub |-> ui.sub, peers |-> ui.peers]
  /\ ui.sub \in Subnets \cup {BadSubnet} /\ IsList(ui.peers)
  /\ used \subseteq Ids
  /\ reqs \in 0 .. MaxRequests
  /\ faults \in 0 .. MaxFaults /\ broken \in BOOLEAN
  /\ proc \in {"load", "generate", "sync", "up"}
  /\ pc \in [Workers -> {"idle", "addcfg", "trunc", "write", "cfg", "conf", "show", "sync",
                         "cfgtrunc", "cfgwrite", "cfgload", "renumber", "down", "quickup"}]
  /\ op \in [Workers -> {"none", "add", "remove", "edit", "subnet", "settings", "post", "general"}]
  /\ id \in [Workers -> Ids \cup {NoId}]
  /\ sub \in [Workers -> Subnets \cup {BadSubnet, Torn}]
  /\ DOMAIN list = Workers /\ \A w \in Workers : IsList(list[w])
  /\ todo \in [Workers -> SUBSET Ids]
  /\ DOMAIN shown = Workers /\ \A w \in Workers : IsSections(shown[w])

(* No two peers of one list ever hold the same tunnel address: not in      *)
(* peers.json, not in the copy of any request in flight, not in the list a *)
(* browser may post back, not in wg0.conf.  It holds although no lock      *)
(* guards the file and a request may work on a list that is long out of    *)
(* date (addPeer's and saveConfig's use of nextAvailableIP).               *)
AddressesDistinct ==
  /\ peersFile # Torn => Distinct(peersFile)
  /\ \A w \in Workers : Distinct(list[w])
  /\ Distinct(ui.peers)
  /\ \A i, j \in DOMAIN wgConf : wgConf[i] = wgConf[j] => i = j

(* peers.json, wg0.conf and the running interface hold the same peers with *)
(* the same addresses.                                                     *)
Agreement ==
  /\ wgConf = Ips(LoadPeers)
  /\ ifaceUp => ifacePeers = wgConf

(* Whatever requests were cut off or have overwritten each other, main()   *)
(* ends with the three in agreement again (the resync of the running       *)
(* interface, main.go:261), unless the stored subnet cannot be parsed or   *)
(* main() itself has failed to write wg0.conf.                             *)
StartupHeals ==
  [][proc # "up" /\ proc' = "up" /\ cfgFile \in Subnets /\ ~broken => Agreement']_vars

Quiescent == proc = "up" /\ \A w \in Workers : pc[w] = "idle"

(* When requests come one at a time, every handler leaves the three in     *)
(* agreement, crashes, stops and starts of wg0 included, as long as no     *)
(* write has failed since the process started (removePeer ignores one, and *)
(* the peer is gone from wg0 alone).                                       *)
QuiescentAgreement == Quiescent /\ cfgFile \in Subnets /\ ~broken => Agreement

(* The registry as an atomic object: a request takes effect when it        *)
(* truncates peers.json; the list it is about to write is the new value.   *)
Writing == {w \in Workers : pc[w] = "write"}
StoredList == IF peersFile = Torn /\ Writing # {}
              THEN list[CHOOSE w \in Writing : TRUE]
              ELSE LoadPeers

Registry == INSTANCE PeerRegistry WITH reg <- StoredList, seen <- ui.peers

(* With one request at a time the whole of ncmanager's store behaves like  *)
(* the atomic registry: no handler loses, duplicates or mixes up peers     *)
(* that it was not asked to change, and a crash or a failed write keeps    *)
(* all or nothing.                                                         *)
AtomicRegistry == Registry!Spec

(* Removing a peer takes no other peer off the running interface and       *)
(* leaves the others' addresses (CHANGELOG v1.12.10, v1.14.7).             *)
RemoveKeepsNeighbours ==
  [][\A w \in Workers :
       pc[w] = "sync" /\ op[w] = "remove" /\ ifaceUp /\ proc' = "up" /\ pc'[w] = "idle"
       => \A j \in DOMAIN ifacePeers \ {id[w]} :
            j \in DOMAIN ifacePeers' /\ ifacePeers'[j] = ifacePeers[j]]_vars
=============================================================================
