------------------------------ MODULE RouterJobs ------------------------------
(***************************************************************************)
(* Everything the server does to the router of its peers, at once: tunnels *)
(* (RouterVpn), firmware components (Components) and name resolution       *)
(* (PeerDns) through one running configuration, with reboots of the router *)
(* and the death of the process.                                           *)
(***************************************************************************)
EXTENDS RouterVpn, Components, PeerDns

VARIABLE killed     \* history: the process has died with work under way

vars == <<router, sessions, control, vpnVars, compVars, dnsVars, killed>>

Init == InitRouter /\ InitVpn /\ InitComponents /\ InitDns /\ killed = FALSE

Step(w) ==
  /\ \/ VpnStep(w) /\ UNCHANGED <<compVars, dnsVars>>
     \/ ComponentsStep(w) /\ UNCHANGED <<vpnVars, dnsVars>>
     \/ DnsStep(w) /\ UNCHANGED <<vpnVars, compVars>>
  /\ UNCHANGED killed

Reboot ==
  /\ InstallReboot \/ PowerReboot
  /\ UNCHANGED <<vpnVars, compVars, dnsVars, killed>>

Dies ==
  /\ EndProcess
  /\ VpnCut /\ ComponentsCut /\ DnsCut
  /\ killed' = (killed \/ \E w \in Workers : pc[w] # "idle")

Crash == Fault /\ Dies

(* The goroutine has logged in, and panics. *)
Panic == (\E w \in Workers : Panics(w)) /\ Dies /\ UNCHANGED faults

Next == (\E w \in Workers : Step(w)) \/ Reboot \/ Crash \/ Panic

Spec == Init /\ [][Next]_vars

-----------------------------------------------------------------------------
TypeOK ==
  /\ \A c \in {running, startup} :
       /\ DOMAIN c.ifs \subseteq RouterNamed /\ \A f \in DOMAIN c.ifs : c.ifs[f] \in Iface
       /\ c.dns \subseteq OwnerDns \cup Upstreams /\ c.routes \in BOOLEAN
  /\ comps \subseteq Targets /\ staged \subseteq Targets
  /\ sessions \subseteq {w \in Workers : pc[w] # "idle"}
  /\ clean \in [Workers -> BOOLEAN] /\ alone \in [Workers -> BOOLEAN]
  /\ reqs \in 0 .. MaxRequests /\ faults \in 0 .. MaxFaults
  /\ \A l \in {LoadPeers} \cup {list[w] : w \in Workers} : \A p \in DOMAIN l :
       p \in Peers /\ l[p] \in PeerRec
  /\ vpnStatus \in [Peers -> {"idle", "running", "failed", "completed"}]
  /\ op \in [Workers -> {"none", "apply", "remove", "import", "edit"}]
  /\ who \in [Workers -> Peers]
  /\ step \in [Workers -> 1 .. Len(Setup)]
  /\ \A w \in Workers : {ifn[w], old[w], settled[who[w]]} \subseteq RouterNamed \cup {NoIf}
  /\ strays \subseteq RouterNamed
  /\ compStatus \in {"idle", "running", "waiting_reboot", "failed", "completed"}
  /\ missing \in [Workers -> SUBSET Targets] /\ noConfig \subseteq Workers
  /\ todel \in [Workers -> SUBSET Upstreams] /\ enabled \in [Workers -> BOOLEAN]

(* Whatever meets whatever, and whatever fails, an interface the router's  *)
(* owner has made stays as it is, also when it has no description, unless  *)
(* it is described as a peer might be or has a peer's key, by which the    *)
(* import finds its own (importWireGuardConfigToRouter), or has a name     *)
(* that another router gave to a tunnel, which removePeerVpn takes for one *)
(* of this router's once the peer's domain has been changed (updatePeer).  *)
(* And an upstream of his stays unless it shares an address with one of    *)
(* the server's (keeneticSetupSecureDns).                                  *)
Claimable == {f \in DOMAIN Owner : Owner[f].desc \in {Slug[n] : n \in Names} \/ Owner[f].key \in Peers}
Spared    == DOMAIN Owner \ (Claimable \cup strays)

OwnerUntouched ==
  \A c \in {running, startup} :
    /\ \A f \in Spared : f \in DOMAIN c.ifs /\ c.ifs[f] = Owner[f]
    /\ OwnerDns \ Upstreams \subseteq c.dns

(* When requests about tunnels have come one at a time, all their calls    *)
(* and writes were done, no peer was renamed or given another domain, and  *)
(* no import removed an interface that was described as its peer but not   *)
(* that peer's tunnel, then, whatever reboots, the interface recorded for  *)
(* a peer is on the router and is that peer's, and no peer has two tunnels *)
(* (applyPeerVpn, removePeerVpn, importPeerToKeenetic).                    *)
Quiet == peersFile # Torn /\ \A w \in Workers : ~Busy(w)

TunnelsAgree ==
  Quiet /\ ~upset =>
    /\ \A p \in DOMAIN peersFile :
         LET f == peersFile[p].ifn
         IN  peersFile[p].here /\ f # NoIf => f \in DOMAIN running.ifs /\ running.ifs[f].key = p
    /\ \A f, g \in IfNames \cap DOMAIN running.ifs : running.ifs[f].key = running.ifs[g].key => f = g

(* A tunnel whose import went through lasts until the next request about   *)
(* tunnels, whatever had failed before: it is recorded, configured and up, *)
(* and neither a reboot of the router, planned by an installation or not,  *)
(* nor a crash of the server takes it away (applyPeerVpn,                  *)
(* importWireGuardConfigToRouter).                                         *)
ImportSticks ==
  \A p \in Peers : settled[p] # NoIf =>
    LET f == settled[p]
        tunnel == [desc |-> Slug[LoadPeers[p].name], key |-> p, has |-> {"ip", "peer", "up"}]
    IN  /\ p \in DOMAIN LoadPeers /\ LoadPeers[p].ifn = f
        /\ \A c \in {running, startup} : f \in DOMAIN c.ifs /\ c.ifs[f] = tunnel

(* What the last request about name resolution has put on the router is    *)
(* there, and there after a reboot, until the next one                     *)
(* (configurePeerDns, configurePeerDnsRoutes).                             *)
DnsSticks ==
  \A c \in {running, startup} :
    /\ answered.dns # NoAnswer => answered.dns \subseteq c.dns
    /\ answered.routes # NoAnswer => c.routes = answered.routes

(* The browser reads "completed" only when every component the server      *)
(* needs is installed, although the reboot that installs may come late,    *)
(* may leave some out, and jobs share the status file                      *)
(* (configurePeerComponents, configureRouterComponents).                   *)
ComponentsHonest == compStatus = "completed" => Targets \subseteq comps

(* A status file says that a job is under way only while one is, unless    *)
(* the process has died: no early return of a job leaves the browser       *)
(* polling (applyPeerVpn, removePeerVpn, configurePeerComponents).         *)
StatusLive ==
  killed \/
    /\ \A p \in Peers : vpnStatus[p] = "running" =>
         \E w \in Workers : op[w] \in {"apply", "remove"} /\ who[w] = p
    /\ compStatus \in {"running", "waiting_reboot"} =>
         \E w \in Workers : pc[w] \in {"c.login", "c.list", "c.install", "c.commit", "c.wait", "c.verify"}
=============================================================================
