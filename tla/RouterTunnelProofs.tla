-------------------------- MODULE RouterTunnelProofs --------------------------
(***************************************************************************)
(* Proofs about RouterJobs, for any number of requests, peers, interfaces  *)
(* and failures: what a finished request has promised is on the router     *)
(* (components, name resolution, tunnels) until the next one comes.        *)
(***************************************************************************)
EXTENDS RouterProofs

-----------------------------------------------------------------------------
(* What a step of a worker does to the control of the workers.             *)
ControlOK ==
  /\ DOMAIN pc = Workers /\ pc = [w \in Workers |-> pc[w]]
  /\ sessions \subseteq {w \in Workers : pc[w] # "idle"}
  /\ clean \in [Workers -> BOOLEAN]
  /\ reqs \in 0 .. MaxRequests /\ faults \in 0 .. MaxFaults

Framed(w, label) ==
  /\ ControlOK'
  /\ pc' = [pc EXCEPT ![w] = label]
  /\ \A v \in Workers \ {w} : clean'[v] = clean[v] /\ (v \in sessions' <=> v \in sessions)

(* Steps about tunnels leave the rest of the configuration alone, and the  *)
(* others leave the tunnels.                                               *)
OnTunnels ==
  /\ running'.dns = running.dns /\ running'.routes = running.routes
  /\ startup' \in {startup, running} /\ UNCHANGED <<comps, staged>>

OnNames ==
  running'.ifs = running.ifs /\ startup' \in {startup, running} /\ UNCHANGED <<comps, staged>>

LEMMA BeginFramed ==
  ASSUME ControlOK, NEW w \in Workers, NEW label,
         \/ Begin(w, label) \/ Local(w, label) \/ LoginFailed(w, label)
         \/ LocalFailed(w, label) /\ label # "idle"
  PROVE  Framed(w, label) /\ UNCHANGED router
<1> USE RouterBounds DEF ControlOK, Framed, Goto, router
<1>1. CASE Begin(w, label)
  BY <1>1 DEF Begin, Comes, At
<1>2. CASE Local(w, label)
  BY <1>2 DEF Local, Leaves
<1>3. CASE LoginFailed(w, label)
  BY <1>3 DEF LoginFailed, Fault
<1>4. CASE LocalFailed(w, label) /\ label # "idle"
  BY <1>4 DEF LocalFailed, Fault
<1> QED
  BY <1>1, <1>2, <1>3, <1>4

LEMMA LoginFramed ==
  ASSUME ControlOK, NEW w \in Workers, NEW label, LoggedIn(w, label), label # "idle"
  PROVE  Framed(w, label) /\ UNCHANGED router
BY DEF ControlOK, Framed, Goto, LoggedIn, router

LEMMA CallFramed ==
  ASSUME ControlOK, NEW w \in Workers, NEW label, NEW new,
         Answered(w, new, label) \/ Done(w, new, label) \/ Failed(w, new, label)
  PROVE  Framed(w, label) /\ running' \in {running, new} /\ UNCHANGED <<startup, comps, staged>>
<1> USE RouterBounds DEF ControlOK, Framed, Goto, router
<1>1. CASE Answered(w, new, label)
  BY <1>1 DEF Answered, Leaves
<1>2. CASE Ignored(w, label)
  BY <1>2 DEF Ignored, Fault, Leaves
<1>3. CASE Failed(w, new, label)
  BY <1>3 DEF Failed, Fault, Leaves
<1> QED
  BY <1>1, <1>2, <1>3 DEF Done

LEMMA ReadFramed ==
  ASSUME ControlOK, NEW w \in Workers, NEW label, Read(w, label) \/ Failed(w, running, label)
  PROVE  Framed(w, label) /\ UNCHANGED router
BY CallFramed DEF Read, router

LEMMA SaveFramed ==
  ASSUME ControlOK, NEW w \in Workers, NEW label,
         Saved(w, label) \/ SaveFailed(w, label) \/ Ignored(w, label)
  PROVE  /\ Framed(w, label)
         /\ startup' \in {startup, running} /\ UNCHANGED <<running, comps, staged>>
<1> USE RouterBounds DEF ControlOK, Framed, Goto, router
<1>1. CASE Ignored(w, label)
  BY <1>1 DEF Ignored, Fault, Leaves
<1>2. CASE Saved(w, label)
  BY <1>1, <1>2 DEF Saved, Leaves
<1>3. CASE SaveFailed(w, label)
  BY <1>3 DEF SaveFailed, Fault, Leaves
<1> QED
  BY <1>1, <1>2, <1>3

LEMMA TunnelOnly ==
  ASSUME RouterSafe
  PROVE  /\ \A f, s : SetIf(f, s).dns = running.dns /\ SetIf(f, s).routes = running.routes
         /\ \A f : DropIf(f).dns = running.dns /\ DropIf(f).routes = running.routes
BY DEF RouterSafe, Respects, SetIf, DropIf

LEMMA VpnFramed ==
  ASSUME ControlOK, RouterSafe, NEW w \in Workers, VpnStep(w)
  PROVE  \E label : Framed(w, label) /\ OnTunnels
<1>1. CASE ApplyBegin(w) \/ RemoveBegin(w) \/ ImportBegin(w) \/ UpdatePeer(w) \/ RemovePeer(w)
  BY <1>1, BeginFramed DEF ApplyBegin, RemoveBegin, ImportBegin, UpdatePeer, RemovePeer, Request,
                           OnTunnels, router
<1>2. CASE Connect(w) \/ Login(w) \/ Elsewhere(w)
  BY <1>2, BeginFramed, LoginFramed DEF Connect, Login, Elsewhere, OnTunnels, router
<1>3. ASSUME NEW new, NEW label,
             Answered(w, new, label) \/ Done(w, new, label) \/ Failed(w, new, label),
             new.dns = running.dns, new.routes = running.routes
      PROVE  Framed(w, label) /\ OnTunnels
  BY <1>3, CallFramed DEF OnTunnels
<1>4. CASE RemoveInterface(w) \/ RemoveOld(w)
  BY <1>3, <1>4, TunnelOnly DEF RemoveInterface, RemoveOld
<1>5. CASE SetupCall(w)
  BY <1>3, <1>5, TunnelOnly DEF SetupCall
<1>6. CASE ListInterfaces(w) \/ SaveRouter(w)
  BY <1>6, ReadFramed, SaveFramed DEF ListInterfaces, SaveRouter, OnTunnels, router
<1>7. CASE Import(w)
  <2>1. \A r \in Imported(who[w]) : r[2].dns = running.dns /\ r[2].routes = running.routes
    BY TunnelOnly DEF Imported
  <2> QED
    BY <1>3, <1>7, <2>1 DEF Import
<1>8. CASE AdoptOrphan(w)
  <2>1. PICK new : /\ Answered(w, new, "setup") \/ Failed(w, running, "setup")
                   /\ new.dns = running.dns /\ new.routes = running.routes
    BY <1>8, TunnelOnly DEF AdoptOrphan
  <2> QED
    BY <1>3, <2>1
<1>9. CASE \/ SkipPeer(w) \/ Record(w) \/ PeersTrunc(w) \/ PeersWrite(w) \/ PeersFailed(w)
           \/ Finish(w)
  BY <1>9, BeginFramed DEF SkipPeer, Record, PeersTrunc, PeersWrite, PeersFailed, Finish, OnTunnels, router
<1> QED
  BY <1>1, <1>2, <1>4, <1>5, <1>6, <1>7, <1>8, <1>9 DEF VpnStep

LEMMA ComponentsFramed ==
  ASSUME ControlOK, NEW w \in Workers, ComponentsStep(w)
  PROVE  \E label : Framed(w, label) /\ UNCHANGED <<running, startup>>
<1>1. CASE ComponentsBegin(w) \/ ComponentsLogin(w)
  BY <1>1, BeginFramed, LoginFramed DEF ComponentsBegin, ComponentsLogin, router
<1>2. CASE ComponentsBeginTorn(w)
  <2>1. Framed(w, "c.login") /\ UNCHANGED <<running, startup>>
    BY <1>2, RouterBounds DEF ComponentsBeginTorn, Comes, At, ControlOK, Framed, Goto, Fault, router
  <2> QED
    BY <2>1
<1>3. CASE ComponentsList(w) \/ Install(w) \/ Verify(w)
  BY <1>3, ReadFramed DEF ComponentsList, GetComponents, Install, Verify, router
<1>4. CASE Commit(w)
  <2>1. CASE Ignored(w, "c.wait") \/ Failed(w, running, "idle")
    BY <1>4, <2>1, SaveFramed, ReadFramed DEF router, Ignored
  <2>2. CASE /\ w \in sessions /\ Goto(w, "c.wait")
             /\ UNCHANGED <<running, startup, sessions, clean, reqs, faults>>
    <3>1. Framed(w, "c.wait")
      BY <2>2, RouterBounds DEF ControlOK, Framed, Goto
    <3> QED
      BY <2>2, <3>1
  <2>3. CASE /\ Fault /\ Goto(w, "idle") /\ clean' = [clean EXCEPT ![w] = FALSE]
             /\ sessions' = sessions \ {w} /\ UNCHANGED <<running, startup, reqs>>
    <3>1. Framed(w, "idle")
      BY <2>3, RouterBounds DEF ControlOK, Framed, Goto, Fault
    <3> QED
      BY <2>3, <3>1
  <2> QED
    BY <1>4, <2>1, <2>2, <2>3 DEF Commit
<1>5. CASE Reconnect(w)
  <2>1. CASE LoggedIn(w, "c.verify")
    BY <2>1, LoginFramed DEF router
  <2>2. CASE /\ At(w, "c.wait") /\ Fault /\ Goto(w, "c.verify")
             /\ clean' = [clean EXCEPT ![w] = FALSE] /\ UNCHANGED <<router, sessions, reqs>>
    <3>1. Framed(w, "c.verify") /\ UNCHANGED <<running, startup>>
      BY <2>2, RouterBounds DEF ControlOK, Framed, Goto, Fault, At, router
    <3> QED
      BY <3>1
  <2> QED
    BY <1>5, <2>1, <2>2 DEF Reconnect
<1> QED
  BY <1>1, <1>2, <1>3, <1>4, <1>5 DEF ComponentsStep

LEMMA DnsFramed ==
  ASSUME ControlOK, RouterSafe, NEW w \in Workers, DnsStep(w)
  PROVE  \E label : Framed(w, label) /\ OnNames
<1>1. CASE DnsBegin(w) \/ DnsLogin(w) \/ RoutesBegin(w) \/ RoutesLogin(w)
  BY <1>1, BeginFramed, LoginFramed DEF DnsBegin, DnsLogin, RoutesBegin, RoutesLogin, OnNames, router
<1>2. ASSUME NEW new, NEW label, Done(w, new, label) \/ Failed(w, new, label), new.ifs = running.ifs
      PROVE  Framed(w, label) /\ OnNames
  BY <1>2, CallFramed DEF OnNames
<1>3. /\ \A a : [running EXCEPT !.dns = @ \ {a}].ifs = running.ifs
      /\ [running EXCEPT !.dns = @ \cup Upstreams].ifs = running.ifs
      /\ \A b : [running EXCEPT !.routes = b].ifs = running.ifs
  BY DEF RouterSafe, Respects
<1>4. CASE DeleteUpstream(w)
  <2>1. PICK a \in todel[w] : \E label :
          \/ Done(w, [running EXCEPT !.dns = @ \ {a}], label)
          \/ Failed(w, [running EXCEPT !.dns = @ \ {a}], label)
    BY <1>4 DEF DeleteUpstream
  <2> DEFINE new == [running EXCEPT !.dns = @ \ {a}]
  <2>2. PICK label : Done(w, new, label) \/ Failed(w, new, label)
    BY <2>1
  <2>3. new.ifs = running.ifs
    BY <1>3
  <2> HIDE DEF new
  <2> QED
    BY <1>2, <2>2, <2>3
<1>5. CASE AddUpstreams(w) \/ RoutesSet(w)
  BY <1>2, <1>3, <1>5 DEF AddUpstreams, RoutesSet
<1>6. CASE DnsSave(w) \/ RoutesSave(w)
  BY <1>6, SaveFramed DEF DnsSave, RoutesSave, OnNames
<1> QED
  BY <1>1, <1>4, <1>5, <1>6 DEF DnsStep

LEMMA ControlInit == Init => ControlOK
BY RouterBounds DEF Init, InitRouter, ControlOK

LEMMA ControlStep == ASSUME IInv, ControlOK, [Next]_vars PROVE ControlOK'
<1>1. ASSUME NEW w \in Workers, Step(w) PROVE ControlOK'
  BY <1>1, VpnFramed, ComponentsFramed, DnsFramed DEF Step, Framed, IInv
<1>2. CASE Reboot
  BY <1>2, RouterBounds DEF Reboot, InstallReboot, PowerReboot, Fault, control, ControlOK
<1>3. CASE Crash \/ Panic
  <2>1. EndProcess /\ faults' \in 0 .. MaxFaults
    BY <1>3, RouterBounds DEF Crash, Panic, Fault, Dies, ControlOK
  <2> QED
    BY <2>1 DEF EndProcess, ControlOK
<1>4. CASE UNCHANGED vars
  BY <1>4 DEF vars, control, ControlOK
<1> QED
  BY <1>1, <1>2, <1>3, <1>4 DEF Next

-----------------------------------------------------------------------------
(* The rest of the types: the firmware, the history of the tunnels and the *)
(* locals of the job of the components.                                    *)
HistoryOK ==
  /\ alone \in [Workers -> BOOLEAN] /\ settled \in [Peers -> Refs] /\ upset \in BOOLEAN
  /\ strays \subseteq RouterNamed

FirmwareOK ==
  /\ comps \subseteq Targets /\ staged \subseteq Targets
  /\ compStatus \in {"idle", "running", "waiting_reboot", "failed", "completed"}
  /\ missing \in [Workers -> SUBSET Targets] /\ noConfig \subseteq Workers

LEMMA VpnHistory ==
  ASSUME IInv, ControlOK, HistoryOK, NEW w \in Workers, VpnStep(w)
  PROVE  HistoryOK'
<1> USE DEF HistoryOK
<1>0. \E label : Framed(w, label)
  BY VpnFramed DEF IInv
<1>1. CASE ApplyBegin(w) \/ RemoveBegin(w) \/ ImportBegin(w) \/ RemovePeer(w)
  BY <1>1 DEF ApplyBegin, RemoveBegin, ImportBegin, RemovePeer, Meets, Refs
<1>2. CASE UpdatePeer(w)
  BY <1>2 DEF UpdatePeer, Refs
<1>3. ASSUME Same(w) \/ UNCHANGED vpnVars \/ UNCHANGED history \/ GiveUp(w) PROVE HistoryOK'
  <2>1. clean'[w] \in BOOLEAN
    BY <1>0 DEF Framed, ControlOK
  <2> QED
    BY <1>3, <2>1 DEF Same, Noted, GiveUp, Leave, vpnVars, history
<1>4. CASE Finish(w)
  BY <1>4 DEF Finish, Leave, IInv, Typed
<1>5. CASE Elsewhere(w) \/ RemoveOld(w)
  BY <1>3, <1>5 DEF Elsewhere, RemoveOld
<1> QED
  BY <1>1, <1>2, <1>3, <1>4, <1>5 DEF VpnStep, Connect, Login, RemoveInterface, ListInterfaces,
       Import, AdoptOrphan, SetupCall, SkipPeer, SaveRouter, Record, PeersTrunc, PeersWrite, PeersFailed

LEMMA ComponentsFirmware ==
  ASSUME FirmwareOK, NEW w \in Workers, ComponentsStep(w)
  PROVE  FirmwareOK'
<1> USE DEF FirmwareOK
<1>1. CASE ComponentsBegin(w) \/ ComponentsBeginTorn(w)
  BY <1>1 DEF ComponentsBegin, ComponentsBeginTorn, Begin, router
<1>2. CASE ComponentsLogin(w)
  BY <1>2 DEF ComponentsLogin, LoggedIn, LoginFailed, JobEnds, router, compVars
<1>3. CASE ComponentsList(w) \/ Install(w) \/ Verify(w)
  BY <1>3 DEF ComponentsList, Install, Verify, GetComponents, Read, Answered, Failed, JobEnds,
              ToInstall, compVars
<1>4. CASE Commit(w)
  BY <1>4 DEF Commit, Failed, Ignored, JobEnds, router
<1>5. CASE Reconnect(w)
  BY <1>5 DEF Reconnect, LoggedIn, router, compVars
<1> QED
  BY <1>1, <1>2, <1>3, <1>4, <1>5 DEF ComponentsStep

(* While the job is under way, what it is having installed is all that is  *)
(* missing; nothing takes a component away.                                *)
Installing == {"c.install", "c.commit", "c.wait", "c.verify"}

CompInv ==
  /\ ComponentsHonest
  /\ \A w \in Workers : pc[w] \in Installing => Targets \ comps \subseteq missing[w]

LEMMA ComponentsHonestly ==
  ASSUME ControlOK, FirmwareOK, CompInv, NEW w \in Workers, ComponentsStep(w)
  PROVE  CompInv'
<1> USE DEF Installing, ControlOK, FirmwareOK
<1>1. PICK label : Framed(w, label)
  BY ComponentsFramed
<1>2. \A v \in Workers \ {w} : pc'[v] = pc[v]
  BY <1>1 DEF Framed
<1>3. SUFFICES /\ ComponentsHonest' /\ comps' = comps
               /\ pc'[w] \in Installing => Targets \ comps \subseteq missing'[w]
               /\ \A v \in Workers \ {w} : missing'[v] = missing[v]
  BY <1>2 DEF CompInv
<1> USE DEF CompInv, ComponentsHonest
<1>4. CASE ComponentsBegin(w) \/ ComponentsBeginTorn(w)
  BY <1>4 DEF ComponentsBegin, ComponentsBeginTorn, Begin, Goto, router
<1>5. CASE ComponentsLogin(w)
  BY <1>5 DEF ComponentsLogin, LoggedIn, LoginFailed, JobEnds, router, compVars, Goto
<1>6. CASE ComponentsList(w)
  BY <1>6 DEF ComponentsList, GetComponents, Read, Answered, Failed, JobEnds, ToInstall, Goto
<1>7. CASE Install(w)
  BY <1>7 DEF Install, Read, Answered, Failed, JobEnds, compVars, Goto, At
<1>8. CASE Commit(w)
  BY <1>8 DEF Commit, Failed, Ignored, JobEnds, router, Goto, At
<1>9. CASE Reconnect(w)
  BY <1>9 DEF Reconnect, LoggedIn, router, compVars, Goto, At
<1>10. CASE Verify(w)
  BY <1>10 DEF Verify, GetComponents, Read, Answered, Failed, JobEnds, Goto, At
<1> QED
  BY <1>4, <1>5, <1>6, <1>7, <1>8, <1>9, <1>10 DEF ComponentsStep

RestInv == ControlOK /\ HistoryOK /\ FirmwareOK /\ CompInv

LEMMA InitRest == Init => RestInv
<1> SUFFICES ASSUME Init PROVE RestInv
  OBVIOUS
<1> QED
  <2>1. strays \subseteq RouterNamed
    BY Registries DEF Init, InitVpn, PeerRec
  <2> QED
    BY <2>1, ControlInit, RouterNames DEF Init, InitRouter, InitVpn, InitComponents, RestInv, HistoryOK,
       FirmwareOK, CompInv, ComponentsHonest, Installing, Refs

LEMMA StepRest == ASSUME IInv, LiveInv, RestInv, [Next]_vars PROVE RestInv'
<1>1. ControlOK'
  BY ControlStep DEF RestInv
<1>2. ASSUME NEW w \in Workers, Step(w) PROVE HistoryOK' /\ FirmwareOK' /\ CompInv'
  <2>1. CASE VpnStep(w) /\ UNCHANGED <<compVars, dnsVars>>
    <3>1. PICK label : Framed(w, label) /\ UNCHANGED <<comps, staged>>
      BY <2>1, VpnFramed DEF IInv, RestInv, OnTunnels
    <3>2. pc'[w] \notin Installing
      BY <2>1, VpnKinds DEF Starts, Stays, Ends, RestInv, ControlOK, VpnLabels, JobLabels, Installing
    <3> QED
      BY <2>1, <3>1, <3>2, VpnHistory DEF RestInv, FirmwareOK, CompInv, ComponentsHonest, Framed,
         compVars, ControlOK
  <2>2. CASE ComponentsStep(w) /\ UNCHANGED <<vpnVars, dnsVars>>
    BY <2>2, ComponentsFirmware, ComponentsHonestly DEF RestInv, HistoryOK, vpnVars, history
  <2>3. CASE DnsStep(w) /\ UNCHANGED <<vpnVars, compVars>>
    <3>1. PICK label : Framed(w, label) /\ UNCHANGED <<comps, staged>>
      BY <2>3, DnsFramed DEF IInv, RestInv, OnNames
    <3>2. pc'[w] \notin Installing
      BY <2>3, DnsKinds DEF Labelled, RestInv, ControlOK, Labels, Installing
    <3> QED
      BY <2>3, <3>1, <3>2 DEF RestInv, HistoryOK, FirmwareOK, CompInv, ComponentsHonest, Framed,
         compVars, ControlOK, vpnVars, history
  <2> QED
    BY <1>2, <2>1, <2>2, <2>3 DEF Step
<1>3. CASE Reboot
  <2>1. /\ UNCHANGED <<pc, alone, settled, upset, strays, compStatus, missing, noConfig>>
        /\ comps \subseteq comps' /\ comps' \subseteq Targets /\ staged' \subseteq Targets
    BY <1>3 DEF Reboot, InstallReboot, PowerReboot, vpnVars, history, compVars, control, RestInv,
       FirmwareOK
  <2> QED
    BY <1>1, <2>1 DEF RestInv, HistoryOK, FirmwareOK, CompInv, ComponentsHonest
<1>4. CASE Dies
  BY <1>1, <1>4 DEF Dies, EndProcess, VpnCut, ComponentsCut, router, RestInv, HistoryOK, FirmwareOK,
     CompInv, ComponentsHonest, Installing
<1>5. CASE UNCHANGED vars
  BY <1>1, <1>5 DEF vars, vpnVars, history, compVars, control, router, RestInv, HistoryOK,
     FirmwareOK, CompInv, ComponentsHonest
<1> QED
  BY <1>1, <1>2, <1>3, <1>4, <1>5 DEF Next, Crash, Panic, RestInv

LEMMA Rests == Spec => [](IInv /\ LiveInv /\ RestInv)
BY InitIInv, InitLive, InitRest, StepIInv, StutterIInv, StepLive, StutterLive, StepRest, PTL DEF Spec

(* The types of everything the jobs share: what is on the router besides   *)
(* the owner's settings, whatever peers.json holds between two writes, the *)
(* names the workers carry and the bounds on requests and failures.        *)
THEOREM TypesKept == Spec => []TypeOK
<1>1. IInv /\ LiveInv /\ RestInv => TypeOK
  <2> SUFFICES ASSUME IInv, LiveInv, RestInv PROVE TypeOK
    OBVIOUS
  <2>1. \A c \in {running, startup} :
          /\ DOMAIN c.ifs \subseteq RouterNamed /\ \A f \in DOMAIN c.ifs : c.ifs[f] \in Iface
          /\ c.dns \subseteq OwnerDns \cup Upstreams /\ c.routes \in BOOLEAN
    BY DEF IInv, RouterSafe, Respects
  <2>2. \A l \in {LoadPeers} \cup {list[w] : w \in Workers} : \A p \in DOMAIN l :
          p \in Peers /\ l[p] \in PeerRec
    <3>1. \A l \in {LoadPeers} \cup {list[w] : w \in Workers} : l \in Lists
      BY LoadListed DEF IInv, Typed
    <3> QED
      BY <3>1, ListsMembers
  <2>3. \A w \in Workers : {ifn[w], old[w], settled[who[w]]} \subseteq RouterNamed \cup {NoIf}
    BY DEF IInv, Typed, RestInv, HistoryOK, Refs
  <2>4. /\ vpnStatus \in [Peers -> {"idle", "running", "failed", "completed"}]
        /\ op \in [Workers -> {"none", "apply", "remove", "import", "edit"}]
        /\ who \in [Workers -> Peers] /\ step \in [Workers -> 1 .. Len(Setup)]
    BY DEF LiveInv, Shape, Jobs, IInv, Typed
  <2>5. FirmwareOK /\ ControlOK /\ HistoryOK /\ TodelOK
    BY DEF RestInv, IInv
  <2> QED
    BY <2>1, <2>2, <2>3, <2>4, <2>5 DEF TypeOK, FirmwareOK, ControlOK, HistoryOK, TodelOK
<1> QED
  BY <1>1, Rests, PTL

(* "completed" is written only over a router that has every component,     *)
(* whatever the other jobs, a reboot that installs a part, or a crash do   *)
(* between the installation and the answer (configureRouterComponents).    *)
THEOREM ComponentsAlwaysHonest == Spec => []ComponentsHonest
<1>1. RestInv => ComponentsHonest
  BY DEF RestInv, CompInv
<1> QED
  BY <1>1, Rests, PTL

-----------------------------------------------------------------------------
(* Name resolution.  A request that is alone and has a session finds on    *)
(* the router what it has put there: only a reboot could take it away, and *)
(* that ends the session.                                                  *)
DnsDone(w) ==
  /\ pc[w] = "d.save" => Upstreams \subseteq running.dns
  /\ pc[w] = "r.save" => running.routes = enabled[w]

Unanswered == [dns |-> NoAnswer, routes |-> NoAnswer]

DnsInv ==
  /\ DnsSticks
  /\ (\E w \in Workers : DnsBusy(w)) => answered = Unanswered
  /\ \A w \in dnsAlone : w \in Workers /\ DnsBusy(w) /\ \A v \in Workers \ {w} : ~DnsBusy(v)
  /\ \A w \in dnsAlone \cap sessions : clean[w] => DnsDone(w)

(* What is no step of theirs leaves the requests where they are. *)
LEMMA DnsUndisturbed ==
  ASSUME ControlOK, DnsInv, NEW w \in Workers, NEW label, Framed(w, label), UNCHANGED dnsVars,
         ~DnsBusy(w), label \notin Labels,
         running'.dns = running.dns, running'.routes = running.routes, startup' \in {startup, running}
  PROVE  DnsInv'
<1>1. DnsSticks'
  BY DEF DnsInv, DnsSticks, dnsVars
<1>2. \A v \in Workers : DnsBusy(v)' <=> DnsBusy(v)
  BY DEF Framed, ControlOK, DnsBusy
<1>3. \A v \in Workers \ {w} : pc'[v] = pc[v]
  BY DEF Framed, ControlOK
<1>4. \A v \in dnsAlone' : v \in Workers \ {w}
  BY DEF DnsInv, dnsVars
<1> QED
  BY <1>1, <1>2, <1>3, <1>4 DEF DnsInv, DnsDone, Framed, dnsVars, dnsLocals

(* A request goes on or ends. *)
LEMMA DnsProceeds ==
  ASSUME ControlOK, DnsInv, NEW w \in Workers, NEW label \in Labels \cup {"idle"},
         Framed(w, label), DnsBusy(w),
         label # "idle" => UNCHANGED <<dnsAlone, answered>>,
         label = "idle" => /\ dnsAlone' = dnsAlone \ {w}
                           /\ UNCHANGED answered \/ (w \in dnsAlone /\ DnsSticks'),
         w \in dnsAlone \cap sessions' /\ clean'[w] /\ label # "idle" => DnsDone(w)'
  PROVE  DnsInv'
<1>1. answered = Unanswered /\ dnsAlone \subseteq {w}
  BY DEF DnsInv
<1>2. \A v \in Workers \ {w} : DnsBusy(v)' <=> DnsBusy(v)
  BY DEF Framed, ControlOK, DnsBusy
<1>3. DnsBusy(w)' <=> label # "idle"
  BY DEF Framed, ControlOK, DnsBusy, Labels
<1>4. DnsSticks'
  BY <1>1 DEF DnsSticks, Unanswered
<1>5. (\E v \in Workers : DnsBusy(v)') => answered' = Unanswered
  BY <1>1, <1>2, <1>3 DEF DnsInv
<1>6. \A v \in dnsAlone' : v = w /\ DnsBusy(v)' /\ \A u \in Workers \ {v} : ~DnsBusy(u)'
  BY <1>1, <1>2, <1>3 DEF DnsInv
<1>7. \A v \in dnsAlone' \cap sessions' : clean'[v] => DnsDone(v)'
  BY <1>1, <1>3, <1>6
<1> QED
  BY <1>4, <1>5, <1>6, <1>7 DEF DnsInv

LEMMA DnsStarts ==
  ASSUME ControlOK, DnsInv, NEW w \in Workers, DnsBegin(w) \/ RoutesBegin(w)
  PROVE  DnsInv'
<1>1. PICK label \in {"d.login", "r.login"} : Begin(w, label) /\ DnsMeets(w)
  BY DEF DnsBegin, RoutesBegin
<1>2. Framed(w, label) /\ w \notin sessions'
  BY <1>1, BeginFramed DEF Begin, Comes, At, ControlOK
<1>3. answered' = Unanswered
  BY <1>1 DEF DnsMeets, Unanswered
<1>4. DnsBusy(w)' /\ \A v \in Workers \ {w} : DnsBusy(v)' <=> DnsBusy(v)
  BY <1>2 DEF Framed, ControlOK, DnsBusy, Labels
<1>5. dnsAlone' \subseteq {w} /\ \A v \in dnsAlone' : \A u \in Workers \ {v} : ~DnsBusy(u)'
  BY <1>1, <1>4 DEF DnsMeets
<1> QED
  BY <1>2, <1>3, <1>4, <1>5 DEF DnsInv, DnsSticks, Unanswered

LEMMA DnsSteps ==
  ASSUME ControlOK, RouterSafe, DnsInv, NEW w \in Workers, DnsStep(w)
  PROVE  DnsInv'
<1> USE DEF ControlOK, DnsBusy, Labels, At
<1>1. CASE DnsBegin(w) \/ RoutesBegin(w)
  BY <1>1, DnsStarts
<1>2. CASE DnsLogin(w) \/ RoutesLogin(w)
  <2>1. ASSUME NEW label \in {"d.delete", "r.set"}, LoggedIn(w, label), UNCHANGED dnsVars
        PROVE  DnsInv'
    BY <1>2, <2>1, LoginFramed, DnsProceeds DEF DnsLogin, RoutesLogin, dnsVars, DnsDone, Framed
  <2>2. CASE LoginFailed(w, "idle") /\ Refuse(w)
    BY <1>2, <2>2, BeginFramed, DnsProceeds DEF DnsLogin, RoutesLogin, Refuse, Forget
  <2> QED
    BY <1>2, <2>1, <2>2 DEF DnsLogin, RoutesLogin
<1>3. ASSUME NEW new, NEW label \in Labels, Done(w, new, label) \/ Failed(w, new, label), DnsBusy(w),
             UNCHANGED <<dnsAlone, answered>>, Answered(w, new, label) => DnsDone(w)'
      PROVE  DnsInv'
  <2>1. Framed(w, label)
    BY <1>3, CallFramed
  <2>2. clean'[w] => DnsDone(w)'
    BY <1>3 DEF Done, Ignored, Failed
  <2> QED
    BY <1>3, <2>1, <2>2, DnsProceeds
<1>4. CASE DeleteUpstream(w)
  <2>1. PICK a \in todel[w] :
          \/ \E label \in {"d.add", "d.delete"} : Done(w, [running EXCEPT !.dns = @ \ {a}], label)
          \/ Failed(w, [running EXCEPT !.dns = @ \ {a}], "d.save")
    BY <1>4 DEF DeleteUpstream
  <2> DEFINE new == [running EXCEPT !.dns = @ \ {a}]
  <2>2. pc[w] = "d.delete" /\ UNCHANGED <<dnsAlone, answered>>
    BY <1>4 DEF DeleteUpstream
  <2>3. CASE \E label \in {"d.add", "d.delete"} : Done(w, new, label)
    <3>1. PICK label \in {"d.add", "d.delete"} : Done(w, new, label)
      BY <2>3
    <3> HIDE DEF new
    <3>2. Framed(w, label)
      BY <3>1, CallFramed
    <3> QED
      BY <2>2, <3>2, DnsProceeds DEF Framed, DnsDone
  <2>4. CASE Failed(w, new, "d.save")
    <3> HIDE DEF new
    <3>1. Framed(w, "d.save") /\ ~clean'[w]
      BY <2>4, CallFramed DEF Failed
    <3> QED
      BY <2>2, <3>1, DnsProceeds
  <2> QED
    BY <2>1, <2>3, <2>4
<1>5. CASE AddUpstreams(w)
  <2> DEFINE new == [running EXCEPT !.dns = @ \cup Upstreams]
  <2>1. Upstreams \subseteq new.dns
    BY DEF RouterSafe, Respects
  <2>2. Answered(w, new, "d.save") => DnsDone(w)'
    BY <2>1 DEF Answered, Goto, DnsDone
  <2> QED
    BY <1>3, <1>5, <2>2 DEF AddUpstreams, dnsVars
<1>6. CASE RoutesSet(w)
  <2> DEFINE new == [running EXCEPT !.routes = enabled[w]]
  <2>1. new.routes = enabled[w]
    BY DEF RouterSafe, Respects
  <2>2. CASE Done(w, new, "r.save") /\ UNCHANGED dnsVars
    <3>1. Answered(w, new, "r.save") => DnsDone(w)'
      BY <2>1, <2>2 DEF Answered, Goto, DnsDone, dnsVars, dnsLocals
    <3> QED
      BY <1>3, <1>6, <2>2, <3>1 DEF RoutesSet, dnsVars
  <2>3. CASE Failed(w, new, "idle") /\ Refuse(w)
    <3> HIDE DEF new
    <3>1. Framed(w, "idle")
      BY <2>3, CallFramed
    <3> QED
      BY <1>6, <2>3, <3>1, DnsProceeds DEF RoutesSet, Refuse, Forget
  <2> QED
    BY <1>6, <2>2, <2>3 DEF RoutesSet
<1>7. CASE DnsSave(w) \/ RoutesSave(w)
  <2>1. Framed(w, "idle") /\ dnsAlone' = dnsAlone \ {w} /\ DnsBusy(w)
    BY <1>7, SaveFramed DEF DnsSave, RoutesSave, Refuse, Forget
  <2>2. ASSUME answered' # answered PROVE w \in dnsAlone /\ DnsSticks'
    <3>1. w \in dnsAlone /\ clean'[w] /\ (Saved(w, "idle") \/ SaveFailed(w, "idle"))
      BY <1>7, <2>2 DEF DnsSave, RoutesSave, Refuse
    <3>2. w \in sessions /\ startup' = running /\ running' = running /\ clean[w]
      BY <3>1 DEF Saved, SaveFailed, Ignored
    <3>3. DnsDone(w) /\ answered = Unanswered
      BY <2>1, <3>1, <3>2 DEF DnsInv
    <3>4. CASE DnsSave(w)
      <4>1. answered' = [Unanswered EXCEPT !.dns = Upstreams] /\ Upstreams \subseteq running.dns
        BY <2>2, <3>3, <3>4 DEF DnsSave, DnsDone
      <4> QED
        BY <3>1, <3>2, <4>1 DEF DnsSticks, Unanswered
    <3>5. CASE RoutesSave(w)
      <4>1. answered' = [Unanswered EXCEPT !.routes = enabled[w]] /\ running.routes = enabled[w]
        BY <2>2, <3>3, <3>5 DEF RoutesSave, DnsDone, Refuse
      <4> QED
        BY <3>1, <3>2, <4>1 DEF DnsSticks, Unanswered
    <3> QED
      BY <1>7, <3>4, <3>5
  <2> QED
    BY <2>1, <2>2, DnsProceeds
<1> QED
  BY <1>1, <1>2, <1>4, <1>5, <1>6, <1>7 DEF DnsStep

LEMMA InitDnsInv == Init => DnsInv
BY DEF Init, InitRouter, InitDns, DnsInv, DnsSticks, DnsBusy, Labels

LEMMA StepDnsInv == ASSUME IInv, RestInv, DnsInv, [Next]_vars PROVE DnsInv'
<1> USE DEF DnsBusy, Labels
<1>1. ASSUME NEW w \in Workers, Step(w) PROVE DnsInv'
  <2>1. CASE VpnStep(w) /\ UNCHANGED <<compVars, dnsVars>>
    <3>1. PICK label : Framed(w, label) /\ OnTunnels
      BY <2>1, VpnFramed DEF IInv, RestInv
    <3>2. pc[w] \notin Labels /\ label \notin Labels
      BY <2>1, <3>1, VpnKinds DEF Starts, Stays, Ends, VpnLabels, JobLabels, RestInv, ControlOK, Framed
    <3> QED
      BY <2>1, <3>1, <3>2, DnsUndisturbed DEF OnTunnels, RestInv
  <2>2. CASE ComponentsStep(w) /\ UNCHANGED <<vpnVars, dnsVars>>
    <3>1. PICK label : Framed(w, label) /\ UNCHANGED <<running, startup>>
      BY <2>2, ComponentsFramed DEF RestInv
    <3>2. pc[w] \notin Labels /\ label \notin Labels
      BY <2>2, <3>1, ComponentKinds DEF Labelled, ComponentLabels, RestInv, ControlOK, Framed
    <3> QED
      BY <2>2, <3>1, <3>2, DnsUndisturbed DEF RestInv
  <2>3. CASE DnsStep(w)
    BY <2>3, DnsSteps DEF IInv, RestInv
  <2> QED
    BY <1>1, <2>1, <2>2, <2>3 DEF Step
<1>2. CASE Reboot
  BY <1>2 DEF Reboot, InstallReboot, PowerReboot, control, DnsInv, DnsSticks, dnsVars, dnsLocals
<1>3. CASE Dies
  BY <1>3 DEF Dies, EndProcess, DnsCut, router, DnsInv, DnsSticks
<1>4. CASE UNCHANGED vars
  BY <1>4 DEF vars, router, control, DnsInv, DnsSticks, DnsDone, dnsVars, dnsLocals
<1> QED
  BY <1>1, <1>2, <1>3, <1>4 DEF Next, Crash, Panic

(* What a request about name resolution promised, when it met no other and *)
(* none of its calls failed, stays on the router, running and saved, until *)
(* the next such request: no tunnel job, installation, reboot or crash of  *)
(* the server takes it back (configurePeerDns, configurePeerDnsRoutes).    *)
THEOREM DnsAlwaysSticks == Spec => []DnsSticks
<1>1. DnsInv => DnsSticks
  BY DEF DnsInv
<1> QED
  BY <1>1, InitDnsInv, StepDnsInv, Rests, PTL DEF Spec

-----------------------------------------------------------------------------
(* Tunnels: which requests stand where, and who is alone. *)
Makers == {"apply", "import"}

Fits(label, o) ==
  /\ o # "none" <=> label \in VpnLabels
  /\ label = "connect" => o = "apply"
  /\ label \in {"login", "record"} => o \in Makers \cup {"remove"}
  /\ label = "remove" => o = "remove"
  /\ label \in {"list", "removeold", "import", "orphan", "setup", "save"} => o \in Makers

Stations ==
  /\ \A w \in Workers :
       /\ Fits(pc[w], op[w])
       /\ pc[w] # "setup" => step[w] = 1
       /\ Busy(w) /\ alone[w] => \A v \in Workers \ {w} : ~Busy(v)
  /\ \A p \in Peers : settled[p] # NoIf => \A w \in Workers : ~Busy(w)

(* A request begins, goes on, or ends; the history says so. *)
Opens(w) ==
  /\ \A v \in Workers \ {w} : ~alone'[v]
  /\ alone'[w] => \A v \in Workers \ {w} : ~Busy(v)
  /\ settled' = [p \in Peers |-> NoIf]

Continues(w) == Busy(w) /\ UNCHANGED <<alone, settled>>

Closes(w) ==
  /\ Busy(w) /\ ~Busy(w)'
  /\ \A v \in Workers \ {w} : alone'[v] = alone[v]
  /\ UNCHANGED settled \/ alone[w]

LEMMA StationsMove ==
  ASSUME ControlOK, Stations, NEW w \in Workers, NEW label, Framed(w, label),
         \A v \in Workers \ {w} : op'[v] = op[v] /\ step'[v] = step[v],
         Fits(label, op'[w]), label # "setup" => step'[w] = 1,
         Opens(w) \/ Continues(w) \/ Closes(w)
  PROVE  Stations'
<1>1. pc'[w] = label /\ \A v \in Workers \ {w} : pc'[v] = pc[v] /\ (Busy(v)' <=> Busy(v))
  BY DEF Framed, ControlOK, Busy
<1>2. \A v \in Workers : Fits(pc[v], op[v])' /\ (pc'[v] # "setup" => step'[v] = 1)
  BY <1>1 DEF Stations, Fits
<1>3. CASE Opens(w)
  BY <1>1, <1>2, <1>3 DEF Stations, Opens
<1>4. CASE Continues(w)
  BY <1>1, <1>2, <1>4 DEF Stations, Continues
<1>5. CASE Closes(w)
  BY <1>1, <1>2, <1>5 DEF Stations, Closes
<1> QED
  BY <1>3, <1>4, <1>5

LEMMA OpensIn ==
  ASSUME HistoryOK, NEW w \in Workers,
         ApplyBegin(w) \/ RemoveBegin(w) \/ ImportBegin(w) \/ UpdatePeer(w) \/ RemovePeer(w)
  PROVE  Opens(w)
BY DEF ApplyBegin, RemoveBegin, ImportBegin, UpdatePeer, RemovePeer, Meets, Opens

LEMMA StationsBegin ==
  ASSUME ControlOK, Shape, Typed, HistoryOK, Stations, NEW w \in Workers,
         ApplyBegin(w) \/ RemoveBegin(w) \/ ImportBegin(w) \/ UpdatePeer(w) \/ RemovePeer(w)
  PROVE  Stations'
<1> DEFINE Kinds == {<<"apply", "connect">>, <<"remove", "login">>, <<"import", "login">>,
                     <<"edit", "trunc">>}
<1>1. PICK o, p, label : <<o, label>> \in Kinds /\ Request(w, o, p, label)
  <2>1. \/ \E p : Request(w, "apply", p, "connect")
        \/ \E p : Request(w, "remove", p, "login")
        \/ \E p : Request(w, "import", p, "login")
        \/ \E p : Request(w, "edit", p, "trunc")
    BY DEF ApplyBegin, RemoveBegin, ImportBegin, UpdatePeer, RemovePeer
  <2>2. {<<"apply", "connect">>, <<"remove", "login">>, <<"import", "login">>, <<"edit", "trunc">>}
          \subseteq Kinds
    OBVIOUS
  <2> HIDE DEF Kinds
  <2> QED
    BY <2>1, <2>2
<1>2. Framed(w, label) /\ pc[w] = "idle"
  BY <1>1, BeginFramed DEF Request, Begin, Comes, At
<1>3. op' = [op EXCEPT ![w] = o] /\ step' = step
  BY <1>1 DEF Request
<1>4. Fits(label, o) /\ label # "setup"
  BY <1>1 DEF Fits, VpnLabels, JobLabels, Makers
<1>5. step[w] = 1
  BY <1>2 DEF Stations
<1> HIDE DEF Kinds
<1> QED
  BY <1>2, <1>3, <1>4, <1>5, OpensIn, StationsMove DEF Shape

LEMMA StationsLeave ==
  ASSUME ControlOK, Shape, Typed, HistoryOK, Stations, NEW w \in Workers, pc[w] \in VpnLabels,
         Framed(w, "idle"), Leave(w), UNCHANGED settled \/ alone[w]
  PROVE  Stations'
<1>1. Fits("idle", op'[w]) /\ step'[w] = 1
  BY DEF Leave, Fits, Shape, Typed, VpnLabels, JobLabels
<1>2. \A v \in Workers \ {w} : op'[v] = op[v] /\ step'[v] = step[v]
  BY DEF Leave, Shape, Typed
<1>3. Closes(w)
  BY DEF Closes, Leave, Busy, Stations, Fits, Shape, HistoryOK
<1> QED
  BY <1>1, <1>2, <1>3, StationsMove

LEMMA StationsStay ==
  ASSUME ControlOK, Shape, Typed, Stations, NEW w \in Workers, pc[w] \in VpnLabels, NEW label,
         Framed(w, label), UNCHANGED <<op, alone, settled>>, Fits(label, op[w]),
         label # "setup" => step'[w] = 1, \A v \in Workers \ {w} : step'[v] = step[v]
  PROVE  Stations'
<1>1. Continues(w)
  BY DEF Continues, Busy, Stations, Fits
<1> QED
  BY <1>1, StationsMove

LEMMA VpnStations ==
  ASSUME RouterSafe, ControlOK, Shape, Typed, HistoryOK, Stations, NEW w \in Workers, VpnStep(w)
  PROVE  Stations'
<1> USE DEF VpnLabels, JobLabels, At
<1>1. Fits(pc[w], op[w]) /\ (pc[w] # "setup" => step[w] = 1)
  BY DEF Stations
<1>2. ASSUME GiveUp(w), Framed(w, "idle"), pc[w] \in VpnLabels PROVE Stations'
  BY <1>2, StationsLeave DEF GiveUp
<1>3. ASSUME NEW label, Framed(w, label), Same(w) \/ UNCHANGED history \/ UNCHANGED vpnVars,
             UNCHANGED <<op, step>>, pc[w] \in VpnLabels \ {"setup"}, Fits(label, op[w])
      PROVE  Stations'
  BY <1>1, <1>3, StationsStay DEF Same, vpnVars, history
<1>4. CASE ApplyBegin(w) \/ RemoveBegin(w) \/ ImportBegin(w) \/ UpdatePeer(w) \/ RemovePeer(w)
  BY <1>4, StationsBegin
<1>5. CASE Connect(w) \/ Login(w) \/ Elsewhere(w)
  <2>1. CASE LoginFailed(w, "idle") /\ GiveUp(w)
    BY <1>2, <1>5, <2>1, BeginFramed DEF Connect, Login, Elsewhere
  <2>2. ASSUME NEW label \in {"login", "remove", "list"}, LoggedIn(w, label), UNCHANGED vpnVars,
               Fits(label, op[w])
        PROVE  Stations'
    BY <1>3, <1>5, <2>2, LoginFramed DEF Connect, Login, Elsewhere, vpnVars, vpnLocals
  <2>3. CASE Local(w, "record") /\ UNCHANGED <<op, step, alone, settled>> /\ Elsewhere(w)
    <3>1. Framed(w, "record") /\ Fits("record", op[w])
      BY <1>1, <2>3, BeginFramed DEF Elsewhere, Fits, Makers
    <3> QED
      BY <1>1, <2>3, <3>1, StationsStay DEF Elsewhere
  <2> QED
    BY <1>1, <1>5, <2>1, <2>2, <2>3 DEF Connect, Login, Elsewhere, Fits, Makers
<1>6. CASE RemoveInterface(w)
  <2> DEFINE new == DropIf(list[w][who[w]].ifn)
  <2>1. CASE Done(w, new, "record") /\ Same(w) /\ UNCHANGED vpnLocals
    BY <1>1, <1>3, <1>6, <2>1, CallFramed DEF RemoveInterface, vpnLocals, Fits, Makers
  <2>2. CASE Failed(w, new, "idle") /\ GiveUp(w)
    BY <1>2, <1>6, <2>2, CallFramed DEF RemoveInterface
  <2> QED
    BY <1>6, <2>1, <2>2 DEF RemoveInterface
<1>7. CASE ListInterfaces(w)
  <2>1. \E label \in {"removeold", "import"} : Framed(w, label)
    BY <1>7, ReadFramed DEF ListInterfaces
  <2> QED
    BY <1>1, <1>3, <1>7, <2>1 DEF ListInterfaces, Fits, Makers
<1>8. CASE RemoveOld(w)
  <2>1. Framed(w, "import") /\ Fits("import", op[w])
    BY <1>1, <1>8, CallFramed DEF RemoveOld, Fits, Makers
  <2> QED
    BY <1>1, <1>8, <2>1, StationsStay DEF RemoveOld
<1>9. CASE Import(w)
  <2>1. ASSUME NEW new, Answered(w, new, "orphan"), Same(w), UNCHANGED <<op, step>> PROVE Stations'
    BY <1>1, <1>3, <1>9, <2>1, CallFramed DEF Import, Fits, Makers
  <2>2. ASSUME NEW new, Failed(w, new, "idle"), GiveUp(w) PROVE Stations'
    BY <1>2, <1>9, <2>2, CallFramed DEF Import
  <2> QED
    BY <1>9, <2>1, <2>2 DEF Import
<1>10. CASE AdoptOrphan(w)
  <2>1. PICK new : Answered(w, new, "setup") \/ Failed(w, new, "setup")
    BY <1>10 DEF AdoptOrphan
  <2>2. Framed(w, "setup")
    BY <2>1, CallFramed
  <2> QED
    BY <1>1, <1>3, <1>10, <2>2 DEF AdoptOrphan, Fits, Makers
<1>11. CASE SetupCall(w)
  <2> DEFINE next == IF step[w] = Len(Setup) THEN "save" ELSE "setup"
  <2>1. PICK new : Done(w, new, next) \/ Failed(w, new, next)
    BY <1>11 DEF SetupCall
  <2>2. Framed(w, next)
    <3> HIDE DEF next
    <3> QED
      BY <2>1, CallFramed
  <2>3. /\ next # "setup" => step'[w] = 1
        /\ \A v \in Workers \ {w} : step'[v] = step[v]
    BY <1>11 DEF SetupCall, Typed
  <2>4. UNCHANGED <<op, alone, settled>> /\ Fits(next, op[w]) /\ pc[w] \in VpnLabels
    BY <1>1, <1>11 DEF SetupCall, Same, Fits, Makers
  <2> HIDE DEF next
  <2> QED
    BY <2>2, <2>3, <2>4, StationsStay
<1>12. CASE SaveRouter(w)
  BY <1>1, <1>3, <1>12, SaveFramed DEF SaveRouter, vpnLocals, Fits, Makers
<1>13. CASE Record(w) \/ PeersTrunc(w) \/ PeersWrite(w) \/ PeersFailed(w)
  <2>1. \E label \in {"trunc", "write", "report"} : Framed(w, label)
    BY <1>13, BeginFramed DEF Record, PeersTrunc, PeersWrite, PeersFailed
  <2> QED
    BY <1>1, <1>3, <1>13, <2>1 DEF Record, PeersTrunc, PeersWrite, PeersFailed, vpnLocals, Fits
<1>14. CASE Finish(w)
  BY <1>14, BeginFramed, StationsLeave DEF Finish
<1>15. CASE SkipPeer(w)
  <2>1. Framed(w, "setup") /\ \A v \in Workers \ {w} : step'[v] = step[v]
    BY <1>15, BeginFramed DEF SkipPeer, Typed
  <2> QED
    BY <1>1, <1>15, <2>1, StationsStay DEF SkipPeer, Same
<1> QED
  BY <1>4, <1>5, <1>6, <1>7, <1>8, <1>9, <1>10, <1>11, <1>12, <1>13, <1>14, <1>15 DEF VpnStep

LEMMA OtherSteps ==
  ASSUME ControlOK, RouterSafe, NEW w \in Workers, ComponentsStep(w) \/ DnsStep(w)
  PROVE  \E label :
           /\ Framed(w, label) /\ pc[w] \notin VpnLabels /\ label \notin VpnLabels
           /\ running'.ifs = running.ifs /\ startup' \in {startup, running}
<1>1. PICK label : Framed(w, label) /\ running'.ifs = running.ifs /\ startup' \in {startup, running}
  BY ComponentsFramed, DnsFramed DEF OnNames
<1>2. pc[w] \notin VpnLabels /\ pc'[w] \notin VpnLabels
  BY ComponentKinds, DnsKinds DEF Labelled, ComponentLabels, Labels, VpnLabels, JobLabels, ControlOK
<1> QED
  BY <1>1, <1>2 DEF Framed, ControlOK

LEMMA InitStations == Init => Stations
BY DEF Init, InitRouter, InitVpn, Stations, Fits, VpnLabels, JobLabels, Busy

LEMMA StepStations == ASSUME IInv, LiveInv, RestInv, Stations, [Next]_vars PROVE Stations'
<1>1. ASSUME NEW w \in Workers, Step(w) PROVE Stations'
  <2>1. CASE VpnStep(w)
    BY <2>1, VpnStations DEF IInv, LiveInv, RestInv
  <2>2. CASE (ComponentsStep(w) \/ DnsStep(w)) /\ UNCHANGED vpnVars
    <3>1. PICK label : Framed(w, label) /\ pc[w] \notin VpnLabels /\ label \notin VpnLabels
      BY <2>2, OtherSteps DEF IInv, RestInv
    <3>2. \A v \in Workers : Fits(pc'[v], op[v]) /\ (pc'[v] # "setup" => step[v] = 1)
      BY <3>1 DEF Framed, RestInv, ControlOK, Stations, Fits, VpnLabels, JobLabels
    <3> QED
      BY <2>2, <3>2 DEF Stations, Busy, vpnVars, vpnLocals, history
  <2> QED
    BY <1>1, <2>1, <2>2 DEF Step
<1>2. CASE Reboot \/ UNCHANGED vars
  BY <1>2 DEF Reboot, InstallReboot, PowerReboot, control, vars, vpnVars, vpnLocals, history,
     Stations, Busy
<1>3. CASE Dies
  BY <1>3 DEF Dies, EndProcess, VpnCut, Stations, Busy, Fits, VpnLabels, JobLabels
<1> QED
  BY <1>1, <1>2, <1>3 DEF Next, Crash, Panic

-----------------------------------------------------------------------------
(* The import of a tunnel that nobody meets and of which no call has       *)
(* failed: how far the tunnel has come on the router, and in peers.json.   *)
Tunnel(p, name) == [desc |-> name, key |-> p, has |-> {"ip", "peer", "up"}]

SetUpTo(n, i, name) ==
  /\ n > 1 => i.desc = name
  /\ n > 2 => "ip" \in i.has
  /\ n > 4 => "peer" \in i.has
  /\ n > 5 => "up" \in i.has

HasKey(w, c) == ifn[w] \in DOMAIN c.ifs /\ c.ifs[ifn[w]].key = who[w]

Made(w, c) == HasKey(w, c) /\ c.ifs[ifn[w]] = Tunnel(who[w], Named(w))

MadeSoFar(w) ==
  /\ pc[w] \in {"orphan", "setup", "save"} /\ w \in sessions => HasKey(w, running)
  /\ pc[w] = "setup" /\ w \in sessions => SetUpTo(step[w], running.ifs[ifn[w]], Named(w))
  /\ pc[w] = "save" /\ w \in sessions => SetUpTo(6, running.ifs[ifn[w]], Named(w))
  /\ pc[w] \in {"record", "trunc", "write", "report"} => Made(w, running) /\ Made(w, startup)
  /\ pc[w] \in {"trunc", "write", "report"} =>
       who[w] \in DOMAIN list[w] /\ list[w][who[w]].ifn = ifn[w]
  /\ pc[w] = "report" => LoadPeers = list[w]

Carries(w) == pc[w] \in JobLabels => list[w] = LoadPeers

ImportInv ==
  /\ ImportSticks
  /\ \A w \in Workers : Busy(w) /\ alone[w] => Carries(w)
  /\ \A w \in Workers : alone[w] /\ clean[w] /\ op[w] \in Makers /\ Here(w) => MadeSoFar(w)

LEMMA TornUnlisted == Torn \notin Lists
BY TornApart DEF Lists

LEMMA MakersBusy == ASSUME NEW w, op[w] \in Makers PROVE Busy(w)
BY DEF Makers, Busy

(* A worker that is busy and alone is the only one the invariant is about. *)
LEMMA ImportMoves ==
  ASSUME Stations, ImportInv, NEW w \in Workers, Busy(w), UNCHANGED settled,
         \A v \in Workers \ {w} : op'[v] = op[v] /\ alone'[v] = alone[v],
         Busy(w)' /\ alone'[w] => Carries(w)',
         alone'[w] /\ clean'[w] /\ op'[w] \in Makers /\ Here(w)' => MadeSoFar(w)'
  PROVE  ImportInv'
<1>1. \A p \in Peers : settled[p] = NoIf
  BY DEF Stations
<1>2. ImportSticks'
  BY <1>1 DEF ImportSticks
<1>3. \A v \in Workers \ {w} : ~(Busy(v)' /\ alone'[v])
  BY DEF Stations, Busy
<1> QED
  BY <1>2, <1>3, MakersBusy DEF ImportInv, Busy, Makers

LEMMA ImportUndisturbed ==
  ASSUME ControlOK, Stations, ImportInv, NEW w \in Workers, NEW label, Framed(w, label),
         UNCHANGED vpnVars, pc[w] \notin VpnLabels, label \notin VpnLabels,
         running'.ifs = running.ifs, startup' \in {startup, running}
  PROVE  ImportInv'
<1> USE DEF vpnVars, vpnLocals, registry, history
<1>1. \A v \in Workers : Busy(v)' => v # w /\ pc'[v] = pc[v] /\ clean'[v] = clean[v]
                                      /\ (v \in sessions' <=> v \in sessions)
  BY DEF Stations, Fits, Busy, Framed, ControlOK
<1>2. ImportSticks'
  BY DEF ImportInv, ImportSticks, LoadPeers
<1>3. ASSUME NEW v \in Workers, Busy(v)', alone'[v] PROVE Carries(v)'
  BY <1>1, <1>3 DEF ImportInv, Carries, LoadPeers, Busy
<1>4. ASSUME NEW v \in Workers, alone'[v], clean'[v], op'[v] \in Makers, Here(v)' PROVE MadeSoFar(v)'
  <2>1. Busy(v)' /\ MadeSoFar(v)
    BY <1>1, <1>4, MakersBusy DEF ImportInv, Busy, Makers, Here
  <2> QED
    BY <1>1, <2>1 DEF MadeSoFar, HasKey, Made, Named, LoadPeers
<1> QED
  BY <1>2, <1>3, <1>4 DEF ImportInv

LEMMA ImportBegins ==
  ASSUME IInv, ControlOK, HistoryOK, Shape, ImportInv, NEW w \in Workers,
         ApplyBegin(w) \/ RemoveBegin(w) \/ ImportBegin(w) \/ UpdatePeer(w) \/ RemovePeer(w)
  PROVE  ImportInv'
<1> DEFINE Kinds == {<<"apply", "connect">>, <<"remove", "login">>, <<"import", "login">>,
                     <<"edit", "trunc">>}
<1>1. Opens(w) /\ UNCHANGED peersFile
  BY OpensIn DEF ApplyBegin, RemoveBegin, ImportBegin, UpdatePeer, RemovePeer, registry
<1>2. ImportSticks'
  BY <1>1 DEF ImportSticks, Opens
<1>3. Carries(w)' /\ (op'[w] \in Makers => MadeSoFar(w)')
  <2> USE DEF Request, Begin, Goto, ControlOK, Shape, IInv, Typed, Carries, MadeSoFar, LoadPeers
  <2>1. CASE ApplyBegin(w)
    BY <1>1, <2>1 DEF ApplyBegin
  <2>2. CASE RemoveBegin(w)
    BY <1>1, <2>2 DEF RemoveBegin
  <2>3. CASE ImportBegin(w)
    BY <1>1, <2>3 DEF ImportBegin
  <2>4. CASE UpdatePeer(w) \/ RemovePeer(w)
    <3>1. pc'[w] = "trunc" /\ op'[w] = "edit"
      BY <2>4 DEF UpdatePeer, RemovePeer
    <3> QED
      BY <3>1 DEF JobLabels, Makers
  <2> QED
    BY <2>1, <2>2, <2>3, <2>4
<1> QED
  BY <1>1, <1>2, <1>3 DEF ImportInv, Opens

(* The worker is done with its request. *)
LEMMA ImportEnds ==
  ASSUME Shape, HistoryOK, Stations, ImportInv, NEW w \in Workers, Busy(w), GiveUp(w)
  PROVE  ImportInv'
<1>1. op'[w] = "none" /\ \A v \in Workers \ {w} : op'[v] = op[v] /\ alone'[v] = alone[v]
  BY DEF GiveUp, Leave, Shape, HistoryOK
<1> QED
  BY <1>1, ImportMoves DEF GiveUp, Busy, Makers

(* It goes on at another label with the list it has. *)
LEMMA ImportGoesOn ==
  ASSUME ControlOK, Stations, ImportInv, NEW w \in Workers, pc[w] \in JobLabels,
         NEW label \in JobLabels, Framed(w, label),
         UNCHANGED <<op, alone, settled, list, peersFile>>,
         alone[w] /\ clean'[w] /\ op[w] \in Makers /\ Here(w)' => MadeSoFar(w)'
  PROVE  ImportInv'
<1>1. Busy(w) /\ pc'[w] = label /\ label # "report"
  BY DEF Stations, Fits, Busy, VpnLabels, Framed, ControlOK, JobLabels
<1>2. Busy(w)' /\ alone'[w] => Carries(w)'
  BY <1>1 DEF ImportInv, Carries, LoadPeers, Busy
<1> QED
  BY <1>1, <1>2, ImportMoves

LEMMA EarlySteps ==
  ASSUME IInv, ControlOK, HistoryOK, Shape, Stations, ImportInv, NEW w \in Workers,
         Connect(w) \/ Login(w) \/ Elsewhere(w) \/ RemoveInterface(w) \/ ListInterfaces(w) \/ RemoveOld(w)
  PROVE  ImportInv'
<1> USE DEF At, JobLabels
<1>1. Fits(pc[w], op[w]) /\ Busy(w)
  BY DEF Stations, Fits, Busy, Connect, Login, Elsewhere, RemoveInterface, ListInterfaces, RemoveOld,
     VpnLabels
<1>2. CASE GiveUp(w)
  BY <1>1, <1>2, ImportEnds
<1>3. ASSUME NEW label \in {"login", "remove", "list", "removeold", "import"}, Framed(w, label),
             Same(w) \/ UNCHANGED vpnVars \/ UNCHANGED <<registry, alone, settled>>,
             UNCHANGED <<op, list>>, pc[w] \in JobLabels
      PROVE  ImportInv'
  <2>1. MadeSoFar(w)'
    BY <1>3 DEF MadeSoFar, Framed, ControlOK
  <2> QED
    BY <1>3, <2>1, ImportGoesOn DEF Same, registry, vpnVars, vpnLocals, history
<1>4. CASE Connect(w) \/ Login(w)
  <2>1. ASSUME NEW label \in {"login", "remove", "list"}, LoggedIn(w, label), UNCHANGED vpnVars
        PROVE  ImportInv'
    BY <1>3, <1>4, <2>1, LoginFramed DEF Connect, Login, vpnVars, vpnLocals
  <2> QED
    BY <1>2, <1>4, <2>1 DEF Connect, Login
<1>5. CASE RemoveInterface(w)
  <2> DEFINE new == DropIf(list[w][who[w]].ifn)
  <2>1. CASE Done(w, new, "record") /\ Same(w) /\ UNCHANGED vpnLocals
    <3>1. Framed(w, "record")
      BY <2>1, CallFramed
    <3>2. op[w] \notin Makers
      BY <1>1, <1>5 DEF Fits, RemoveInterface, Makers
    <3> QED
      BY <1>5, <2>1, <3>1, <3>2, ImportGoesOn DEF RemoveInterface, Same, registry, vpnLocals
  <2> QED
    BY <1>2, <1>5, <2>1 DEF RemoveInterface
<1>6. CASE ListInterfaces(w)
  <2>1. \E label \in {"removeold", "import"} : Framed(w, label)
    BY <1>6, ReadFramed DEF ListInterfaces
  <2> QED
    BY <1>3, <1>6, <2>1 DEF ListInterfaces
<1>7. CASE RemoveOld(w)
  BY <1>3, <1>7, CallFramed DEF RemoveOld
<1>8. CASE Elsewhere(w)
  <2>1. CASE Local(w, "record") /\ UNCHANGED <<registry, op, who, list, alone, settled>>
    <3>1. Framed(w, "record")
      BY <2>1, BeginFramed
    <3>2. ~Here(w)'
      BY <1>8, <2>1 DEF Elsewhere, Here
    <3> QED
      BY <1>8, <2>1, <3>1, <3>2, ImportGoesOn DEF Elsewhere, registry
  <2> QED
    BY <1>2, <1>8, <2>1 DEF Elsewhere
<1> QED
  BY <1>4, <1>5, <1>6, <1>7, <1>8

(* The router gives the peer an interface of its key. *)
LEMMA ImportedKey ==
  ASSUME RouterSafe, NEW p \in Peers, NEW r \in Imported(p)
  PROVE  r[1] \in DOMAIN r[2].ifs /\ r[2].ifs[r[1]].key = p
<1>1. CASE \E f \in IfNames : r = <<f, SetIf(f, Fresh(p))>>
  <2>1. PICK f \in IfNames : r = <<f, SetIf(f, Fresh(p))>>
    BY <1>1
  <2>2. SetIf(f, Fresh(p)).ifs = With(running.ifs, f, Fresh(p)) /\ Fresh(p).key = p
    BY DEF RouterSafe, Respects, SetIf, Fresh
  <2>3. r[1] = f /\ r[2].ifs = With(running.ifs, f, Fresh(p))
    BY <2>1, <2>2
  <2> QED
    BY <2>2, <2>3 DEF With
<1>2. CASE \E f \in DOMAIN running.ifs : running.ifs[f].key = p /\ r = <<f, running>>
  BY <1>2
<1> QED
  BY <1>1, <1>2 DEF Imported

LEMMA ImportStep ==
  ASSUME IInv, ControlOK, HistoryOK, Shape, Stations, ImportInv, NEW w \in Workers, Import(w)
  PROVE  ImportInv'
<1>1. Busy(w) /\ pc[w] \in JobLabels /\ who[w] \in Peers
  BY DEF Stations, Fits, Busy, Import, At, VpnLabels, JobLabels, Shape
<1>2. ASSUME NEW r \in Imported(who[w]), Answered(w, r[2], "orphan"), ifn' = [ifn EXCEPT ![w] = r[1]],
             Same(w), UNCHANGED <<op, who, list, old, step>>
      PROVE  ImportInv'
  <2>1. Framed(w, "orphan") /\ running' = r[2] /\ pc'[w] = "orphan"
    BY <1>2, CallFramed DEF Answered, Goto, ControlOK
  <2>2. HasKey(w, running)'
    BY <1>1, <1>2, <2>1, ImportedKey DEF HasKey, IInv, Typed
  <2>3. MadeSoFar(w)'
    BY <2>1, <2>2 DEF MadeSoFar
  <2> QED
    BY <1>1, <1>2, <2>1, <2>3, ImportGoesOn DEF Same, registry, JobLabels
<1>3. CASE GiveUp(w)
  BY <1>1, <1>3, ImportEnds
<1> QED
  BY <1>2, <1>3 DEF Import

LEMMA OrphanStep ==
  ASSUME IInv, ControlOK, HistoryOK, Shape, Stations, ImportInv, NEW w \in Workers, AdoptOrphan(w)
  PROVE  ImportInv'
<1>1. pc[w] = "orphan" /\ step[w] = 1
  BY DEF AdoptOrphan, At, Stations
<1>2. Orphans(ifn[w]) = {}
  BY <1>1 DEF IInv, HoldsIface, Orphans
<1>3. \/ Answered(w, running, "setup") /\ ifn' = [ifn EXCEPT ![w] = ifn[w]]
      \/ Failed(w, running, "setup") /\ UNCHANGED ifn
  BY <1>2 DEF AdoptOrphan
<1>4. Framed(w, "setup") /\ pc'[w] = "setup" /\ ifn' = ifn /\ UNCHANGED <<op, who, list, step>>
  <2>1. Framed(w, "setup")
    BY <1>3, CallFramed
  <2>2. ifn' = ifn /\ UNCHANGED <<op, who, list, step>>
    BY <1>3 DEF AdoptOrphan, IInv, Typed
  <2> QED
    BY <2>1, <2>2 DEF Framed, ControlOK
<1>5. ASSUME alone[w], clean'[w], op[w] \in Makers, Here(w)' PROVE MadeSoFar(w)'
  <2>1. Answered(w, running, "setup") /\ clean[w]
    BY <1>3, <1>5 DEF Failed, Answered, ControlOK
  <2>2. HasKey(w, running)
    BY <1>1, <1>4, <1>5, <2>1 DEF ImportInv, MadeSoFar, Answered, Here
  <2> QED
    BY <1>1, <1>4, <2>1, <2>2 DEF MadeSoFar, HasKey, SetUpTo, Answered
<1> QED
  BY <1>1, <1>4, <1>5, ImportGoesOn DEF AdoptOrphan, Same, registry, JobLabels

LEMMA SetUpFurther ==
  ASSUME NEW i \in Iface, NEW name, NEW k \in 1 .. Len(Setup), SetUpTo(k, i, name)
  PROVE  /\ SetUpTo(k + 1, Configured(Setup[k], i, name), name)
         /\ Configured(Setup[k], i, name).key = i.key
<1> DEFINE made(s) == Configured(s, i, name)
<1>1. made("name").desc = name /\ made("name").has = i.has /\ made("name").key = i.key
  BY DEF Configured, Iface
<1>2. made("unpeer").desc = i.desc /\ made("unpeer").has = i.has \ {"peer"} /\ made("unpeer").key = i.key
  BY DEF Configured, Iface
<1>3. \A s \in {"ip", "peer", "up"} :
        made(s).desc = i.desc /\ made(s).has = i.has \cup {s} /\ made(s).key = i.key
  BY DEF Configured, Iface
<1>4. /\ Setup[1] = "name" /\ Setup[2] = "ip" /\ Setup[3] = "unpeer"
      /\ Setup[4] = "peer" /\ Setup[5] = "up" /\ k \in {1, 2, 3, 4, 5}
  BY DEF Setup
<1> HIDE DEF made
<1>5. SetUpTo(k + 1, made(Setup[k]), name) /\ made(Setup[k]).key = i.key
  <2>1. CASE k = 1
    BY <1>1, <1>4, <2>1 DEF SetUpTo
  <2>2. CASE k = 2
    BY <1>3, <1>4, <2>2 DEF SetUpTo
  <2>3. CASE k = 3
    BY <1>2, <1>4, <2>3 DEF SetUpTo
  <2>4. CASE k = 4
    BY <1>3, <1>4, <2>4 DEF SetUpTo
  <2>5. CASE k = 5
    BY <1>3, <1>4, <2>5 DEF SetUpTo
  <2> QED
    BY <1>4, <2>1, <2>2, <2>3, <2>4, <2>5
<1> QED
  BY <1>5 DEF made

LEMMA SetIfMakes ==
  ASSUME RouterSafe, NEW f, NEW s
  PROVE  /\ SetIf(f, s).ifs = With(running.ifs, f, s)
         /\ f \in DOMAIN SetIf(f, s).ifs /\ SetIf(f, s).ifs[f] = s
BY DEF RouterSafe, Respects, SetIf, With

LEMMA IfaceThere ==
  ASSUME RouterSafe, NEW f \in DOMAIN running.ifs
  PROVE  running.ifs[f] \in Iface
BY DEF RouterSafe, Respects

LEMMA SetupStep ==
  ASSUME IInv, ControlOK, HistoryOK, Shape, Stations, ImportInv, NEW w \in Workers, SetupCall(w)
  PROVE  ImportInv'
<1> DEFINE f    == ifn[w]
           made == Configured(Setup[step[w]], running.ifs[f], Named(w))
           new  == IF f \in DOMAIN running.ifs THEN SetIf(f, made) ELSE running
           next == IF step[w] = Len(Setup) THEN "save" ELSE "setup"
<1>1. pc[w] = "setup" /\ step[w] \in 1 .. Len(Setup) /\ UNCHANGED <<op, who, list, ifn>>
  BY DEF SetupCall, At, IInv, Typed
<1>2. Done(w, new, next) \/ Failed(w, new, next)
  BY DEF SetupCall
<1>3. Framed(w, next)
  <2> HIDE DEF new, next
  <2> QED
    BY <1>2, CallFramed
<1>4. pc'[w] = next /\ step'[w] = (IF step[w] = Len(Setup) THEN 1 ELSE step[w] + 1)
  BY <1>3 DEF SetupCall, Framed, ControlOK, IInv, Typed
<1>5. ASSUME alone[w], clean'[w], op[w] \in Makers, Here(w)' PROVE MadeSoFar(w)'
  <2>1. w \in sessions /\ running' = new /\ clean[w]
    BY <1>2, <1>5 DEF Failed, Done, Ignored, Answered, ControlOK
  <2>2. HasKey(w, running) /\ SetUpTo(step[w], running.ifs[f], Named(w))
    BY <1>1, <1>5, <2>1 DEF ImportInv, MadeSoFar, Here
  <2>3. running.ifs[f] \in Iface /\ new = SetIf(f, made)
    BY <2>2, IfaceThere DEF HasKey, IInv
  <2>4. SetUpTo(step[w] + 1, made, Named(w)) /\ made.key = who[w]
    BY <1>1, <2>2, <2>3, SetUpFurther DEF HasKey
  <2>5. f \in DOMAIN running'.ifs /\ running'.ifs[f] = made
    BY <2>1, <2>3, SetIfMakes DEF IInv
  <2>6. UNCHANGED <<f, Named(w), who>>
    BY <1>1 DEF Named
  <2> HIDE DEF made, new
  <2>7. HasKey(w, running)'
    BY <2>4, <2>5, <2>6 DEF HasKey
  <2>8. CASE step[w] = Len(Setup)
    <3>1. pc'[w] = "save" /\ SetUpTo(6, made, Named(w))
      BY <1>4, <2>4, <2>8 DEF Setup
    <3>2. SetUpTo(6, running.ifs[ifn[w]], Named(w))'
      BY <2>5, <2>6, <3>1 DEF SetUpTo
    <3> QED
      BY <2>7, <3>1, <3>2 DEF MadeSoFar
  <2>9. CASE step[w] # Len(Setup)
    <3>1. pc'[w] = "setup" /\ step'[w] = step[w] + 1
      BY <1>4, <2>9
    <3>2. SetUpTo(step[w], running.ifs[ifn[w]], Named(w))'
      BY <2>4, <2>5, <2>6, <3>1 DEF SetUpTo
    <3> QED
      BY <2>7, <3>1, <3>2 DEF MadeSoFar
  <2> QED
    BY <2>8, <2>9
<1>6. next \in JobLabels /\ pc[w] \in JobLabels
  BY <1>1 DEF JobLabels
<1>7. UNCHANGED <<op, alone, settled, list, peersFile>>
  BY DEF SetupCall, Same, registry
<1> HIDE DEF next
<1> QED
  BY <1>3, <1>5, <1>6, <1>7, ImportGoesOn

(* Nothing is promised of a tunnel whose peer was skipped. *)
LEMMA SkipStep ==
  ASSUME IInv, ControlOK, HistoryOK, Shape, Stations, ImportInv, NEW w \in Workers, SkipPeer(w)
  PROVE  ImportInv'
<1>1. Framed(w, "setup") /\ ~clean'[w] /\ pc[w] = "setup"
  BY BeginFramed DEF SkipPeer, LocalFailed, At, ControlOK
<1> QED
  BY <1>1, ImportGoesOn DEF SkipPeer, Same, registry, JobLabels

LEMMA SaveStep ==
  ASSUME IInv, ControlOK, HistoryOK, Shape, Stations, ImportInv, NEW w \in Workers, SaveRouter(w)
  PROVE  ImportInv'
<1>1. pc[w] = "save" /\ Framed(w, "record") /\ pc'[w] = "record"
  BY SaveFramed DEF SaveRouter, At, Framed, ControlOK
<1>2. ASSUME alone[w], clean'[w], op[w] \in Makers, Here(w)' PROVE MadeSoFar(w)'
  <2>1. w \in sessions /\ startup' = running /\ running' = running /\ clean[w]
    BY <1>2 DEF SaveRouter, Saved, SaveFailed, Ignored, ControlOK
  <2> DEFINE i == running.ifs[ifn[w]]
  <2>2. HasKey(w, running) /\ SetUpTo(6, i, Named(w))
    BY <1>1, <1>2, <2>1 DEF ImportInv, MadeSoFar, Here, SaveRouter, vpnLocals
  <2>3. i \in Iface
    BY <2>2, IfaceThere DEF HasKey, IInv
  <2>4. i = Tunnel(who[w], Named(w))
    <3>1. i.desc = Named(w) /\ i.key = who[w]
      BY <2>2 DEF HasKey, SetUpTo
    <3>2. i.has = {"ip", "peer", "up"}
      <4>1. {"ip", "peer", "up"} \subseteq i.has
        BY <2>2 DEF SetUpTo
      <4>2. i.has \subseteq {"ip", "peer", "up"}
        BY <2>3 DEF Iface
      <4> QED
        BY <4>1, <4>2
    <3> HIDE DEF i
    <3> QED
      BY <2>3, <3>1, <3>2 DEF Tunnel, Iface
  <2>5. UNCHANGED <<ifn, who, list>>
    BY DEF SaveRouter, vpnLocals
  <2> QED
    BY <1>1, <2>1, <2>2, <2>4, <2>5 DEF MadeSoFar, Made, HasKey, Named
<1> QED
  BY <1>1, <1>2, ImportGoesOn DEF SaveRouter, Same, registry, vpnLocals, JobLabels

LEMMA RecordStep ==
  ASSUME IInv, ControlOK, HistoryOK, Shape, Stations, ImportInv, NEW w \in Workers, Record(w)
  PROVE  ImportInv'
<1>1. /\ pc[w] = "record" /\ pc[w] \in JobLabels /\ Busy(w) /\ Busy(w)'
      /\ UNCHANGED <<router, clean, op, who, ifn, alone, settled, peersFile>>
  BY DEF Record, At, JobLabels, VpnLabels, Stations, Fits, Busy, Local, history, registry
<1>2. \/ Writes(w) /\ pc'[w] = "trunc" /\ list'[w] = Recorded(w)
      \/ ~Writes(w) /\ pc'[w] = "report" /\ list' = list
  BY DEF Record, Local, Goto, IInv, Typed, ControlOK
<1>3. \A v \in Workers \ {w} : op'[v] = op[v] /\ alone'[v] = alone[v]
  BY <1>1
<1>4. ASSUME alone[w] PROVE list[w] = LoadPeers
  BY <1>1, <1>4 DEF ImportInv, Carries
<1>5. alone[w] => Carries(w)'
  BY <1>1, <1>2, <1>4 DEF Carries, JobLabels, LoadPeers
<1>6. ASSUME alone[w], clean[w], op[w] \in Makers, Here(w)' PROVE MadeSoFar(w)'
  <2>2. who[w] \in DOMAIN list[w] /\ list[w] = LoadPeers /\ list[w][who[w]] \in PeerRec
    BY <1>1, <1>4, <1>6, HeldPeer DEF IInv
  <2> DEFINE InList == /\ who[w] \in DOMAIN list'[w] /\ list'[w][who[w]].ifn = ifn[w]
                       /\ list'[w][who[w]].name = list[w][who[w]].name
                       /\ list'[w][who[w]].here = list[w][who[w]].here
  <2>3. InList
    <3>1. ASSUME NEW r, list'[w] = With(list[w], who[w], r), r.ifn = ifn[w],
                 r.name = list[w][who[w]].name, r.here = list[w][who[w]].here
          PROVE  InList
      BY <3>1 DEF With
    <3>2. CASE op[w] = "apply"
      <4>1. list'[w] = With(list[w], who[w], [list[w][who[w]] EXCEPT !.ifn = ifn[w], !.vpn = TRUE])
        BY <1>2, <2>2, <3>2 DEF Writes, Recorded
      <4>2. /\ [list[w][who[w]] EXCEPT !.ifn = ifn[w], !.vpn = TRUE].ifn = ifn[w]
            /\ [list[w][who[w]] EXCEPT !.ifn = ifn[w], !.vpn = TRUE].name = list[w][who[w]].name
            /\ [list[w][who[w]] EXCEPT !.ifn = ifn[w], !.vpn = TRUE].here = list[w][who[w]].here
        BY <2>2 DEF PeerRec
      <4> QED
        BY <3>1, <4>1, <4>2
    <3>3. CASE op[w] = "import" /\ Writes(w)
      <4>1. list'[w] = With(list[w], who[w], [list[w][who[w]] EXCEPT !.ifn = ifn[w]])
        BY <1>2, <3>3 DEF Recorded
      <4>2. /\ [list[w][who[w]] EXCEPT !.ifn = ifn[w]].ifn = ifn[w]
            /\ [list[w][who[w]] EXCEPT !.ifn = ifn[w]].name = list[w][who[w]].name
            /\ [list[w][who[w]] EXCEPT !.ifn = ifn[w]].here = list[w][who[w]].here
        BY <2>2 DEF PeerRec
      <4> QED
        BY <3>1, <4>1, <4>2
    <3>4. CASE op[w] = "import" /\ ~Writes(w)
      BY <1>2, <2>2, <3>4 DEF Writes
    <3> QED
      BY <1>6, <3>2, <3>3, <3>4 DEF Makers
  <2>4. Named(w)' = Named(w)
    BY <1>1, <2>3 DEF Named
  <2>5. Made(w, running) /\ Made(w, startup)
    BY <1>1, <1>6, <2>3 DEF ImportInv, MadeSoFar, Here
  <2>6. pc'[w] = "report" => LoadPeers' = list'[w]
    BY <1>1, <1>2, <2>2 DEF LoadPeers
  <2> QED
    BY <1>1, <1>2, <2>3, <2>4, <2>5, <2>6 DEF MadeSoFar, Made, HasKey, router
<1> QED
  BY <1>1, <1>3, <1>5, <1>6, ImportMoves

LEMMA WriteStep ==
  ASSUME IInv, ControlOK, HistoryOK, Shape, Stations, ImportInv, NEW w \in Workers,
         PeersTrunc(w) \/ PeersWrite(w) \/ PeersFailed(w)
  PROVE  ImportInv'
<1>1. /\ pc[w] \in {"trunc", "write"} /\ Busy(w) /\ Busy(w)'
      /\ UNCHANGED <<vpnLocals, alone, settled>>
  BY DEF PeersTrunc, PeersWrite, PeersFailed, Same, At, VpnLabels, Stations, Fits, Busy, vpnLocals,
         history
<1>2. pc'[w] \in {"write", "report"}
  BY DEF PeersTrunc, PeersWrite, PeersFailed, Local, LocalFailed, Goto, ControlOK
<1>3. \A v \in Workers \ {w} : op'[v] = op[v] /\ alone'[v] = alone[v]
  BY <1>1 DEF vpnLocals
<1>4. Carries(w)'
  BY <1>2 DEF Carries, JobLabels
<1>5. ASSUME alone[w], clean'[w], op[w] \in Makers, Here(w)' PROVE MadeSoFar(w)'
  <2>1. /\ UNCHANGED <<router, clean>>
        /\ pc'[w] = "write" \/ (pc'[w] = "report" /\ peersFile' = list[w])
    BY <1>5 DEF PeersTrunc, PeersWrite, PeersFailed, Local, LocalFailed, Goto, ControlOK
  <2>2. MadeSoFar(w)
    BY <1>1, <1>5, <2>1 DEF ImportInv, Here, vpnLocals
  <2>3. pc'[w] = "report" => LoadPeers' = list'[w]
    BY <1>1, <2>1, TornUnlisted DEF IInv, Typed, LoadPeers, vpnLocals
  <2> QED
    BY <1>1, <2>1, <2>2, <2>3 DEF MadeSoFar, Made, HasKey, Named, router, vpnLocals
<1> QED
  BY <1>1, <1>3, <1>4, <1>5, ImportMoves DEF vpnLocals

LEMMA FinishStep ==
  ASSUME IInv, ControlOK, HistoryOK, Shape, Stations, ImportInv, NEW w \in Workers, Finish(w)
  PROVE  ImportInv'
<1>1. pc[w] = "report" /\ Busy(w) /\ UNCHANGED <<peersFile, router>>
  BY DEF Finish, At, VpnLabels, Stations, Fits, Busy, Local
<1>2. op'[w] = "none" /\ \A v \in Workers \ {w} : op'[v] = op[v] /\ alone'[v] = alone[v]
  BY DEF Finish, Leave, Shape, HistoryOK
<1>3. CASE UNCHANGED settled
  BY <1>1, <1>2, <1>3, ImportMoves DEF Busy, Makers
<1>4. CASE /\ op[w] \in Makers /\ clean[w] /\ alone[w] /\ Here(w)
           /\ settled' = [settled EXCEPT ![who[w]] = ifn[w]]
  <2>1. MadeSoFar(w) /\ LoadPeers = list[w]
    BY <1>1, <1>4 DEF ImportInv, MadeSoFar
  <2>2. \A p \in Peers : settled[p] = NoIf
    BY <1>1 DEF Stations
  <2>3. ASSUME NEW p \in Peers, settled'[p] # NoIf PROVE p = who[w] /\ settled'[p] = ifn[w]
    BY <1>4, <2>2, <2>3 DEF HistoryOK
  <2>4. ImportSticks'
    BY <1>1, <2>1, <2>3 DEF ImportSticks, MadeSoFar, Made, HasKey, Tunnel, Named, router, LoadPeers
  <2>5. \A v \in Workers : ~(Busy(v)' /\ alone'[v])
    BY <1>1, <1>2, <1>4 DEF Stations, Busy
  <2> QED
    BY <2>4, <2>5, MakersBusy DEF ImportInv, Busy, Makers
<1> QED
  BY <1>3, <1>4 DEF Finish, Makers

LEMMA InitImportInv == Init => ImportInv
BY DEF Init, InitVpn, ImportInv, ImportSticks, Busy, Makers

LEMMA StepImportInv ==
  ASSUME IInv, LiveInv, RestInv, Stations, ImportInv, [Next]_vars
  PROVE  ImportInv'
<1>1. ASSUME NEW w \in Workers, Step(w) PROVE ImportInv'
  <2>1. CASE VpnStep(w)
    BY <2>1, ImportBegins, EarlySteps, ImportStep, OrphanStep, SetupStep, SkipStep, SaveStep,
       RecordStep, WriteStep, FinishStep DEF VpnStep, LiveInv, RestInv
  <2>2. CASE (ComponentsStep(w) \/ DnsStep(w)) /\ UNCHANGED vpnVars
    <3>1. PICK label :
            /\ Framed(w, label) /\ pc[w] \notin VpnLabels /\ label \notin VpnLabels
            /\ running'.ifs = running.ifs /\ startup' \in {startup, running}
      BY <2>2, OtherSteps DEF IInv, RestInv
    <3> QED
      BY <2>2, <3>1, ImportUndisturbed DEF RestInv
  <2> QED
    BY <1>1, <2>1, <2>2 DEF Step
<1>2. CASE Reboot \/ UNCHANGED vars
  <2>1. /\ UNCHANGED <<vpnVars, pc, clean, startup>> /\ running' \in {running, startup}
        /\ sessions' \subseteq sessions /\ (running' = running \/ sessions' = {})
    BY <1>2 DEF Reboot, InstallReboot, PowerReboot, control, router, vars
  <2>2. ImportSticks'
    BY <2>1 DEF ImportInv, ImportSticks, LoadPeers, vpnVars, registry, history
  <2>3. \A w \in Workers : Busy(w)' /\ alone'[w] => Carries(w)'
    BY <2>1 DEF ImportInv, Busy, Carries, LoadPeers, vpnVars, vpnLocals, registry, history
  <2>4. \A w \in Workers : alone'[w] /\ clean'[w] /\ op'[w] \in Makers /\ Here(w)' => MadeSoFar(w)'
    BY <2>1 DEF ImportInv, MadeSoFar, Made, HasKey, Named, Here, LoadPeers, vpnVars, vpnLocals, registry, history
  <2> QED
    BY <2>2, <2>3, <2>4 DEF ImportInv
<1>3. CASE Dies
  BY <1>3 DEF Dies, EndProcess, VpnCut, router, registry, LoadPeers, ImportInv, ImportSticks, Busy,
     Makers
<1> QED
  BY <1>1, <1>2, <1>3 DEF Next, Crash, Panic

(* A tunnel whose import met no other request about tunnels, and none of   *)
(* whose calls failed, is recorded, configured in full and up, running and *)
(* saved, until the next such request: whatever had failed before, and     *)
(* whatever installs, resolves names, reboots or crashes meanwhile         *)
(* (applyPeerVpn, importWireGuardConfigToRouter).                          *)
THEOREM ImportAlwaysSticks == Spec => []ImportSticks
<1>1. ImportInv => ImportSticks
  BY DEF ImportInv
<1> QED
  BY <1>1, InitStations, StepStations, InitImportInv, StepImportInv, Rests, PTL DEF Spec

-----------------------------------------------------------------------------
(* Requests that came one at a time, none of whose calls failed.  The      *)
(* tunnels of a configuration match a list when they are described as its  *)
(* peers and no peer has two; they hold it when what it records is there.  *)
(* The peers in X are being worked on.                                     *)
Tunnels(c) == IfNames \cap DOMAIN c.ifs

Matches(c, l, X) ==
  /\ \A f \in Tunnels(c) :
       c.ifs[f].key \in DOMAIN l \ X => c.ifs[f].desc = Slug[l[c.ifs[f].key].name]
  /\ \A f, g \in Tunnels(c) : c.ifs[f].key = c.ifs[g].key => f = g

Holds(c, l, X) ==
  \A p \in DOMAIN l \ X :
    l[p].here /\ l[p].ifn # NoIf => l[p].ifn \in DOMAIN c.ifs /\ c.ifs[l[p].ifn].key = p

Both(l, X) == \A c \in {running, startup} : Matches(c, l, {}) /\ Holds(c, l, X)

(* The stages of a request: before it touches the router, having found an  *)
(* old tunnel, between the old tunnel and the new, and with the new one.   *)
Between(w) ==
  /\ pc[w] \in {"connect", "login", "remove", "list"} => Both(LoadPeers, {})
  /\ pc[w] \in {"remove", "list", "removeold", "import", "orphan", "setup", "save"} => Here(w)
  /\ pc[w] = "removeold" /\ w \in sessions =>
       /\ Matches(running, LoadPeers, {}) /\ Holds(running, LoadPeers, {})
       /\ old[w] \in DOMAIN running.ifs
  /\ pc[w] \in {"import", "orphan", "setup", "save"} /\ w \in sessions =>
       Matches(running, LoadPeers, {who[w]}) /\ Holds(running, LoadPeers, {who[w]})
  /\ pc[w] = "import" /\ w \in sessions =>
       \A f \in Tunnels(running) : running.ifs[f].key # who[w]
  /\ pc[w] \in {"orphan", "setup", "save"} /\ w \in sessions =>
       \A f \in Tunnels(running) : running.ifs[f].key = who[w] => f = ifn[w]
  /\ pc[w] = "record" => Both(LoadPeers, {who[w]})
  /\ pc[w] \in {"trunc", "write"} => Both(list[w], {})
  /\ pc[w] = "report" => Both(LoadPeers, {})

Agreeing(w) ==
  /\ clean[w] /\ alone[w] /\ Between(w)
  /\ peersFile = Torn => pc[w] = "write"

InOrder ==
  /\ \A w \in Workers : Busy(w) => Agreeing(w)
  /\ (\A w \in Workers : ~Busy(w)) => peersFile # Torn /\ Both(LoadPeers, {})

AgreeInv == ~upset => InOrder

LEMMA AgreeMoves ==
  ASSUME Stations, AgreeInv, NEW w \in Workers, Busy(w),
         \A v \in Workers \ {w} : op'[v] = op[v],
         ~upset' => /\ ~upset
                    /\ Busy(w)' => Agreeing(w)'
                    /\ ~Busy(w)' => peersFile' # Torn /\ Both(LoadPeers, {})'
  PROVE  AgreeInv'
<1> SUFFICES ASSUME ~upset' PROVE InOrder'
  BY DEF AgreeInv
<1>1. \A v \in Workers \ {w} : ~Busy(v)'
  BY DEF AgreeInv, InOrder, Agreeing, Stations, Busy
<1> QED
  BY <1>1 DEF InOrder

(* The worker goes on with the list it has, or it gives up. *)
LEMMA AgreeGoesOn ==
  ASSUME ControlOK, Stations, AgreeInv, NEW w \in Workers, pc[w] \in JobLabels,
         NEW label \in JobLabels, Framed(w, label),
         UNCHANGED <<op, alone, list, peersFile>>, ~upset' => ~upset,
         ~upset' /\ Agreeing(w) /\ peersFile # Torn => clean'[w] /\ Between(w)'
  PROVE  AgreeInv'
<1>1. Busy(w) /\ Busy(w)' /\ pc[w] # "write"
  BY DEF Stations, Fits, Busy, VpnLabels, JobLabels
<1>2. ASSUME ~upset' PROVE Agreeing(w)'
  <2>1. Agreeing(w) /\ peersFile # Torn
    BY <1>1, <1>2 DEF AgreeInv, InOrder, Agreeing
  <2> QED
    BY <1>2, <2>1 DEF Agreeing, LoadPeers
<1> QED
  BY <1>1, <1>2, AgreeMoves

LEMMA AgreeGivesUp ==
  ASSUME Shape, HistoryOK, Stations, AgreeInv, NEW w \in Workers, Busy(w), ~clean'[w], GiveUp(w)
  PROVE  AgreeInv'
BY DEF GiveUp, Noted, AgreeInv

LEMMA AgreeUndisturbed ==
  ASSUME ControlOK, Stations, AgreeInv, NEW w \in Workers, NEW label, Framed(w, label),
         UNCHANGED vpnVars, pc[w] \notin VpnLabels, label \notin VpnLabels,
         running'.ifs = running.ifs, startup' \in {startup, running}
  PROVE  AgreeInv'
<1> USE DEF vpnVars, vpnLocals, registry, history
<1>1. \A v \in Workers : Busy(v)' => v # w /\ pc'[v] = pc[v] /\ clean'[v] = clean[v]
                                      /\ (v \in sessions' <=> v \in sessions)
  BY DEF Stations, Fits, Busy, Framed, ControlOK
<1>2. \A l, X : Both(l, X) => Both(l, X)'
  BY DEF Both, Matches, Holds, Tunnels
<1>3. \A l, X : /\ Matches(running, l, X)' <=> Matches(running, l, X)
                /\ Holds(running, l, X)' <=> Holds(running, l, X)
                /\ Tunnels(running)' = Tunnels(running)
  BY DEF Matches, Holds, Tunnels
<1>4. ASSUME NEW v \in Workers, Busy(v)', Agreeing(v) PROVE Agreeing(v)'
  <2>1. Between(v)'
    <3>1. UNCHANGED <<LoadPeers, Here(v), who, list, old, ifn>>
      BY DEF LoadPeers, Here
    <3> QED
      BY <1>1, <1>2, <1>3, <1>4, <3>1 DEF Agreeing, Between
  <2> QED
    BY <1>1, <1>4, <2>1 DEF Agreeing
<1> QED
  BY <1>2, <1>4 DEF AgreeInv, InOrder, Busy, LoadPeers

LEMMA AgreeBegins ==
  ASSUME IInv, ControlOK, HistoryOK, Shape, Stations, AgreeInv, NEW w \in Workers,
         ApplyBegin(w) \/ RemoveBegin(w) \/ ImportBegin(w) \/ UpdatePeer(w) \/ RemovePeer(w)
  PROVE  AgreeInv'
<1> SUFFICES ASSUME ~upset' PROVE InOrder'
  BY DEF AgreeInv
<1>1. /\ pc[w] = "idle" /\ ~UpdatePeer(w) /\ UNCHANGED <<peersFile, router>> /\ Meets(w)
      /\ clean' = [clean EXCEPT ![w] = TRUE]
  BY DEF ApplyBegin, RemoveBegin, ImportBegin, RemovePeer, UpdatePeer, Request, Begin, Comes, At, registry
<1>2. ~upset /\ \A v \in Workers : ~Busy(v)
  BY <1>1 DEF Meets, Stations, Fits, Busy, VpnLabels, JobLabels
<1>3. peersFile # Torn /\ Both(LoadPeers, {})
  BY <1>2 DEF AgreeInv, InOrder
<1>4. alone'[w] /\ clean'[w] /\ \A v \in Workers \ {w} : ~Busy(v)'
  <2>1. \E o : op' = [op EXCEPT ![w] = o]
    BY DEF ApplyBegin, RemoveBegin, ImportBegin, RemovePeer, UpdatePeer, Request
  <2> QED
    BY <1>1, <1>2, <2>1 DEF Meets, ControlOK, Busy, Shape
<1>5. Both(LoadPeers, {})'
  BY <1>1, <1>3 DEF Both, router, LoadPeers
<1>6. CASE ApplyBegin(w) \/ RemoveBegin(w) \/ ImportBegin(w)
  <2>1. list'[w] = LoadPeers /\ pc'[w] \in {"connect", "login"}
    BY <1>6 DEF ApplyBegin, RemoveBegin, ImportBegin, Request, Begin, Goto, ControlOK, IInv, Typed
  <2>2. Agreeing(w)'
    BY <1>1, <1>3, <1>4, <1>5, <2>1 DEF Agreeing, Between
  <2> QED
    BY <1>1, <1>3, <1>4, <1>5, <2>2 DEF InOrder
<1>7. CASE RemovePeer(w)
  <2>1. PICK p : /\ pc'[w] = "trunc" /\ list'[w] = Without(LoadPeers, p)
                 /\ op'[w] = "edit"
    BY <1>7 DEF RemovePeer, Request, Begin, Goto, ControlOK, IInv, Typed, Shape
  <2>2. Both(list[w], {})'
    BY <1>1, <1>3, <2>1 DEF Without, Restrict, Both, Holds, Matches, Tunnels, router
  <2>3. Agreeing(w)' /\ Busy(w)'
    BY <1>1, <1>3, <1>4, <2>1, <2>2 DEF Agreeing, Between, Busy
  <2> QED
    BY <1>4, <1>5, <2>3 DEF InOrder
<1> QED
  BY <1>1, <1>6, <1>7

LEMMA AgreeLogins ==
  ASSUME IInv, ControlOK, HistoryOK, Shape, Stations, AgreeInv, NEW w \in Workers,
         Connect(w) \/ Login(w)
  PROVE  AgreeInv'
<1>1. pc[w] \in {"connect", "login"} /\ pc[w] \in JobLabels /\ Busy(w)
  BY DEF Connect, Login, At, JobLabels, VpnLabels, Stations, Fits, Busy
<1>2. CASE LoginFailed(w, "idle") /\ GiveUp(w)
  BY <1>1, <1>2, AgreeGivesUp DEF LoginFailed, ControlOK
<1>3. ASSUME NEW label \in {"login", "remove", "list"}, LoggedIn(w, label), UNCHANGED vpnVars
      PROVE  AgreeInv'
  <2>1. Framed(w, label) /\ UNCHANGED <<router, clean>> /\ pc'[w] = label
    BY <1>3, LoginFramed DEF LoggedIn, Framed, ControlOK
  <2>2. Here(w)' /\ (Both(LoadPeers, {}) => Both(LoadPeers, {})')
    BY <1>3, <2>1 DEF Connect, Login, Here, Both, LoadPeers, vpnVars, vpnLocals, registry, router
  <2>3. Agreeing(w) => clean'[w] /\ Between(w)'
    BY <1>1, <1>3, <2>1, <2>2 DEF Agreeing, Between
  <2> QED
    BY <1>1, <1>3, <2>1, <2>3, AgreeGoesOn DEF vpnVars, vpnLocals, registry, history, JobLabels
<1> QED
  BY <1>2, <1>3 DEF Connect, Login

LEMMA AgreeElsewhere ==
  ASSUME IInv, ControlOK, HistoryOK, Shape, Stations, AgreeInv, NEW w \in Workers, Elsewhere(w)
  PROVE  AgreeInv'
<1>1. pc[w] \in {"connect", "login"} /\ pc[w] \in JobLabels /\ Busy(w)
  BY DEF Elsewhere, At, JobLabels, VpnLabels, Stations, Fits, Busy
<1>2. CASE LoginFailed(w, "idle") /\ GiveUp(w)
  BY <1>1, <1>2, AgreeGivesUp DEF LoginFailed, ControlOK
<1>3. CASE Local(w, "record") /\ UNCHANGED <<registry, op, who, list, old, step, alone, upset, settled>>
  <2>1. Framed(w, "record") /\ UNCHANGED <<router, clean, LoadPeers>> /\ pc'[w] = "record"
    BY <1>3, BeginFramed DEF Local, Framed, ControlOK, registry, LoadPeers
  <2>2. Both(LoadPeers, {}) => Both(LoadPeers, {who[w]})'
    BY <1>3, <2>1 DEF Both, Matches, Holds, Tunnels, router
  <2>3. Agreeing(w) => clean'[w] /\ Between(w)'
    BY <1>1, <2>1, <2>2 DEF Agreeing, Between
  <2> QED
    BY <1>1, <1>3, <2>1, <2>3, AgreeGoesOn DEF registry, JobLabels
<1> QED
  BY <1>2, <1>3 DEF Elsewhere

(* What was answered, and done: the call of a worker whose calls are clean. *)
LEMMA CleanCall ==
  ASSUME ControlOK, NEW w \in Workers, NEW label, NEW new,
         Done(w, new, label) \/ Failed(w, new, label), clean'[w]
  PROVE  w \in sessions /\ running' = new /\ startup' = startup /\ clean[w] /\ pc'[w] = label
BY DEF Done, Answered, Ignored, Failed, ControlOK, Goto

LEMMA AgreeRemoves ==
  ASSUME IInv, ControlOK, HistoryOK, Shape, Stations, ImportInv, AgreeInv, NEW w \in Workers,
         RemoveInterface(w)
  PROVE  AgreeInv'
<1> DEFINE f   == list[w][who[w]].ifn
           new == DropIf(f)
<1>1. pc[w] = "remove" /\ pc[w] \in JobLabels /\ Busy(w)
  BY DEF RemoveInterface, At, JobLabels, VpnLabels, Stations, Fits, Busy
<1>2. CASE Failed(w, new, "idle") /\ GiveUp(w)
  BY <1>1, <1>2, AgreeGivesUp DEF Failed, ControlOK
<1>3. CASE Done(w, new, "record") /\ Same(w) /\ UNCHANGED vpnLocals
  <2>1. Framed(w, "record")
    BY <1>3, CallFramed
  <2>2. ASSUME ~upset', Agreeing(w) PROVE clean'[w] /\ Between(w)'
    <3>1. clean'[w]
      BY <1>3, <2>2 DEF Same, Noted
    <3>2. running' = new /\ startup' = startup /\ pc'[w] = "record"
      BY <1>3, <3>1, CleanCall
    <3>3. list[w] = LoadPeers /\ who[w] \in DOMAIN list[w] /\ Both(LoadPeers, {}) /\ Here(w)
      BY <1>1, <2>2 DEF ImportInv, Carries, Agreeing, Between, IInv, HoldsPeer
    <3>4. new.ifs = Without(running.ifs, f)
      BY DEF DropIf, IInv, RouterSafe, Respects
    <3> HIDE DEF new
    <3>5. Matches(running', LoadPeers, {})
      BY <3>2, <3>3, <3>4 DEF Both, Matches, Tunnels, Without, Restrict
    <3>6. Holds(running', LoadPeers, {who[w]})
      <4> SUFFICES ASSUME NEW p \in DOMAIN LoadPeers \ {who[w]}, LoadPeers[p].here,
                          LoadPeers[p].ifn # NoIf
                   PROVE  LoadPeers[p].ifn \in DOMAIN running'.ifs /\ running'.ifs[LoadPeers[p].ifn].key = p
        BY DEF Holds
      <4>1. LoadPeers[p].ifn \in DOMAIN running.ifs /\ running.ifs[LoadPeers[p].ifn].key = p
        BY <3>3 DEF Both, Holds
      <4>2. LoadPeers[p].ifn # f
        BY <3>3, <4>1 DEF Both, Holds, Here
      <4> QED
        BY <3>2, <3>4, <4>1, <4>2 DEF Without, Restrict
    <3>7. Both(LoadPeers, {who[w]})'
      BY <1>3, <3>2, <3>3, <3>5, <3>6 DEF Both, Holds, Matches, Tunnels, LoadPeers, Same, registry,
         vpnLocals
    <3> QED
      BY <3>1, <3>2, <3>7 DEF Between
  <2>3. ~upset' => ~upset
    BY <1>3 DEF Same, Noted
  <2> QED
    BY <1>1, <1>3, <2>1, <2>2, <2>3, AgreeGoesOn DEF Same, registry, vpnLocals, JobLabels
<1> QED
  BY <1>2, <1>3 DEF RemoveInterface

(* A tunnel of the peer is described as the peer. *)
LEMMA AgreeLists ==
  ASSUME IInv, ControlOK, HistoryOK, Shape, Stations, ImportInv, AgreeInv,
         NEW w \in Workers, ListInterfaces(w)
  PROVE  AgreeInv'
<1>1. pc[w] = "list" /\ pc[w] \in JobLabels
  BY DEF ListInterfaces, At, JobLabels
<1>2. PICK label \in {"removeold", "import"} : Framed(w, label)
  BY ReadFramed DEF ListInterfaces
<1>3. ASSUME ~upset', Agreeing(w) PROVE clean'[w] /\ Between(w)'
  <2>1. clean'[w]
    BY <1>3 DEF ListInterfaces, Same, Noted
  <2>2. /\ running' = running /\ startup' = startup /\ UNCHANGED <<who, list, LoadPeers>>
        /\ \/ pc'[w] = "removeold" /\ \E f \in OldOnes(Named(w)) : old'[w] = f
           \/ pc'[w] = "import" /\ OldOnes(Named(w)) = {}
    BY <2>1 DEF ListInterfaces, Read, Answered, Failed, Goto, ControlOK, Same, registry, LoadPeers,
       IInv, Typed
  <2>3. Both(LoadPeers, {}) /\ Here(w)' /\ list[w] = LoadPeers /\ who[w] \in DOMAIN LoadPeers
    BY <1>1, <1>3, <2>2 DEF Agreeing, Between, Here, ImportInv, Carries, IInv, HoldsPeer, Stations,
       Fits, Busy, VpnLabels
  <2>4. \A f \in Tunnels(running) : running.ifs[f].key = who[w] => f \in OldOnes(Named(w))
    BY <2>3 DEF Both, Matches, Named, OldOnes, Tunnels
  <2>5. CASE pc'[w] = "removeold"
    BY <2>1, <2>2, <2>3, <2>5 DEF Between, Both, OldOnes, Matches, Holds, Tunnels
  <2>6. CASE pc'[w] = "import" /\ OldOnes(Named(w)) = {}
    BY <2>1, <2>2, <2>3, <2>4, <2>6 DEF Between, Both, Matches, Holds, Tunnels
  <2> QED
    BY <2>2, <2>5, <2>6
<1>4. ~upset' => ~upset
  BY DEF ListInterfaces, Same, Noted
<1> QED
  BY <1>1, <1>2, <1>3, <1>4, AgreeGoesOn DEF ListInterfaces, Same, registry, JobLabels

LEMMA AgreeRemovesOld ==
  ASSUME IInv, ControlOK, HistoryOK, Shape, Stations, ImportInv, AgreeInv,
         NEW w \in Workers, RemoveOld(w)
  PROVE  AgreeInv'
<1> DEFINE new == DropIf(old[w])
<1>1. pc[w] = "removeold" /\ pc[w] \in JobLabels
  BY DEF RemoveOld, At, JobLabels
<1>2. Done(w, new, "import") \/ Failed(w, new, "import")
  BY DEF RemoveOld
<1>3. Framed(w, "import")
  BY <1>2, CallFramed
<1>4. ASSUME ~upset', Agreeing(w) PROVE clean'[w] /\ Between(w)'
  <2>1. clean'[w] /\ ~TakesOther(w)
    BY <1>4 DEF RemoveOld
  <2>2. w \in sessions /\ running' = new /\ pc'[w] = "import" /\ UNCHANGED <<who, list, LoadPeers>>
    BY <1>2, <2>1, CleanCall DEF RemoveOld, registry, LoadPeers
  <2>3. /\ Matches(running, LoadPeers, {}) /\ Holds(running, LoadPeers, {})
        /\ old[w] \in Tunnels(running) /\ running.ifs[old[w]].key = who[w] /\ Here(w)
    <3>1. /\ Matches(running, LoadPeers, {}) /\ Holds(running, LoadPeers, {})
          /\ old[w] \in DOMAIN running.ifs /\ Here(w)
      BY <1>1, <1>4, <2>2 DEF Agreeing, Between
    <3>2. old[w] \notin DOMAIN Owner /\ running.ifs[old[w]].key = who[w]
      BY <2>1, <3>1 DEF TakesOther
    <3> QED
      BY <3>1, <3>2 DEF Tunnels, IInv, RouterSafe, Respects, RouterNamed
  <2>4. new.ifs = Without(running.ifs, old[w])
    BY DEF DropIf, IInv, RouterSafe, Respects
  <2> HIDE DEF new
  <2>5. Matches(running', LoadPeers, {who[w]})
    BY <2>2, <2>3, <2>4 DEF Matches, Tunnels, Without, Restrict
  <2>6. \A f \in Tunnels(running') : running'.ifs[f].key # who[w]
    BY <2>2, <2>3, <2>4 DEF Matches, Tunnels, Without, Restrict
  <2>7. Holds(running', LoadPeers, {who[w]})
    <3> SUFFICES ASSUME NEW p \in DOMAIN LoadPeers \ {who[w]}, LoadPeers[p].here,
                        LoadPeers[p].ifn # NoIf
                 PROVE  LoadPeers[p].ifn \in DOMAIN running'.ifs /\ running'.ifs[LoadPeers[p].ifn].key = p
      BY DEF Holds
    <3>1. LoadPeers[p].ifn \in DOMAIN running.ifs /\ running.ifs[LoadPeers[p].ifn].key = p
      BY <2>3 DEF Holds
    <3>2. LoadPeers[p].ifn # old[w]
      BY <2>3, <3>1
    <3> QED
      BY <2>2, <2>4, <3>1, <3>2 DEF Without, Restrict
  <2> QED
    BY <2>1, <2>2, <2>3, <2>5, <2>6, <2>7 DEF Between, Matches, Holds, Tunnels, Here
<1>5. ~upset' => ~upset
  BY DEF RemoveOld
<1> QED
  BY <1>1, <1>3, <1>4, <1>5, AgreeGoesOn DEF RemoveOld, registry, JobLabels

LEMMA AgreeImports ==
  ASSUME IInv, ControlOK, HistoryOK, Shape, Stations, ImportInv, AgreeInv,
         NEW w \in Workers, Import(w)
  PROVE  AgreeInv'
<1>1. pc[w] = "import" /\ pc[w] \in JobLabels /\ Busy(w) /\ who[w] \in Peers
  BY DEF Import, At, JobLabels, VpnLabels, Stations, Fits, Busy, Shape
<1>2. ASSUME NEW r \in Imported(who[w]), Failed(w, r[2], "idle"), GiveUp(w)
      PROVE  AgreeInv'
  BY <1>1, <1>2, AgreeGivesUp DEF Failed, ControlOK
<1>3. ASSUME NEW r \in Imported(who[w]), Answered(w, r[2], "orphan"), ifn' = [ifn EXCEPT ![w] = r[1]],
             Same(w), UNCHANGED <<op, who, list, old, step>>
      PROVE  AgreeInv'
  <2>1. Framed(w, "orphan") /\ pc'[w] = "orphan" /\ running' = r[2] /\ w \in sessions
    BY <1>3, CallFramed DEF Answered, Goto, ControlOK
  <2>2. ASSUME ~upset', Agreeing(w) PROVE clean'[w] /\ Between(w)'
    <3>1. clean'[w] /\ UNCHANGED <<who, list, LoadPeers>>
      BY <1>3, <2>2 DEF Same, Noted, registry, LoadPeers
    <3>2. /\ Here(w) /\ Matches(running, LoadPeers, {who[w]}) /\ Holds(running, LoadPeers, {who[w]})
          /\ \A f \in Tunnels(running) : running.ifs[f].key # who[w]
      BY <1>1, <2>1, <2>2 DEF Agreeing, Between
    <3>3. /\ Matches(running', LoadPeers, {who[w]}) /\ Holds(running', LoadPeers, {who[w]})
          /\ \A f \in Tunnels(running') : running'.ifs[f].key = who[w] => f = r[1]
      <4>1. CASE r[2] = running
        BY <2>1, <3>2, <4>1
      <4>2. CASE r[2] # running
        <5>1. PICK f \in IfNames \ DOMAIN running.ifs : r = <<f, SetIf(f, Fresh(who[w]))>>
          BY <4>2 DEF Imported
        <5>2. running'.ifs = With(running.ifs, f, Fresh(who[w])) /\ Fresh(who[w]).key = who[w]
          BY <2>1, <5>1, SetIfMakes DEF Fresh, IInv
        <5>3. /\ Tunnels(running') = Tunnels(running) \cup {f} /\ f \notin Tunnels(running)
              /\ DOMAIN running.ifs \subseteq DOMAIN running'.ifs
              /\ \A g \in DOMAIN running.ifs : running'.ifs[g] = running.ifs[g]
              /\ running'.ifs[f].key = who[w]
          BY <5>2 DEF Tunnels, With
        <5>4. /\ Matches(running', LoadPeers, {who[w]})
              /\ \A g \in Tunnels(running') : running'.ifs[g].key = who[w] => g = f
          BY <3>2, <5>3 DEF Matches, Tunnels
        <5>5. Holds(running', LoadPeers, {who[w]})
          BY <3>2, <5>3 DEF Holds
        <5> QED
          BY <5>1, <5>4, <5>5
      <4> QED
        BY <4>1, <4>2
    <3>4. ifn'[w] = r[1]
      BY <1>3 DEF IInv, Typed
    <3> QED
      BY <2>1, <3>1, <3>2, <3>3, <3>4 DEF Between, Matches, Holds, Tunnels, Here
  <2>3. ~upset' => ~upset
    BY <1>3 DEF Same, Noted
  <2> QED
    BY <1>1, <1>3, <2>1, <2>2, <2>3, AgreeGoesOn DEF Same, registry, JobLabels
<1> QED
  BY <1>2, <1>3 DEF Import

LEMMA AgreeAdopts ==
  ASSUME IInv, ControlOK, HistoryOK, Shape, Stations, ImportInv, AgreeInv,
         NEW w \in Workers, AdoptOrphan(w)
  PROVE  AgreeInv'
<1>1. pc[w] = "orphan" /\ pc[w] \in JobLabels
  BY DEF AdoptOrphan, At, JobLabels
<1>2. Orphans(ifn[w]) = {}
  BY <1>1 DEF IInv, HoldsIface, Orphans
<1>3. /\ Answered(w, running, "setup") \/ Failed(w, running, "setup")
      /\ ifn' = ifn
  BY <1>2 DEF AdoptOrphan, IInv, Typed
<1>4. Framed(w, "setup")
  BY <1>3, CallFramed
<1>5. ASSUME ~upset', Agreeing(w) PROVE clean'[w] /\ Between(w)'
  <2>1. clean'[w] /\ UNCHANGED <<who, list, LoadPeers>>
    BY <1>5 DEF AdoptOrphan, Same, Noted, registry, LoadPeers
  <2>2. w \in sessions /\ running' = running /\ pc'[w] = "setup"
    BY <1>3, <2>1, CleanCall DEF Done
  <2> QED
    BY <1>1, <1>3, <1>5, <2>1, <2>2 DEF Agreeing, Between, Matches, Holds, Tunnels, Here
<1>6. ~upset' => ~upset
  BY DEF AdoptOrphan, Same, Noted
<1> QED
  BY <1>1, <1>4, <1>5, <1>6, AgreeGoesOn DEF AdoptOrphan, Same, registry, JobLabels

(* A worker in order has made what its label says. *)
LEMMA AgreeingMakes ==
  ASSUME Stations, ImportInv, NEW w \in Workers, Agreeing(w),
         pc[w] \in {"orphan", "setup", "save"} \/ (op[w] \in Makers /\ Here(w))
  PROVE  op[w] \in Makers /\ MadeSoFar(w)
BY DEF Stations, Fits, ImportInv, Agreeing, Between

LEMMA AgreeSetsUp ==
  ASSUME IInv, ControlOK, HistoryOK, Shape, Stations, ImportInv, AgreeInv,
         NEW w \in Workers, SetupCall(w)
  PROVE  AgreeInv'
<1> DEFINE f    == ifn[w]
           made == Configured(Setup[step[w]], running.ifs[f], Named(w))
           new  == IF f \in DOMAIN running.ifs THEN SetIf(f, made) ELSE running
           next == IF step[w] = Len(Setup) THEN "save" ELSE "setup"
<1>1. pc[w] = "setup" /\ pc[w] \in JobLabels /\ step[w] \in 1 .. Len(Setup)
  BY DEF SetupCall, At, JobLabels, IInv, Typed
<1>2. Done(w, new, next) \/ Failed(w, new, next)
  BY DEF SetupCall
<1>3. next \in {"save", "setup"} /\ next \in JobLabels
  BY DEF JobLabels
<1>4. Framed(w, next)
  <2> HIDE DEF new, next
  <2> QED
    BY <1>2, CallFramed
<1>5. ASSUME ~upset', Agreeing(w) PROVE clean'[w] /\ Between(w)'
  <2>1. clean'[w] /\ UNCHANGED <<who, ifn, list, LoadPeers>>
    BY <1>5 DEF SetupCall, Same, Noted, registry, LoadPeers
  <2>2. w \in sessions /\ running' = new /\ pc'[w] = next
    <3> HIDE DEF new, next
    <3> QED
      BY <1>2, <2>1, CleanCall
  <2>3. HasKey(w, running) /\ SetUpTo(step[w], running.ifs[f], Named(w))
    BY <1>1, <1>5, <2>2, AgreeingMakes DEF MadeSoFar
  <2>4. running.ifs[f] \in Iface /\ new = SetIf(f, made) /\ f \in DOMAIN running.ifs
    BY <2>3, IfaceThere DEF HasKey, IInv
  <2>5. made.key = running.ifs[f].key
    BY <1>1, <2>3, <2>4, SetUpFurther
  <2>6. running'.ifs = With(running.ifs, f, made)
    BY <2>2, <2>4, SetIfMakes DEF IInv
  <2>7. /\ Here(w) /\ Matches(running, LoadPeers, {who[w]}) /\ Holds(running, LoadPeers, {who[w]})
        /\ \A g \in Tunnels(running) : running.ifs[g].key = who[w] => g = ifn[w]
    BY <1>1, <1>5, <2>2 DEF Agreeing, Between
  <2>8. running.ifs[f].key = who[w]
    BY <2>3 DEF HasKey
  <2> HIDE DEF made, new
  <2>9. /\ Tunnels(running') = Tunnels(running) /\ DOMAIN running'.ifs = DOMAIN running.ifs
        /\ \A g \in DOMAIN running.ifs : running'.ifs[g].key = running.ifs[g].key
        /\ \A g \in DOMAIN running.ifs : running.ifs[g].key # who[w] => running'.ifs[g] = running.ifs[g]
    BY <2>4, <2>5, <2>6, <2>8 DEF Tunnels, With
  <2> HIDE DEF f, next
  <2>10. /\ Matches(running', LoadPeers, {who[w]})
         /\ \A g \in Tunnels(running') : running'.ifs[g].key = who[w] => g = ifn[w]
    BY <2>7, <2>9 DEF Matches, Tunnels
  <2>11. Holds(running', LoadPeers, {who[w]})
    BY <2>7, <2>9 DEF Holds
  <2> QED
    BY <1>3, <2>1, <2>2, <2>7, <2>10, <2>11 DEF Between, Matches, Holds, Tunnels, Here
<1>6. ~upset' => ~upset
  BY DEF SetupCall, Same, Noted
<1>7. UNCHANGED <<op, alone, list, peersFile>>
  BY DEF SetupCall, Same, registry
<1> HIDE DEF next
<1> QED
  BY <1>1, <1>3, <1>4, <1>5, <1>6, <1>7, AgreeGoesOn

LEMMA AgreeSkips ==
  ASSUME ControlOK, AgreeInv, NEW w \in Workers, SkipPeer(w) \/ PeersFailed(w)
  PROVE  AgreeInv'
BY DEF SkipPeer, PeersFailed, LocalFailed, Same, Noted, ControlOK, AgreeInv

LEMMA AgreeSaves ==
  ASSUME IInv, ControlOK, HistoryOK, Shape, Stations, ImportInv, AgreeInv,
         NEW w \in Workers, SaveRouter(w)
  PROVE  AgreeInv'
<1>1. pc[w] = "save" /\ pc[w] \in JobLabels
  BY DEF SaveRouter, At, JobLabels
<1>2. Framed(w, "record")
  BY SaveFramed DEF SaveRouter
<1>3. ASSUME ~upset', Agreeing(w) PROVE clean'[w] /\ Between(w)'
  <2>1. clean'[w] /\ UNCHANGED <<who, LoadPeers>>
    BY <1>3 DEF SaveRouter, Same, Noted, registry, LoadPeers, vpnLocals
  <2>2. w \in sessions /\ running' = running /\ startup' = running /\ pc'[w] = "record"
    BY <2>1 DEF SaveRouter, Saved, SaveFailed, Ignored, ControlOK, Goto
  <2>3. HasKey(w, running) /\ SetUpTo(6, running.ifs[ifn[w]], Named(w))
    BY <1>1, <1>3, <2>2, AgreeingMakes DEF MadeSoFar
  <2>4. running.ifs[ifn[w]].desc = Slug[LoadPeers[who[w]].name]
    <3>1. list[w] = LoadPeers
      BY <1>1, <1>3 DEF ImportInv, Carries, Agreeing, Stations, Fits, Busy, VpnLabels
    <3> QED
      BY <2>3, <3>1 DEF SetUpTo, Named
  <2>5. /\ Matches(running, LoadPeers, {who[w]}) /\ Holds(running, LoadPeers, {who[w]})
        /\ \A f \in Tunnels(running) : running.ifs[f].key = who[w] => f = ifn[w]
    BY <1>1, <1>3, <2>2 DEF Agreeing, Between
  <2>6. Matches(running, LoadPeers, {})
    BY <2>4, <2>5 DEF Matches, Tunnels
  <2> QED
    BY <2>1, <2>2, <2>5, <2>6 DEF Between, Both, Matches, Holds, Tunnels
<1>4. ~upset' => ~upset
  BY DEF SaveRouter, Same, Noted
<1> QED
  BY <1>1, <1>2, <1>3, <1>4, AgreeGoesOn DEF SaveRouter, Same, registry, vpnLocals, JobLabels

(* What is written back is what the router has. *)
LEMMA AgreeRecords ==
  ASSUME IInv, ControlOK, HistoryOK, Shape, Stations, ImportInv, AgreeInv,
         NEW w \in Workers, Record(w)
  PROVE  AgreeInv'
<1>1. /\ pc[w] = "record" /\ pc[w] \in JobLabels /\ Busy(w) /\ Busy(w)'
      /\ UNCHANGED <<router, clean, op, who, ifn, alone, upset, peersFile>>
  BY DEF Record, At, JobLabels, VpnLabels, Stations, Fits, Busy, Local, history, registry
<1>2. \/ Writes(w) /\ pc'[w] = "trunc" /\ list'[w] = Recorded(w)
      \/ ~Writes(w) /\ pc'[w] = "report" /\ list' = list
  BY DEF Record, Local, Goto, IInv, Typed, ControlOK
<1>3. ASSUME ~upset' PROVE Agreeing(w)'
  <2> DEFINE p == who[w]
             l == LoadPeers
  <2>1. Agreeing(w) /\ peersFile # Torn
    BY <1>1, <1>3 DEF AgreeInv, InOrder, Agreeing
  <2>2. Both(l, {p}) /\ list[w] = l /\ p \in DOMAIN l /\ l[p] \in PeerRec
    BY <1>1, <2>1, HeldPeer DEF Agreeing, Between, ImportInv, Carries, IInv
  <2>3. op[w] \in Makers /\ l[p].here =>
                            /\ ifn[w] \in DOMAIN running.ifs /\ running.ifs[ifn[w]].key = p
                            /\ ifn[w] \in DOMAIN startup.ifs /\ startup.ifs[ifn[w]].key = p
    BY <1>1, <2>1, <2>2, AgreeingMakes DEF MadeSoFar, Made, HasKey, Here
  <2>4. ASSUME NEW r, r.name = l[p].name, r.here = l[p].here,
               r.ifn = NoIf \/ (op[w] \in Makers /\ r.ifn = ifn[w])
        PROVE  Both(With(l, p, r), {})
    BY <2>1, <2>2, <2>3, <2>4 DEF Both, Holds, Matches, With
  <2>5. CASE op[w] = "apply"
    <3> DEFINE r == [l[p] EXCEPT !.ifn = ifn[w], !.vpn = TRUE]
    <3>1. r.name = l[p].name /\ r.here = l[p].here /\ r.ifn = ifn[w]
      BY <2>2 DEF PeerRec
    <3>2. pc'[w] = "trunc" /\ list'[w] = With(l, p, r)
      BY <1>2, <2>2, <2>5 DEF Writes, Recorded
    <3> HIDE DEF r
    <3>3. Both(list[w], {})'
      BY <1>1, <2>4, <2>5, <3>1, <3>2 DEF Makers, Both, router, Matches, Holds, Tunnels
    <3> QED
      BY <1>1, <2>1, <3>2, <3>3 DEF Agreeing, Between, LoadPeers
  <2>6. CASE op[w] = "remove"
    <3> DEFINE r == [l[p] EXCEPT !.ifn = NoIf, !.vpn = FALSE]
    <3>1. r.name = l[p].name /\ r.here = l[p].here /\ r.ifn = NoIf
      BY <2>2 DEF PeerRec
    <3>2. pc'[w] = "trunc" /\ list'[w] = With(l, p, r)
      BY <1>2, <2>2, <2>6 DEF Writes, Recorded
    <3> HIDE DEF r
    <3>3. Both(list[w], {})'
      BY <1>1, <2>4, <3>1, <3>2 DEF Both, router, Matches, Holds, Tunnels
    <3> QED
      BY <1>1, <2>1, <3>2, <3>3 DEF Agreeing, Between, LoadPeers
  <2>7. CASE op[w] = "import" /\ Writes(w)
    <3> DEFINE r == [l[p] EXCEPT !.ifn = ifn[w]]
    <3>1. r.name = l[p].name /\ r.here = l[p].here /\ r.ifn = ifn[w]
      BY <2>2 DEF PeerRec
    <3>2. pc'[w] = "trunc" /\ list'[w] = With(l, p, r)
      BY <1>2, <2>2, <2>7 DEF Recorded
    <3> HIDE DEF r
    <3>3. Both(list[w], {})'
      BY <1>1, <2>4, <2>7, <3>1, <3>2 DEF Makers, Both, router, Matches, Holds, Tunnels
    <3> QED
      BY <1>1, <2>1, <3>2, <3>3 DEF Agreeing, Between, LoadPeers
  <2>8. CASE op[w] = "import" /\ ~Writes(w)
    <3>1. pc'[w] = "report" /\ list' = list /\ l[p].ifn = ifn[w]
      BY <1>2, <2>2, <2>8 DEF Writes
    <3>2. Both(l, {})
      BY <2>2, <2>3, <2>8, <3>1 DEF Both, Holds, Matches, Makers
    <3>3. Both(LoadPeers, {})'
      BY <1>1, <3>2 DEF Both, router, LoadPeers, Matches, Holds, Tunnels
    <3> QED
      BY <1>1, <2>1, <3>1, <3>3 DEF Agreeing, Between, LoadPeers
  <2>9. op[w] \in {"apply", "remove", "import"}
    BY <1>1 DEF Stations, Fits, Makers
  <2> QED
    BY <2>5, <2>6, <2>7, <2>8, <2>9
<1> QED
  BY <1>1, <1>3, AgreeMoves

LEMMA AgreeWrites ==
  ASSUME IInv, ControlOK, HistoryOK, Shape, Stations, ImportInv, AgreeInv,
         NEW w \in Workers, PeersTrunc(w) \/ PeersWrite(w)
  PROVE  AgreeInv'
<1>1. /\ pc[w] \in {"trunc", "write"} /\ Busy(w) /\ Busy(w)'
      /\ UNCHANGED <<router, clean, vpnLocals, alone, upset>>
  BY DEF PeersTrunc, PeersWrite, At, VpnLabels, Stations, Fits, Busy, Local, vpnLocals, history
<1>2. \/ pc'[w] = "write" /\ peersFile' = Torn
      \/ pc'[w] = "report" /\ peersFile' = list[w] /\ list[w] # Torn
  BY TornUnlisted DEF PeersTrunc, PeersWrite, Local, Goto, ControlOK, IInv, Typed
<1>3. ASSUME ~upset' PROVE Agreeing(w)'
  <2>1. Agreeing(w) /\ Both(list[w], {})
    BY <1>1, <1>3 DEF AgreeInv, InOrder, Agreeing, Between
  <2>2. Both(list[w], {})'
    BY <1>1, <2>1 DEF Both, router, vpnLocals, Matches, Holds, Tunnels
  <2>3. CASE pc'[w] = "write" /\ peersFile' = Torn
    BY <1>1, <2>1, <2>2, <2>3 DEF Agreeing, Between, LoadPeers, vpnLocals
  <2>4. CASE pc'[w] = "report" /\ peersFile' = list[w] /\ list[w] # Torn
    <3>1. LoadPeers' = list'[w] /\ list' = list
      BY <1>1, <2>4 DEF LoadPeers, vpnLocals
    <3>2. Both(LoadPeers, {})'
      BY <2>2, <3>1 DEF Both
    <3> QED
      BY <1>1, <2>1, <2>4, <3>1, <3>2 DEF Agreeing, Between
  <2> QED
    BY <1>2, <2>3, <2>4
<1> QED
  BY <1>1, <1>3, AgreeMoves DEF vpnLocals

LEMMA AgreeFinishes ==
  ASSUME IInv, ControlOK, HistoryOK, Shape, Stations, ImportInv, AgreeInv,
         NEW w \in Workers, Finish(w)
  PROVE  AgreeInv'
<1>1. pc[w] = "report" /\ Busy(w) /\ UNCHANGED <<peersFile, router, upset>>
  BY DEF Finish, At, VpnLabels, Stations, Fits, Busy, Local
<1>2. ~Busy(w)' /\ \A v \in Workers \ {w} : op'[v] = op[v]
  BY DEF Finish, Leave, Shape, Busy
<1>3. ASSUME ~upset' PROVE peersFile' # Torn /\ Both(LoadPeers, {})'
  BY <1>1, <1>3 DEF AgreeInv, InOrder, Agreeing, Between, Both, Matches, Holds, Tunnels, router,
     LoadPeers
<1> QED
  BY <1>1, <1>2, <1>3, AgreeMoves

LEMMA InitAgree == Init => AgreeInv
<1> SUFFICES ASSUME Init PROVE InOrder
  BY DEF AgreeInv
<1>1. peersFile \in [Peers -> PeerRec] /\ \A p \in Peers : peersFile[p].here => peersFile[p].ifn = NoIf
  BY Registries DEF Init, InitVpn
<1>2. peersFile # Torn
  BY <1>1, TornUnlisted DEF Lists
<1>3. Tunnels(running) = {} /\ Tunnels(startup) = {}
  BY RouterNames DEF Init, InitRouter, Tunnels
<1>4. Both(LoadPeers, {})
  BY <1>1, <1>2, <1>3 DEF LoadPeers, Both, Matches, Holds
<1>5. \A w \in Workers : ~Busy(w)
  BY DEF Init, InitVpn, Busy
<1> QED
  BY <1>2, <1>4, <1>5 DEF InOrder

LEMMA StepAgree ==
  ASSUME IInv, LiveInv, RestInv, Stations, ImportInv, AgreeInv, [Next]_vars
  PROVE  AgreeInv'
<1>1. ASSUME NEW w \in Workers, Step(w) PROVE AgreeInv'
  <2>1. CASE VpnStep(w)
    BY <2>1, AgreeBegins, AgreeLogins, AgreeElsewhere, AgreeRemoves, AgreeLists, AgreeRemovesOld, AgreeImports,
       AgreeAdopts, AgreeSetsUp, AgreeSkips, AgreeSaves, AgreeRecords, AgreeWrites, AgreeFinishes
       DEF VpnStep, LiveInv, RestInv
  <2>2. CASE (ComponentsStep(w) \/ DnsStep(w)) /\ UNCHANGED vpnVars
    <3>1. PICK label :
            /\ Framed(w, label) /\ pc[w] \notin VpnLabels /\ label \notin VpnLabels
            /\ running'.ifs = running.ifs /\ startup' \in {startup, running}
      BY <2>2, OtherSteps DEF IInv, RestInv
    <3> QED
      BY <2>2, <3>1, AgreeUndisturbed DEF RestInv
  <2> QED
    BY <1>1, <2>1, <2>2 DEF Step
<1>2. CASE Reboot \/ UNCHANGED vars
  <2>1. /\ UNCHANGED <<vpnVars, pc, clean, startup>> /\ running' \in {running, startup}
        /\ sessions' \subseteq sessions /\ (running' = running \/ sessions' = {})
    BY <1>2 DEF Reboot, InstallReboot, PowerReboot, control, router, vars
  <2>2. UNCHANGED <<LoadPeers, peersFile, list, who, old, ifn, op, alone, upset>>
    BY <2>1 DEF vpnVars, vpnLocals, registry, history, LoadPeers
  <2>3. \A l, X : Both(l, X) => Both(l, X)'
    BY <2>1 DEF Both, Matches, Holds, Tunnels
  <2>4. \A w \in Workers : Agreeing(w) => Agreeing(w)'
    BY <2>1, <2>2, <2>3 DEF Agreeing, Between, Matches, Holds, Tunnels, Here
  <2> QED
    BY <2>2, <2>3, <2>4 DEF AgreeInv, InOrder, Busy
<1>3. CASE Dies
  BY <1>3 DEF Dies, EndProcess, VpnCut, router, registry, LoadPeers, AgreeInv, InOrder, Busy,
     Both, Matches, Holds, Tunnels
<1> QED
  BY <1>1, <1>2, <1>3 DEF Next, Crash, Panic

(* As long as requests about tunnels have come one at a time, every call   *)
(* and write of theirs was done, no peer has been renamed or moved to      *)
(* another router, and no import has removed an interface that was         *)
(* described as its peer without being that peer's tunnel, peers.json and  *)
(* the router agree whenever no request is under way, whatever else was    *)
(* done to the router, and through reboots: what is recorded for a peer is *)
(* there and is that peer's, and no peer has two tunnels (applyPeerVpn,    *)
(* removePeerVpn, importPeerToKeenetic).                                   *)
THEOREM TunnelsAlwaysAgree == Spec => []TunnelsAgree
<1>1. AgreeInv => TunnelsAgree
  <2> SUFFICES ASSUME AgreeInv, Quiet, ~upset
               PROVE  /\ \A p \in DOMAIN peersFile :
                           LET f == peersFile[p].ifn
                           IN  peersFile[p].here /\ f # NoIf =>
                                 f \in DOMAIN running.ifs /\ running.ifs[f].key = p
                      /\ \A f, g \in IfNames \cap DOMAIN running.ifs :
                           running.ifs[f].key = running.ifs[g].key => f = g
    BY DEF TunnelsAgree
  <2>1. Matches(running, peersFile, {}) /\ Holds(running, peersFile, {})
    BY DEF AgreeInv, InOrder, Quiet, Both, LoadPeers
  <2> QED
    BY <2>1 DEF Matches, Holds, Tunnels
<1>2. IInv /\ LiveInv /\ RestInv /\ Stations /\ ImportInv /\ AgreeInv /\ [Next]_vars => AgreeInv'
  BY StepAgree
<1> QED
  BY <1>1, <1>2, InitStations, StepStations, InitImportInv, StepImportInv, InitAgree, Rests, PTL DEF Spec
===============================================================================
