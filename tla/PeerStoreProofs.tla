--------------------------- MODULE PeerStoreProofs ---------------------------
(***************************************************************************)
(* Proofs about PeerStore for any number of concurrent requests, any peer  *)
(* ids, names and subnets, and any number of requests and crashes.         *)
(***************************************************************************)
EXTENDS PeerStore, TLAPS

Labels == {"idle", "addcfg", "trunc", "write", "cfg", "conf", "show", "sync",
           "cfgtrunc", "cfgwrite", "cfgload", "renumber", "down", "quickup"}
Ops    == {"none", "add", "remove", "edit", "subnet", "settings", "post", "general"}

(* The inductive invariant: each list is typed and has distinct addresses, *)
(* the stored ones (StoreOK) and those the requests carry (LocalsOK). The  *)
(* second part is what makes the first inductive: a request saves the list *)
(* it carries, whatever the file holds by then.                            *)
Good(l) == IsList(l) /\ Distinct(l)
Injective(s) == \A i, j \in DOMAIN s : s[i] = s[j] => i = j

StoreOK ==
  /\ cfgFile \in Subnets \cup {BadSubnet, Torn}
  /\ peersFile = Torn \/ IsList(peersFile)
  /\ peersFile # Torn => Distinct(peersFile)
  /\ IsSections(wgConf) /\ Injective(wgConf)
  /\ ifaceUp \in BOOLEAN
  /\ IsSections(ifacePeers)
  /\ ui = [sub |-> ui.sub, peers |-> ui.peers]
  /\ ui.sub \in Subnets \cup {BadSubnet}
  /\ Good(ui.peers)
  /\ used \subseteq Ids
  /\ reqs \in 0 .. MaxRequests
  /\ faults \in 0 .. MaxFaults /\ broken \in BOOLEAN
  /\ proc \in {"load", "generate", "sync", "up"}

LocalsOK ==
  /\ pc \in [Workers -> Labels]
  /\ op \in [Workers -> Ops]
  /\ id \in [Workers -> Ids \cup {NoId}]
  /\ sub \in [Workers -> Subnets \cup {BadSubnet, Torn}]
  /\ DOMAIN list = Workers /\ \A w \in Workers : Good(list[w])
  /\ todo \in [Workers -> SUBSET Ids]
  /\ DOMAIN shown = Workers /\ \A w \in Workers : IsSections(shown[w])
  /\ \A w \in Workers : op[w] = "add" => pc[w] = "addcfg" \/ id[w] \in DOMAIN list[w]
  /\ \A w \in Workers :
       pc[w] \in {"cfgtrunc", "cfgwrite", "cfgload", "renumber"} => op[w] # "add"
  /\ \A w \in Workers : pc[w] = "renumber" => todo[w] \subseteq DOMAIN list[w]

IInv == StoreOK /\ LocalsOK

-----------------------------------------------------------------------------
(* Lemmas about the list operators.                                        *)

LEMMA EmptyGood == Good(EmptyList) /\ IsSections(EmptyList)
BY DEF Good, IsList, IsSections, Distinct, EmptyList

LEMMA LoadPeersGood == ASSUME StoreOK PROVE Good(LoadPeers)
BY EmptyGood DEF StoreOK, LoadPeers, Good

(* Replacing or adding a peer keeps the addresses distinct when no other   *)
(* peer has its address.                                                   *)
LEMMA WithGood ==
  ASSUME NEW l, Good(l), NEW i \in Ids, NEW p \in Peer,
         \A j \in DOMAIN l : j # i => l[j].ip # p.ip
  PROVE  Good(With(l, i, p))
BY DEF Good, IsList, Distinct, With

LEMMA WithoutGood == ASSUME NEW l, Good(l), NEW i PROVE Good(Without(l, i))
BY DEF Good, IsList, Distinct, Without

LEMMA WithoutSections == ASSUME NEW s, IsSections(s), NEW i PROVE IsSections(Without(s, i))
BY DEF IsSections, Without

LEMMA IpsInjective == ASSUME NEW l, Good(l) PROVE IsSections(Ips(l)) /\ Injective(Ips(l))
BY DEF Good, IsList, IsSections, Distinct, Injective, Ips, Peer

(* nextAvailableIP never hands out an address a peer of the list holds,    *)
(* nor one of the two that the server keeps.                               *)
LEMMA NextAvailableIPFresh ==
  ASSUME NEW l, NEW s, NEW a \in NextAvailableIP(l, s)
  PROVE  /\ s \in Subnets /\ a \in Nat
         /\ a # s.base /\ a # s.base + 1
         /\ \A j \in DOMAIN l : l[j].ip # a
<1>1. s \in Subnets /\ a \in Free(l, s)
  BY DEF NextAvailableIP
<1>2. s.base \in Nat /\ s.size \in Nat
  BY <1>1, SubnetsAssumption
<1>3. a \in s.base + 1 .. s.base + s.size - 2 /\ a \notin Taken(l, s)
  BY <1>1 DEF Free
<1>4. a \in Nat
  BY <1>2, <1>3
<1> QED
  BY <1>1, <1>3, <1>4 DEF Taken

LEMMA AppendSectionOK ==
  ASSUME NEW s, IsSections(s), NEW i \in Ids, NEW a \in Nat
  PROVE  IsSections(AppendSection(s, i, a))
BY DEF IsSections, AppendSection

LEMMA FaultsOK ==
  ASSUME faults \in 0 .. MaxFaults, broken \in BOOLEAN, Fault \/ UNCHANGED failures
  PROVE  faults' \in 0 .. MaxFaults /\ broken' \in BOOLEAN
<1>1. faults' \in 0 .. MaxFaults
  BY BoundAssumption DEF Fault, failures
<1>2. broken' \in BOOLEAN
  BY DEF Fault, failures
<1> QED
  BY <1>1, <1>2

(* A request that ends, and one that has edited its list, leave every      *)
(* worker with good locals.                                                *)
LEMMA ResetOK == ASSUME LocalsOK, NEW w \in Workers, Reset(w) PROVE LocalsOK'
BY EmptyGood, SubnetsAssumption DEF LocalsOK, Reset, Goto, Labels, Ops

LEMMA EditedOK ==
  ASSUME LocalsOK, NEW w \in Workers, NEW o \in Ops, NEW i \in Ids, NEW l, Good(l),
         Edited(w, o, i, l), sub' \in [Workers -> Subnets \cup {BadSubnet, Torn}],
         UNCHANGED <<todo, shown>>, o = "add" => i \in DOMAIN l
  PROVE  LocalsOK'
BY DEF LocalsOK, Edited, Goto, Labels

-----------------------------------------------------------------------------
(* The steps, grouped by the state they touch.                             *)

(* The first step of each request that edits a list: only locals, the ids  *)
(* generated and the request count change.                                 *)
LEMMA EditSteps ==
  ASSUME IInv, NEW w \in Workers,
         AddLoad(w) \/ AddCfg(w) \/ AddRefused(w) \/ RemoveLoad(w)
           \/ UpdateLoad(w) \/ ImportLoad(w) \/ VpnJobLoad(w)
  PROVE  IInv'
<1> USE DEF IInv, failures, Fault
<1> DEFINE L == LoadPeers
<1>1. Good(L) /\ \A i \in DOMAIN L : i \in Ids /\ L[i] \in Peer
  BY LoadPeersGood DEF Good, IsList
<1>2. Begin(w) /\ UNCHANGED <<files, iface, ui, used, proc, failures>> => StoreOK'
  BY BoundAssumption DEF StoreOK, Begin, files, iface
<1>3. ASSUME NEW i \in DOMAIN L, NEW p \in Peer, p.ip = L[i].ip
      PROVE  Good(With(L, i, p))
  BY <1>1, <1>3, WithGood DEF Good, Distinct
<1>4. CASE AddLoad(w)
  <2>1. LocalsOK'
    BY <1>1, <1>4 DEF AddLoad, LocalsOK, At, Goto, Labels, Ops
  <2> QED
    BY <1>2, <1>4, <2>1 DEF AddLoad
<1>5. CASE AddCfg(w)
  <2>1. PICK a \in NextAvailableIP(list[w], cfgFile), i \in Ids \ used, n \in Names :
          /\ Edited(w, "add", i, With(list[w], i, [ip |-> a, name |-> n, ifn |-> NoIf]))
          /\ used' = used \cup {i}
    BY <1>5 DEF AddCfg
  <2>2. [ip |-> a, name |-> n, ifn |-> NoIf] \in Peer
    BY NextAvailableIPFresh DEF Peer
  <2>3. Good(list[w])
    BY DEF LocalsOK
  <2>4. Good(With(list[w], i, [ip |-> a, name |-> n, ifn |-> NoIf]))
    BY <2>2, <2>3, WithGood, NextAvailableIPFresh
  <2>5. sub' \in [Workers -> Subnets \cup {BadSubnet, Torn}] /\ UNCHANGED <<todo, shown>>
    BY <1>5 DEF AddCfg, LocalsOK, StoreOK
  <2>6. LocalsOK'
    BY <2>1, <2>4, <2>5, EditedOK DEF Ops, With
  <2>7. StoreOK'
    BY <1>5, <2>1 DEF AddCfg, StoreOK, files, iface
  <2> QED
    BY <2>6, <2>7
<1>6. CASE AddRefused(w)
  BY <1>6, ResetOK DEF AddRefused, StoreOK, files, iface
<1>7. ASSUME Begin(w), UNCHANGED <<files, iface, ui, used, proc, failures, sub, todo, shown>>,
             NEW o \in Ops \ {"add"}, NEW i \in Ids, NEW l, Good(l), Edited(w, o, i, l)
      PROVE  IInv'
  <2>1. sub' \in [Workers -> Subnets \cup {BadSubnet, Torn}]
    BY <1>7 DEF LocalsOK
  <2> QED
    BY <1>2, <1>7, <2>1, EditedOK
<1>8. CASE RemoveLoad(w)
  <2>1. PICK i \in DOMAIN L : Edited(w, "remove", i, Without(L, i))
    BY <1>8 DEF RemoveLoad
  <2>2. Good(Without(L, i))
    BY <1>1, WithoutGood
  <2> QED
    BY <1>1, <1>7, <1>8, <2>1, <2>2 DEF RemoveLoad, Ops
<1>9. CASE UpdateLoad(w)
  <2>1. PICK i \in DOMAIN L, n \in Names :
          Edited(w, "edit", i, With(L, i, [L[i] EXCEPT !.name = n]))
    BY <1>9 DEF UpdateLoad
  <2>2. Good(With(L, i, [L[i] EXCEPT !.name = n]))
    BY <1>1, <1>3 DEF Peer
  <2> QED
    BY <1>1, <1>7, <1>9, <2>1, <2>2 DEF UpdateLoad, Ops
<1>10. CASE ImportLoad(w) \/ VpnJobLoad(w)
  <2>1. PICK i \in DOMAIN L, f \in Ifs \cup {NoIf} :
          Edited(w, "edit", i, With(L, i, [L[i] EXCEPT !.ifn = f]))
    BY <1>10 DEF ImportLoad, VpnJobLoad
  <2>2. Good(With(L, i, [L[i] EXCEPT !.ifn = f]))
    BY <1>1, <1>3 DEF Peer
  <2> QED
    BY <1>1, <1>7, <1>10, <2>1, <2>2 DEF ImportLoad, VpnJobLoad, Ops
<1> QED
  BY <1>4, <1>5, <1>6, <1>8, <1>9, <1>10

(* Saving a list and rendering it: the list is one a request carries.      *)
LEMMA SaveSteps ==
  ASSUME IInv, NEW w \in Workers,
         PeersTrunc(w) \/ PeersWrite(w) \/ PeersFailed(w) \/ RemoveCfg(w) \/ GenerateWgConfig(w)
  PROVE  IInv'
<1> USE DEF IInv, failures, Fault
<1>1. Good(list[w]) /\ IsSections(Ips(list[w])) /\ Injective(Ips(list[w]))
  BY IpsInjective DEF LocalsOK
<1>2. CASE PeersTrunc(w)
  BY <1>2 DEF PeersTrunc, StoreOK, LocalsOK, At, Goto, iface, Labels
<1>3. CASE PeersWrite(w)
  <2>1. StoreOK'
    BY <1>1, <1>3 DEF PeersWrite, StoreOK, iface, Good
  <2>2. LocalsOK'
    BY <1>3, ResetOK DEF PeersWrite, LocalsOK, At, Goto, Labels
  <2> QED
    BY <2>1, <2>2
<1>4. CASE RemoveCfg(w)
  BY <1>4 DEF RemoveCfg, StoreOK, LocalsOK, At, Goto, files, iface, Labels
<1>5. CASE GenerateWgConfig(w)
  <2>1. StoreOK'
    <3>1. (wgConf' = Ips(list[w]) \/ wgConf' = wgConf)
          /\ UNCHANGED <<cfgFile, peersFile, iface, ui, used, reqs, proc>>
      BY <1>5 DEF GenerateWgConfig, RenderConf, KeepConf
    <3>2. faults' \in 0 .. MaxFaults /\ broken' \in BOOLEAN
      BY <1>5, FaultsOK DEF GenerateWgConfig, StoreOK
    <3> QED
      BY <1>1, <3>1, <3>2 DEF StoreOK, iface
  <2>2. LocalsOK'
    BY <1>5, ResetOK DEF GenerateWgConfig, RenderConf, KeepConf, LocalsOK, At, Goto, Labels
  <2> QED
    BY <2>1, <2>2
<1>6. CASE PeersFailed(w)
  <2>1. StoreOK'
    BY <1>6, BoundAssumption DEF PeersFailed, StoreOK, files, iface
  <2>2. LocalsOK'
    BY <1>6, ResetOK DEF PeersFailed, LocalsOK, Goto, Labels
  <2> QED
    BY <2>1, <2>2
<1> QED
  BY <1>2, <1>3, <1>4, <1>5, <1>6

(* The running interface: no list changes.                                 *)
LEMMA InterfaceSteps ==
  ASSUME IInv, NEW w \in Workers,
         ShowConf(w) \/ SyncConf(w) \/ SyncFailed(w) \/ Restart(w) \/ WgQuickDown(w)
           \/ WgQuickUp(w) \/ StopServer(w) \/ StartServer(w) \/ GetConfig(w)
  PROVE  IInv'
<1> USE DEF IInv, failures, Fault
<1>1. CASE ShowConf(w)
  BY <1>1 DEF ShowConf, StoreOK, LocalsOK, At, Goto, files, iface, Labels
<1>2. CASE SyncConf(w)
  <2>1. LocalsOK' /\ UNCHANGED <<files, ifaceUp, ui, used, reqs, proc>>
    BY <1>2, ResetOK DEF SyncConf
  <2>2. IsSections(ifacePeers')
    <3>1. IsSections(shown[w])
      BY DEF LocalsOK
    <3>2. CASE op[w] = "add"
      <4>1. ifacePeers' = AppendSection(shown[w], id[w], list[w][id[w]].ip)
        BY <1>2, <3>2 DEF SyncConf
      <4>2. id[w] \in DOMAIN list[w] /\ Good(list[w])
        BY <1>2, <3>2 DEF SyncConf, At, LocalsOK
      <4>3. id[w] \in Ids /\ list[w][id[w]].ip \in Nat
        BY <4>2 DEF Good, IsList, Peer
      <4> QED
        BY <3>1, <4>1, <4>3, AppendSectionOK
    <3>3. CASE op[w] # "add"
      BY <1>2, <3>1, <3>3, WithoutSections DEF SyncConf
    <3> QED
      BY <3>2, <3>3
  <2> QED
    BY <1>2, <2>1, <2>2 DEF SyncConf, StoreOK, files
<1>3. CASE SyncFailed(w)
  BY <1>3, ResetOK DEF SyncFailed, StoreOK, files, iface
<1>4. CASE Restart(w)
  BY <1>4, BoundAssumption DEF Restart, Begin, StoreOK, LocalsOK, At, Goto, files, iface, Labels
<1>5. CASE WgQuickDown(w)
  BY <1>5, EmptyGood DEF WgQuickDown, StoreOK, LocalsOK, At, Goto, files, Labels
<1>6. CASE WgQuickUp(w)
  BY <1>6, ResetOK DEF WgQuickUp, StoreOK, files
<1>7. CASE StopServer(w) \/ StartServer(w)
  BY <1>7, EmptyGood DEF StopServer, StartServer, StoreOK, LocalsOK, files, locals
<1>8. CASE GetConfig(w)
  BY <1>8, LoadPeersGood DEF GetConfig, StoreOK, LocalsOK, files, iface, locals
<1> QED
  BY <1>1, <1>2, <1>3, <1>4, <1>5, <1>6, <1>7, <1>8

(* saveConfig up to the point where it saves the list.  A posted list is   *)
(* one a browser was given, hence good; renumbering gives a peer a fresh   *)
(* address or leaves the one it has.                                       *)
LEMMA ConfigSteps ==
  ASSUME IInv, NEW w \in Workers,
         SaveConfigRead(w) \/ ConfigTrunc(w) \/ GeneralTrunc(w) \/ ConfigWrite(w)
           \/ ConfigFailed(w) \/ SaveConfigLoad(w) \/ Renumber(w) \/ Renumbered(w)
  PROVE  IInv'
<1> USE DEF IInv, failures, Fault
<1>1. CASE SaveConfigRead(w)
  <2>1. StoreOK'
    BY <1>1, BoundAssumption DEF SaveConfigRead, Begin, StoreOK, files, iface
  <2>2. LocalsOK'
    BY <1>1 DEF SaveConfigRead, StoreOK, LocalsOK, At, Goto, Labels, Ops
  <2> QED
    BY <2>1, <2>2
<1>2. CASE ConfigTrunc(w)
  BY <1>2 DEF ConfigTrunc, StoreOK, LocalsOK, At, Goto, iface, Labels
<1>3. CASE ConfigWrite(w)
  <2>1. StoreOK'
    BY <1>3 DEF ConfigWrite, StoreOK, LocalsOK, iface
  <2>2. LocalsOK'
    BY <1>3, ResetOK DEF ConfigWrite, LocalsOK, At, Goto, Labels
  <2> QED
    BY <2>1, <2>2
<1>4. CASE SaveConfigLoad(w)
  <2>1. Good(LoadPeers) /\ DOMAIN LoadPeers \subseteq Ids
    BY LoadPeersGood DEF Good, IsList
  <2> QED
    BY <1>4, <2>1 DEF SaveConfigLoad, StoreOK, LocalsOK, At, Goto, files, iface, Labels
<1>5. CASE Renumber(w)
  <2>1. /\ op[w] # "add" /\ Good(list[w]) /\ todo[w] \subseteq DOMAIN list[w]
        /\ UNCHANGED <<pc, op, id, sub, shown>>
    BY <1>5 DEF Renumber, At, LocalsOK
  <2>2. PICK i \in todo[w] :
          /\ todo' = [todo EXCEPT ![w] = @ \ {i}]
          /\ \/ \E a \in NextAvailableIP(list[w], sub[w]) :
                  list' = [list EXCEPT ![w] = With(@, i, [@[i] EXCEPT !.ip = a])]
             \/ UNCHANGED list
    BY <1>5 DEF Renumber
  <2>3. todo' \in [Workers -> SUBSET Ids]
    BY <2>2 DEF LocalsOK
  <2>4. DOMAIN list' = Workers /\ \A v \in Workers : v # w => list'[v] = list[v]
    BY <2>2 DEF LocalsOK
  <2>5. Good(list'[w]) /\ DOMAIN list[w] \subseteq DOMAIN list'[w]
    <3>1. CASE UNCHANGED list
      BY <2>1, <3>1
    <3>2. ASSUME NEW a \in NextAvailableIP(list[w], sub[w]),
                 list' = [list EXCEPT ![w] = With(@, i, [@[i] EXCEPT !.ip = a])]
          PROVE  Good(list'[w]) /\ DOMAIN list[w] \subseteq DOMAIN list'[w]
      <4>1. i \in DOMAIN list[w] /\ [list[w][i] EXCEPT !.ip = a] \in Peer
        BY <2>1, NextAvailableIPFresh DEF Good, IsList, Peer
      <4>2. list'[w] = With(list[w], i, [list[w][i] EXCEPT !.ip = a])
        BY <3>2 DEF LocalsOK
      <4>3. [list[w][i] EXCEPT !.ip = a].ip = a
        BY <2>1, <4>1 DEF Good, IsList, Peer
      <4> QED
        <5>1. Good(With(list[w], i, [list[w][i] EXCEPT !.ip = a]))
          BY <2>1, <4>1, <4>3, WithGood, NextAvailableIPFresh DEF Good, IsList
        <5> QED
          BY <4>2, <5>1 DEF With
    <3> QED
      BY <2>2, <3>1, <3>2
  <2>6. todo'[w] \subseteq todo[w] /\ \A v \in Workers : v # w => todo'[v] = todo[v]
    BY <2>2 DEF LocalsOK
  <2>7. LocalsOK'
    BY <2>1, <2>3, <2>4, <2>5, <2>6 DEF LocalsOK
  <2> QED
    BY <1>5, <2>7 DEF Renumber, StoreOK, files, iface
<1>6. CASE Renumbered(w)
  BY <1>6 DEF Renumbered, StoreOK, LocalsOK, At, Goto, files, iface, Labels
<1>7. CASE GeneralTrunc(w)
  <2>1. StoreOK'
    BY <1>7, BoundAssumption DEF GeneralTrunc, Begin, StoreOK, iface
  <2>2. LocalsOK'
    BY <1>7, SubnetsAssumption DEF GeneralTrunc, Begin, StoreOK, LocalsOK, At, Goto, Labels, Ops
  <2> QED
    BY <2>1, <2>2
<1>8. CASE ConfigFailed(w)
  BY <1>8, ResetOK, BoundAssumption DEF ConfigFailed, StoreOK, files, iface
<1> QED
  BY <1>1, <1>2, <1>3, <1>4, <1>5, <1>6, <1>7, <1>8

(* Crashes and the steps of main().                                        *)
LEMMA ProcessSteps == ASSUME IInv, Crash \/ Startup PROVE IInv'
<1> USE DEF IInv, failures, Fault
<1>1. CASE Crash
  BY <1>1, EmptyGood, SubnetsAssumption DEF Crash, StoreOK, LocalsOK, files, iface, Labels, Ops
<1>2. CASE StartConfig
  BY <1>2, SubnetsAssumption DEF StartConfig, StoreOK, LocalsOK, iface, locals
<1>3. CASE StartGenerate
  <2>1. IsSections(Ips(LoadPeers)) /\ Injective(Ips(LoadPeers))
    BY LoadPeersGood, IpsInjective
  <2> QED
    <3>1. (wgConf' = Ips(LoadPeers) \/ wgConf' = wgConf) /\ proc' = "sync"
          /\ UNCHANGED <<cfgFile, peersFile, iface, ui, used, reqs, locals>>
      BY <1>3 DEF StartGenerate
    <3>2. faults' \in 0 .. MaxFaults /\ broken' \in BOOLEAN
      BY <1>3, FaultsOK DEF StartGenerate, StoreOK
    <3> QED
      BY <2>1, <3>1, <3>2 DEF StoreOK, LocalsOK, iface, locals
<1>4. CASE StartSync
  BY <1>4 DEF StartSync, StoreOK, LocalsOK, files, locals
<1> QED
  BY <1>1, <1>2, <1>3, <1>4 DEF Startup

LEMMA InitIInv == Init => IInv
<1> SUFFICES ASSUME Init PROVE IInv
  OBVIOUS
<1>1. Good(peersFile)
  BY InitListsAssumption DEF Init, Good
<1>2. IsSections(wgConf) /\ Injective(wgConf)
  BY <1>1, IpsInjective DEF Init
<1>3. StoreOK
  <2>1. faults \in 0 .. MaxFaults /\ reqs \in 0 .. MaxRequests
    BY BoundAssumption DEF Init
  <2> QED
    BY <1>1, <1>2, <2>1, SubnetsAssumption DEF Init, StoreOK, Good, IsList
<1>4. LocalsOK
  BY EmptyGood, SubnetsAssumption DEF Init, LocalsOK, Labels, Ops
<1> QED
  BY <1>3, <1>4 DEF IInv

LEMMA NextIInv == IInv /\ [Next]_vars => IInv'
<1> SUFFICES ASSUME IInv, [Next]_vars PROVE IInv'
  OBVIOUS
<1>1. ASSUME NEW w \in Workers, Request(w) PROVE IInv'
  BY <1>1, EditSteps, SaveSteps, InterfaceSteps, ConfigSteps DEF Request
<1>2. CASE UNCHANGED vars
  BY <1>2 DEF IInv, StoreOK, LocalsOK, vars, files, iface, failures, locals
<1> QED
  BY <1>1, <1>2, ProcessSteps DEF Next

LEMMA IInvProperties == IInv => TypeOK /\ AddressesDistinct
BY DEF IInv, StoreOK, LocalsOK, TypeOK, AddressesDistinct, Good, Injective, Labels, Ops

-----------------------------------------------------------------------------
(***************************************************************************)
(* The theorems.                                                           *)
(***************************************************************************)

LEMMA SpecIInv == Spec => []IInv
BY InitIInv, NextIInv, PTL DEF Spec

(* Every variable keeps to what the code can put in it, whatever requests  *)
(* interleave and wherever the process is killed.                          *)
THEOREM TypeCorrect == Spec => []TypeOK
BY SpecIInv, IInvProperties, PTL

(* No two peers of any stored, carried or rendered list share an address,  *)
(* for any number of unsynchronised requests, subnets and crashes.         *)
THEOREM AddressesNeverClash == Spec => []AddressesDistinct
BY SpecIInv, IInvProperties, PTL

-----------------------------------------------------------------------------
(* While main() runs no request does, so wg0.conf still renders peers.json *)
(* when the interface is brought in line with it, if main() could write it. *)
StartInv == proc = "sync" /\ cfgFile \in Subnets /\ ~broken => wgConf = Ips(LoadPeers)

LEMMA RequestsNeedTheProcess ==
  ASSUME NEW w \in Workers, Request(w) PROVE proc = "up" /\ proc' = "up"
<1>1. CASE AddLoad(w) \/ AddCfg(w) \/ AddRefused(w) \/ RemoveLoad(w) \/ RemoveCfg(w)
  BY <1>1 DEF AddLoad, AddCfg, AddRefused, RemoveLoad, RemoveCfg, Begin, At
<1>2. CASE UpdateLoad(w) \/ ImportLoad(w) \/ VpnJobLoad(w) \/ PeersTrunc(w) \/ PeersWrite(w)
          \/ PeersFailed(w)
  BY <1>2 DEF UpdateLoad, ImportLoad, VpnJobLoad, PeersTrunc, PeersWrite, PeersFailed, Begin, At
<1>3. CASE GenerateWgConfig(w) \/ ShowConf(w) \/ SyncConf(w) \/ SyncFailed(w)
  BY <1>3 DEF GenerateWgConfig, ShowConf, SyncConf, SyncFailed, At
<1>4. CASE SaveConfigRead(w) \/ ConfigTrunc(w) \/ GeneralTrunc(w) \/ ConfigWrite(w)
          \/ ConfigFailed(w) \/ SaveConfigLoad(w) \/ Renumber(w) \/ Renumbered(w)
  BY <1>4 DEF SaveConfigRead, ConfigTrunc, GeneralTrunc, ConfigWrite, ConfigFailed, SaveConfigLoad,
              Renumber, Renumbered, Begin, At
<1>5. CASE Restart(w) \/ WgQuickDown(w) \/ WgQuickUp(w) \/ StopServer(w) \/ StartServer(w)
             \/ GetConfig(w)
  BY <1>5 DEF Restart, WgQuickDown, WgQuickUp, StopServer, StartServer, GetConfig, Begin, At
<1> QED
  BY <1>1, <1>2, <1>3, <1>4, <1>5 DEF Request

(* main() always ends with peers.json, wg0.conf and the interface alike,   *)
(* whatever state the crash left behind, unless the stored subnet does not  *)
(* parse or main() fails to write wg0.conf.                                *)
THEOREM StartupAlwaysHeals == Spec => StartupHeals
<1>1. Init => StartInv
  BY DEF Init, StartInv
<1>2. ASSUME StartInv, Next
      PROVE  /\ StartInv'
             /\ proc # "up" /\ proc' = "up" /\ cfgFile \in Subnets /\ ~broken => Agreement'
  <2>1. ASSUME NEW w \in Workers, Request(w) PROVE proc = "up" /\ proc' = "up"
    BY <2>1, RequestsNeedTheProcess
  <2>2. CASE Crash \/ StartConfig
    BY <2>2 DEF Crash, StartConfig, StartInv
  <2>3. CASE StartGenerate
    BY <2>3 DEF StartGenerate, StartInv, LoadPeers, Fault, failures
  <2>4. CASE StartSync
    BY <2>4, <1>2 DEF StartSync, StartInv, Agreement, LoadPeers, files, failures
  <2> QED
    BY <1>2, <2>1, <2>2, <2>3, <2>4 DEF Next, Startup, StartInv
<1>3. StartInv /\ UNCHANGED vars => StartInv'
  BY DEF StartInv, LoadPeers, vars, files, failures
<1>4. Spec => [][proc # "up" /\ proc' = "up" /\ cfgFile \in Subnets /\ ~broken => Agreement']_vars
  BY <1>1, <1>2, <1>3, PTL DEF Spec
<1> QED
  BY <1>4 DEF StartupHeals

-----------------------------------------------------------------------------
(***************************************************************************)
(* One request at a time: the store agrees with wg0 at rest, and behaves   *)
(* like the atomic registry.                                               *)
(***************************************************************************)
OneWorker == \A v, w \in Workers : v = w

Saving    == {"settings", "subnet", "post"}
OnList(w) == pc[w] \in {"cfg", "conf", "show", "sync"}

(* Where each kind of request may stand. *)
PositionOK(w) ==
  /\ pc[w] = "idle" => op[w] = "none"
  /\ pc[w] = "addcfg" => op[w] = "add"
  /\ pc[w] \in {"trunc", "write"} => op[w] \notin {"none", "general"}
  /\ pc[w] = "cfg" => op[w] = "remove"
  /\ pc[w] = "conf" => op[w] \notin {"none", "general", "edit"}
  /\ pc[w] \in {"show", "sync"} => op[w] \in {"add", "remove"}
  /\ pc[w] \in {"cfgtrunc", "cfgload", "renumber"} => op[w] \in Saving
  /\ pc[w] = "cfgwrite" => op[w] \in Saving \cup {"general"}

(* An id once generated stays known; a file is torn only under its writer, *)
(* except for one whose writer was cut off or has failed.                   *)
Known(w)  == DOMAIN LoadPeers \cup DOMAIN ui.peers \cup DOMAIN list[w] \subseteq used
TornOK(w) ==
  /\ cfgFile = Torn => pc[w] = "cfgwrite" \/ broken
  /\ pc[w] = "write" => peersFile = Torn
  /\ pc[w] \in {"cfgtrunc", "cfgwrite"} => sub[w] # Torn

(* The list a request is about to save, against the one peers.json holds.  *)
Renumbers(old, new) ==
  /\ DOMAIN new = DOMAIN old
  /\ \A i \in DOMAIN old : old[i] = [new[i] EXCEPT !.ip = old[i].ip]

Carried(w) ==
  /\ pc[w] = "addcfg" => list[w] = LoadPeers
  /\ pc[w] = "trunc" /\ op[w] = "add" =>
       id[w] \in Ids \ DOMAIN LoadPeers /\ Without(list[w], id[w]) = LoadPeers
  /\ pc[w] = "trunc" /\ op[w] = "remove" =>
       id[w] \in DOMAIN LoadPeers /\ list[w] = Without(LoadPeers, id[w])
  /\ pc[w] = "trunc" /\ op[w] = "edit" =>
       /\ id[w] \in DOMAIN LoadPeers /\ DOMAIN list[w] = DOMAIN LoadPeers
       /\ list[w][id[w]].ip = LoadPeers[id[w]].ip
       /\ \A j \in DOMAIN LoadPeers \ {id[w]} : list[w][j] = LoadPeers[j]
  /\ op[w] = "post" => list[w] = ui.peers
  /\ pc[w] \in {"renumber", "trunc"} /\ op[w] = "subnet" => Renumbers(LoadPeers, list[w])
  /\ pc[w] \in {"renumber", "trunc"} /\ op[w] = "settings" => list[w] = LoadPeers
  /\ pc[w] = "renumber" /\ op[w] # "subnet" => todo[w] = {}
  /\ OnList(w) /\ ~broken => LoadPeers = list[w]

(* What wg0.conf and the interface still lack of it.                       *)
Unrendered(w) ==
  /\ ifaceUp /\ op[w] \notin Saving => ifacePeers = wgConf
  /\ op[w] = "add" => wgConf = Without(Ips(list[w]), id[w])
  /\ op[w] = "remove" => id[w] \in DOMAIN wgConf /\ Ips(list[w]) = Without(wgConf, id[w])
  /\ op[w] = "edit" => wgConf = Ips(list[w])

Unsynced(w) ==
  /\ wgConf = Ips(LoadPeers)
  /\ ifaceUp /\ op[w] = "add" => ifacePeers = Without(wgConf, id[w])
  /\ ifaceUp /\ op[w] = "remove" => id[w] \in DOMAIN ifacePeers /\ wgConf = Without(ifacePeers, id[w])

InStep(w) ==
  /\ pc[w] \in {"idle", "addcfg"} => Agreement
  /\ pc[w] = "trunc" /\ op[w] \notin Saving => Agreement
  /\ pc[w] \in {"write", "cfg", "conf"} => Unrendered(w)
  /\ pc[w] \in {"show", "sync"} => Unsynced(w)
  /\ pc[w] \in {"down", "quickup"} => wgConf = Ips(LoadPeers)

Progress(w) ==
  /\ Carried(w)
  /\ cfgFile \in Subnets /\ ~broken => InStep(w)
  /\ pc[w] = "cfgwrite" /\ op[w] = "general" /\ sub[w] \in Subnets /\ ~broken => Agreement
  /\ pc[w] \in {"cfgload", "renumber", "trunc", "write"} /\ op[w] \in Saving \cup {"add"} =>
       sub[w] = cfgFile
  /\ pc[w] = "conf" => sub[w] = cfgFile
  /\ pc[w] = "sync" /\ ifaceUp => shown[w] = ifacePeers
  /\ pc[w] = "quickup" => ~ifaceUp

SInv ==
  /\ StartInv /\ QuiescentAgreement
  /\ proc \in {"generate", "sync"} => cfgFile # Torn
  /\ \A w \in Workers :
       /\ PositionOK(w) /\ Known(w)
       /\ proc = "up" => TornOK(w) /\ Progress(w)
       /\ proc # "up" => pc[w] = "idle"

-----------------------------------------------------------------------------
LEMMA IpsWithout == ASSUME NEW l, NEW i PROVE Ips(Without(l, i)) = Without(Ips(l), i)
BY DEF Ips, Without

(* Taking out a peer that was not there, then the one that was added.      *)
LEMMA WithoutWith ==
  ASSUME NEW l, NEW i, i \notin DOMAIN l, l = [j \in DOMAIN l |-> l[j]], NEW p
  PROVE  Without(With(l, i, p), i) = l
BY DEF With, Without

(* Appending the section of a peer no other peer shares an address with    *)
(* completes the sections of the rest.                                     *)
LEMMA AppendLast ==
  ASSUME NEW l, Good(l), NEW i \in DOMAIN l
  PROVE  AppendSection(Without(Ips(l), i), i, l[i].ip) = Ips(l)
BY DEF Good, IsList, Distinct, AppendSection, Without, Ips

LEMMA TornIsNoList == ~IsList(Torn)
BY TornAssumption DEF IsList

(* With one worker, a step of a request keeps SInv when it keeps its own   *)
(* part of it.                                                             *)
LEMMA OwnStep ==
  ASSUME OneWorker, NEW w \in Workers, proc' = "up",
         PositionOK(w)', Known(w)', TornOK(w)', Progress(w)'
  PROVE  SInv'
<1>1. \A v \in Workers : v = w
  BY DEF OneWorker
<1>2. QuiescentAgreement'
  BY DEF QuiescentAgreement, Quiescent, Progress, InStep
<1> QED
  BY <1>1, <1>2 DEF SInv, StartInv

(* A request that ends leaves the three in agreement, if the subnet parses  *)
(* and no write has failed.                                                *)
LEMMA EndStep ==
  ASSUME IInv, NEW w \in Workers, Reset(w),
         DOMAIN LoadPeers' \cup DOMAIN ui'.peers \subseteq used', cfgFile' # Torn \/ broken',
         cfgFile' \in Subnets /\ ~broken' => Agreement'
  PROVE  PositionOK(w)' /\ Known(w)' /\ TornOK(w)' /\ Progress(w)'
<1>1. pc'[w] = "idle" /\ op'[w] = "none" /\ list'[w] = EmptyList
  BY DEF Reset, Goto, IInv, LocalsOK
<1>2. Known(w)' /\ TornOK(w)'
  BY <1>1 DEF Known, TornOK, EmptyList
<1> QED
  BY <1>1, <1>2 DEF PositionOK, Progress, Carried, InStep, OnList, Saving

(* A request about to save its edited copy of the list.                    *)
LEMMA EditedStep ==
  ASSUME IInv, SInv, OneWorker, NEW w \in Workers, At(w, "idle") \/ At(w, "addcfg"),
         NEW o \in {"add", "remove", "edit"}, NEW i, NEW l, Edited(w, o, i, l),
         UNCHANGED <<files, iface, ui, proc, failures>>, used \subseteq used', DOMAIN l \subseteq used',
         o = "add" => sub'[w] = cfgFile /\ i \in Ids \ DOMAIN LoadPeers
                      /\ Without(l, i) = LoadPeers,
         o # "add" => i \in DOMAIN LoadPeers,
         o = "remove" => l = Without(LoadPeers, i),
         o = "edit" => /\ DOMAIN l = DOMAIN LoadPeers /\ l[i].ip = LoadPeers[i].ip
                       /\ \A j \in DOMAIN LoadPeers \ {i} : l[j] = LoadPeers[j]
  PROVE  SInv'
<1>1. pc'[w] = "trunc" /\ op'[w] = o /\ id'[w] = i /\ list'[w] = l /\ proc' = "up"
  BY DEF Edited, Goto, At, IInv, LocalsOK
<1>2. /\ LoadPeers' = LoadPeers /\ (Agreement' <=> Agreement) /\ cfgFile' = cfgFile
      /\ (cfgFile # Torn \/ broken) /\ broken' = broken /\ Known(w)
      /\ (cfgFile \in Subnets /\ ~broken => Agreement)
  BY DEF LoadPeers, Agreement, files, iface, failures, At, SInv, Progress, InStep, TornOK
<1>3. PositionOK(w)' /\ Known(w)' /\ TornOK(w)'
  BY <1>1, <1>2 DEF PositionOK, Known, TornOK
<1>4. Progress(w)'
  BY <1>1, <1>2 DEF Progress, Carried, InStep, OnList, Saving
<1> QED
  BY <1>1, <1>3, <1>4, OwnStep

LEMMA SerialEdit ==
  ASSUME IInv, SInv, OneWorker, NEW w \in Workers,
         AddLoad(w) \/ AddCfg(w) \/ AddRefused(w) \/ RemoveLoad(w)
           \/ UpdateLoad(w) \/ ImportLoad(w) \/ VpnJobLoad(w)
  PROVE  SInv'
<1> DEFINE L == LoadPeers
<1>1. Good(L) /\ L = [j \in DOMAIN L |-> L[j]] /\ DOMAIN L \subseteq used
  BY LoadPeersGood DEF IInv, Good, IsList, SInv, Known
<1>2. PositionOK(w) /\ Known(w) /\ (proc = "up" => TornOK(w) /\ Progress(w))
  BY DEF SInv
<1>3. CASE AddLoad(w)
  <2>1. /\ pc'[w] = "addcfg" /\ op'[w] = "add" /\ list'[w] = L /\ pc[w] = "idle"
        /\ proc = "up" /\ proc' = "up"
    BY <1>3 DEF AddLoad, Begin, At, Goto, IInv, LocalsOK
  <2>2. /\ LoadPeers' = L /\ (Agreement' <=> Agreement) /\ UNCHANGED <<cfgFile, ui, used, broken>>
    BY <1>3 DEF AddLoad, LoadPeers, Agreement, files, iface, failures
  <2>3. PositionOK(w)' /\ Known(w)' /\ TornOK(w)'
    BY <1>1, <1>2, <2>1, <2>2 DEF PositionOK, Known, TornOK
  <2>4. Progress(w)'
    BY <1>2, <2>1, <2>2 DEF Progress, Carried, InStep, OnList, Saving
  <2> QED
    BY <2>1, <2>3, <2>4, OwnStep
<1>4. CASE AddCfg(w)
  <2>1. PICK a \in NextAvailableIP(list[w], cfgFile), i \in Ids \ used, n \in Names :
          /\ Edited(w, "add", i, With(list[w], i, [ip |-> a, name |-> n, ifn |-> NoIf]))
          /\ used' = used \cup {i}
    BY <1>4 DEF AddCfg
  <2>2. At(w, "addcfg") /\ list[w] = L /\ sub'[w] = cfgFile /\ UNCHANGED <<files, iface, ui, proc, failures>>
    BY <1>2, <1>4 DEF AddCfg, At, Progress, Carried, IInv, LocalsOK
  <2>3. Without(With(L, i, [ip |-> a, name |-> n, ifn |-> NoIf]), i) = L /\ i \notin DOMAIN L
    BY <1>1, WithoutWith
  <2>4. DOMAIN With(L, i, [ip |-> a, name |-> n, ifn |-> NoIf]) \subseteq used'
    BY <1>1, <2>1 DEF With
  <2> QED
    BY <2>1, <2>2, <2>3, <2>4, EditedStep
<1>5. CASE AddRefused(w)
  <2>1. /\ Reset(w) /\ LoadPeers' = L /\ (Agreement' <=> Agreement)
        /\ UNCHANGED <<cfgFile, ui, used, proc, broken>> /\ proc = "up" /\ pc[w] = "addcfg"
    BY <1>5 DEF AddRefused, At, LoadPeers, Agreement, files, iface, failures
  <2> QED
    BY <1>2, <2>1, EndStep, OwnStep DEF Known, TornOK, Progress, InStep
<1>6. CASE RemoveLoad(w)
  <2>1. PICK i \in DOMAIN L : Edited(w, "remove", i, Without(L, i))
    BY <1>6 DEF RemoveLoad
  <2> QED
    BY <1>1, <1>6, <2>1, EditedStep DEF RemoveLoad, Begin, Without
<1>7. CASE UpdateLoad(w) \/ ImportLoad(w) \/ VpnJobLoad(w)
  <2>1. PICK i \in DOMAIN L, p \in Peer : p.ip = L[i].ip /\ Edited(w, "edit", i, With(L, i, p))
    <3>1. \A i \in DOMAIN L : L[i] \in Peer
      BY <1>1 DEF Good, IsList
    <3>2. \A i \in DOMAIN L, n \in Names :
            [L[i] EXCEPT !.name = n] \in Peer /\ [L[i] EXCEPT !.name = n].ip = L[i].ip
      BY <3>1 DEF Peer
    <3>3. \A i \in DOMAIN L, f \in Ifs \cup {NoIf} :
            [L[i] EXCEPT !.ifn = f] \in Peer /\ [L[i] EXCEPT !.ifn = f].ip = L[i].ip
      BY <3>1 DEF Peer
    <3> QED
      BY <1>7, <3>2, <3>3 DEF UpdateLoad, ImportLoad, VpnJobLoad
  <2>2. Begin(w) /\ UNCHANGED <<files, iface, ui, used, proc, failures>>
    BY <1>7 DEF UpdateLoad, ImportLoad, VpnJobLoad
  <2> QED
    BY <1>1, <2>1, <2>2, EditedStep DEF Begin, With
<1> QED
  BY <1>3, <1>4, <1>5, <1>6, <1>7

LEMMA SerialSave ==
  ASSUME IInv, SInv, OneWorker, NEW w \in Workers,
         PeersTrunc(w) \/ PeersWrite(w) \/ PeersFailed(w) \/ RemoveCfg(w) \/ GenerateWgConfig(w)
  PROVE  SInv'
<1>1. PositionOK(w) /\ Known(w) /\ (proc = "up" => TornOK(w) /\ Progress(w))
  BY DEF SInv
<1>2. /\ Good(list[w]) /\ (op[w] = "add" => id[w] \in DOMAIN list[w] \/ pc[w] = "addcfg")
      /\ list[w] # Torn /\ list[w] = [j \in DOMAIN list[w] |-> list[w][j]]
  BY TornIsNoList DEF IInv, LocalsOK, Good, IsList
<1>3. CASE PeersTrunc(w)
  <2>1. /\ pc[w] = "trunc" /\ pc'[w] = "write" /\ proc = "up" /\ peersFile' = Torn
        /\ UNCHANGED <<cfgFile, wgConf, iface, ui, used, proc, broken, op, id, sub, list, todo,
                      shown>>
    BY <1>3 DEF PeersTrunc, At, Goto, IInv, LocalsOK, failures
  <2>2. PositionOK(w)' /\ Known(w)' /\ TornOK(w)'
    BY <1>1, <2>1 DEF PositionOK, Known, TornOK, LoadPeers, EmptyList
  <2>3. cfgFile \in Subnets /\ ~broken => Unrendered(w)'
    <3>1. SUFFICES ASSUME cfgFile \in Subnets, ~broken PROVE Unrendered(w)
      BY <2>1 DEF Unrendered, iface
    <3>2. op[w] \notin Saving => Agreement
      BY <1>1, <2>1, <3>1 DEF Progress, InStep
    <3>3. op[w] = "add" => wgConf = Without(Ips(list[w]), id[w])
      BY <1>1, <2>1, <3>2, IpsWithout DEF Progress, Carried, Agreement, Saving
    <3>4. op[w] = "remove" => id[w] \in DOMAIN wgConf /\ Ips(list[w]) = Without(wgConf, id[w])
      BY <1>1, <2>1, <3>2, IpsWithout DEF Progress, Carried, Agreement, Saving, Ips
    <3>5. op[w] = "edit" => wgConf = Ips(list[w])
      BY <1>1, <2>1, <3>2 DEF Progress, Carried, Agreement, Saving, Ips
    <3> QED
      BY <3>2, <3>3, <3>4, <3>5 DEF Unrendered, Agreement
  <2>4. Progress(w)'
    BY <1>1, <2>1, <2>3 DEF Progress, Carried, InStep, OnList
  <2> QED
    BY <2>1, <2>2, <2>4, OwnStep
<1>4. CASE PeersWrite(w)
  <2>1. /\ pc[w] = "write" /\ proc = "up" /\ proc' = "up" /\ LoadPeers' = list[w]
        /\ UNCHANGED <<cfgFile, wgConf, iface, ui, used, broken>>
    BY <1>2, <1>4 DEF PeersWrite, At, LoadPeers, failures
  <2>2. (cfgFile # Torn \/ broken) /\ DOMAIN list[w] \cup DOMAIN ui.peers \subseteq used
        /\ (cfgFile \in Subnets /\ ~broken => Unrendered(w))
    BY <1>1, <2>1 DEF TornOK, Known, Progress, InStep
  <2>3. CASE op[w] = "edit"
    <3>1. Reset(w)
      BY <1>4, <2>3 DEF PeersWrite
    <3>2. cfgFile \in Subnets /\ ~broken => Agreement'
      BY <2>1, <2>2, <2>3 DEF Unrendered, Agreement, Saving, iface
    <3> QED
      BY <2>1, <2>2, <3>1, <3>2, EndStep, OwnStep
  <2>4. CASE op[w] # "edit"
    <3>1. /\ pc'[w] = IF op[w] = "remove" THEN "cfg" ELSE "conf"
          /\ UNCHANGED <<op, id, sub, list, todo, shown>>
      BY <1>4, <2>4 DEF PeersWrite, Goto, IInv, LocalsOK
    <3>2. PositionOK(w)' /\ Known(w)' /\ TornOK(w)'
      BY <1>1, <2>1, <2>2, <2>4, <3>1 DEF PositionOK, Known, TornOK
    <3>3. op[w] # "remove" => sub[w] = cfgFile
      BY <1>1, <1>2, <2>1, <2>4 DEF PositionOK, Progress, Saving, IInv, LocalsOK, Ops
    <3>4. Unrendered(w)' <=> Unrendered(w)
      BY <2>1, <3>1 DEF Unrendered, iface
    <3>5. Progress(w)'
      BY <1>1, <2>1, <2>2, <3>1, <3>3, <3>4 DEF Progress, Carried, InStep, OnList
    <3> QED
      BY <2>1, <3>2, <3>5, OwnStep
  <2> QED
    BY <2>3, <2>4
<1>5. CASE RemoveCfg(w)
  <2>1. /\ pc[w] = "cfg" /\ pc'[w] = "conf" /\ proc = "up" /\ sub'[w] = cfgFile
        /\ LoadPeers' = LoadPeers /\ (Unrendered(w)' <=> Unrendered(w))
        /\ UNCHANGED <<files, iface, ui, used, proc, broken, op, id, list, todo, shown>>
    BY <1>5 DEF RemoveCfg, At, Goto, IInv, LocalsOK, LoadPeers, Unrendered, files, iface, failures
  <2>2. PositionOK(w)' /\ Known(w)' /\ TornOK(w)'
    BY <1>1, <2>1 DEF PositionOK, Known, TornOK, files
  <2>3. Progress(w)'
    BY <1>1, <2>1 DEF Progress, Carried, InStep, OnList, files, PositionOK
  <2> QED
    BY <2>1, <2>2, <2>3, OwnStep
<1>6. CASE GenerateWgConfig(w)
  <2>1. /\ pc[w] = "conf" /\ proc = "up" /\ sub[w] = cfgFile /\ (cfgFile # Torn \/ broken)
        /\ LoadPeers' = LoadPeers /\ (~broken => LoadPeers = list[w])
        /\ UNCHANGED <<cfgFile, peersFile, iface, ui, used, proc>>
        /\ (cfgFile \in Subnets /\ ~broken => Unrendered(w))
    BY <1>1, <1>6 DEF GenerateWgConfig, At, LoadPeers, Progress, Carried, InStep, OnList, TornOK
  <2>2. /\ broken' = broken \/ broken'
        /\ cfgFile \in Subnets /\ ~broken' => ~broken /\ RenderConf(w)
        /\ cfgFile \notin Subnets \/ broken' \/ wgConf' = Ips(list[w])
    BY <1>6, <2>1 DEF GenerateWgConfig, RenderConf, Fault, failures
  <2>3. CASE op[w] \in {"add", "remove"}
    <3>1. pc'[w] = "show" /\ UNCHANGED <<op, id, sub, list, todo, shown>>
      BY <1>6, <2>3 DEF GenerateWgConfig, RenderConf, KeepConf, Goto, IInv, LocalsOK
    <3>2. PositionOK(w)' /\ Known(w)' /\ TornOK(w)'
      BY <1>1, <2>1, <2>2, <2>3, <3>1 DEF PositionOK, Known, TornOK
    <3>3. cfgFile \in Subnets /\ ~broken' => Unsynced(w)'
      BY <2>1, <2>2, <2>3, <3>1 DEF Unsynced, Unrendered, iface, Saving
    <3>4. Progress(w)'
      BY <1>1, <2>1, <2>2, <3>1, <3>3 DEF Progress, Carried, InStep, OnList
    <3> QED
      BY <2>1, <3>2, <3>4, OwnStep
  <2>4. CASE op[w] \notin {"add", "remove"} /\ RenderConf(w)
    <3>1. pc'[w] = "down" /\ UNCHANGED <<op, id, sub, list, todo, shown>>
      BY <2>1, <2>4 DEF RenderConf, Goto, IInv, LocalsOK
    <3>2. PositionOK(w)' /\ Known(w)' /\ TornOK(w)'
      BY <1>1, <2>1, <2>2, <3>1 DEF PositionOK, Known, TornOK
    <3>3. Progress(w)'
      BY <1>1, <2>1, <2>2, <3>1 DEF Progress, Carried, InStep, OnList
    <3> QED
      BY <2>1, <3>2, <3>3, OwnStep
  <2>5. CASE op[w] \notin {"add", "remove"} /\ KeepConf(w)
                /\ (cfgFile \notin Subnets \/ broken')
    <3>1. Reset(w) /\ DOMAIN LoadPeers' \cup DOMAIN ui'.peers \subseteq used'
      BY <1>1, <2>1, <2>5 DEF KeepConf, Known
    <3> QED
      BY <2>1, <2>2, <2>5, <3>1, EndStep, OwnStep
  <2> QED
    BY <1>6, <2>1, <2>3, <2>4, <2>5 DEF GenerateWgConfig, Fault
<1>7. CASE PeersFailed(w)
  <2>1. /\ pc[w] \in {"trunc", "write"} /\ proc = "up" /\ broken' /\ LoadPeers' = LoadPeers
        /\ UNCHANGED <<files, iface, ui, used, proc>>
    BY <1>7 DEF PeersFailed, Fault, LoadPeers, files
  <2>2. CASE Reset(w)
    BY <1>1, <2>1, <2>2, EndStep, OwnStep DEF Known, files
  <2>3. CASE ~Reset(w)
    <3>1. /\ pc'[w] = IF op[w] = "remove" THEN "cfg" ELSE "conf"
          /\ op[w] \notin {"add", "edit"} /\ UNCHANGED <<op, id, sub, list, todo, shown>>
      BY <1>7, <2>3 DEF PeersFailed, Goto, IInv, LocalsOK
    <3>2. PositionOK(w)' /\ Known(w)' /\ TornOK(w)'
      BY <1>1, <2>1, <3>1 DEF PositionOK, Known, TornOK, files
    <3>3. op[w] # "remove" => sub[w] = cfgFile
      BY <1>1, <2>1, <3>1 DEF PositionOK, Progress, Saving, IInv, LocalsOK, Ops
    <3>4. Progress(w)'
      BY <1>1, <2>1, <3>1, <3>3 DEF Progress, Carried, InStep, OnList, files
    <3> QED
      BY <2>1, <3>2, <3>4, OwnStep
  <2> QED
    BY <2>2, <2>3
<1> QED
  BY <1>3, <1>4, <1>5, <1>6, <1>7

LEMMA SerialInterface ==
  ASSUME IInv, SInv, OneWorker, NEW w \in Workers,
         ShowConf(w) \/ SyncConf(w) \/ SyncFailed(w) \/ Restart(w) \/ WgQuickDown(w)
           \/ WgQuickUp(w) \/ StopServer(w) \/ StartServer(w) \/ GetConfig(w)
  PROVE  SInv'
<1>1. PositionOK(w) /\ Known(w) /\ (proc = "up" => TornOK(w) /\ Progress(w))
  BY DEF SInv
<1>2. proc = "up" /\ proc' = "up" /\ broken' = broken
  <2>1. proc = "up" /\ proc' = "up"
    BY RequestsNeedTheProcess DEF Request
  <2>2. UNCHANGED failures
    BY DEF ShowConf, SyncConf, SyncFailed, Restart, WgQuickDown, WgQuickUp, StopServer,
           StartServer, GetConfig
  <2> QED
    BY <2>1, <2>2 DEF failures
<1>3. UNCHANGED files => LoadPeers' = LoadPeers
  BY DEF LoadPeers, files
<1>4. CASE ShowConf(w)
  <2>1. /\ pc[w] = "show" /\ pc'[w] = "sync" /\ shown'[w] = ifacePeers
        /\ UNCHANGED <<files, iface, ui, used, op, id, sub, list, todo>>
    BY <1>4 DEF ShowConf, At, Goto, IInv, LocalsOK
  <2>2. PositionOK(w)' /\ Known(w)' /\ TornOK(w)'
    BY <1>1, <1>2, <1>3, <2>1 DEF PositionOK, Known, TornOK, files
  <2>3. Unsynced(w)' <=> Unsynced(w)
    BY <1>3, <2>1 DEF Unsynced, files, iface
  <2>4. Progress(w)'
    BY <1>1, <1>2, <1>3, <2>1, <2>3 DEF Progress, Carried, InStep, OnList, files, iface
  <2> QED
    BY <1>2, <2>2, <2>4, OwnStep
<1>5. CASE SyncConf(w)
  <2>1. /\ Reset(w) /\ UNCHANGED <<files, ifaceUp, ui, used>> /\ (cfgFile # Torn \/ broken)
        /\ pc[w] = "sync" /\ ifaceUp /\ shown[w] = ifacePeers /\ op[w] \in {"add", "remove"}
        /\ (~broken => LoadPeers = list[w])
    BY <1>1, <1>2, <1>5 DEF SyncConf, At, Progress, Carried, OnList, PositionOK, TornOK
  <2>2. ASSUME cfgFile \in Subnets, ~broken PROVE ifacePeers' = wgConf
    <3>1. Unsynced(w)
      BY <1>1, <1>2, <2>1, <2>2 DEF Progress, InStep
    <3>2. CASE op[w] = "remove"
      BY <1>5, <2>1, <3>1, <3>2 DEF SyncConf, Unsynced
    <3>3. CASE op[w] = "add"
      <4>1. id[w] \in DOMAIN list[w] /\ Good(list[w])
        BY <2>1, <3>3 DEF IInv, LocalsOK
      <4>2. ifacePeers' = AppendSection(Without(Ips(list[w]), id[w]), id[w], list[w][id[w]].ip)
        BY <1>5, <2>1, <2>2, <3>1, <3>3 DEF SyncConf, Unsynced
      <4> QED
        BY <2>1, <2>2, <3>1, <4>1, <4>2, AppendLast DEF Unsynced
    <3> QED
      BY <2>1, <3>2, <3>3
  <2>3. cfgFile' \in Subnets /\ ~broken => Agreement'
    <3>1. cfgFile \in Subnets /\ ~broken => wgConf = Ips(LoadPeers)
      BY <1>1, <1>2, <2>1 DEF Progress, InStep, Unsynced
    <3> QED
      BY <1>3, <2>1, <2>2, <3>1 DEF Agreement, files
  <2> QED
    BY <1>1, <1>2, <1>3, <2>1, <2>3, EndStep, OwnStep DEF Known, files
<1>6. CASE SyncFailed(w)
  <2>1. /\ Reset(w) /\ UNCHANGED <<files, iface, ui, used>> /\ ~ifaceUp
        /\ pc[w] \in {"show", "sync"} /\ (cfgFile # Torn \/ broken)
        /\ (cfgFile \in Subnets /\ ~broken => Unsynced(w))
    BY <1>1, <1>2, <1>6 DEF SyncFailed, Progress, InStep, TornOK
  <2>2. cfgFile' \in Subnets /\ ~broken => Agreement'
    BY <1>3, <2>1 DEF Unsynced, Agreement, files, iface
  <2> QED
    BY <1>1, <1>2, <1>3, <2>1, <2>2, EndStep, OwnStep DEF Known, files
<1>7. CASE Restart(w)
  <2>1. /\ pc[w] = "idle" /\ pc'[w] = "down"
        /\ UNCHANGED <<files, iface, ui, used, op, id, sub, list, todo, shown>>
    BY <1>7 DEF Restart, Begin, At, Goto, IInv, LocalsOK
  <2>2. PositionOK(w)' /\ Known(w)' /\ TornOK(w)'
    BY <1>1, <1>2, <1>3, <2>1 DEF PositionOK, Known, TornOK, files
  <2>3. Progress(w)'
    BY <1>1, <1>2, <1>3, <2>1 DEF Progress, Carried, InStep, OnList, Agreement, files, iface
  <2> QED
    BY <1>2, <2>2, <2>3, OwnStep
<1>8. CASE WgQuickDown(w)
  <2>1. /\ pc[w] = "down" /\ pc'[w] = "quickup" /\ ifaceUp' = FALSE
        /\ UNCHANGED <<files, ui, used, op, id, sub, list, todo, shown>>
    BY <1>8 DEF WgQuickDown, At, Goto, IInv, LocalsOK
  <2>2. PositionOK(w)' /\ Known(w)' /\ TornOK(w)'
    BY <1>1, <1>2, <1>3, <2>1 DEF PositionOK, Known, TornOK, files
  <2>3. Progress(w)'
    BY <1>1, <1>2, <1>3, <2>1 DEF Progress, Carried, InStep, OnList, files
  <2> QED
    BY <1>2, <2>2, <2>3, OwnStep
<1>9. CASE WgQuickUp(w)
  <2>1. /\ Reset(w) /\ UNCHANGED <<files, ui, used>> /\ ifacePeers' = wgConf
        /\ pc[w] = "quickup" /\ (cfgFile # Torn \/ broken)
        /\ (cfgFile \in Subnets /\ ~broken => wgConf = Ips(LoadPeers))
    BY <1>1, <1>2, <1>9 DEF WgQuickUp, At, Progress, InStep, TornOK
  <2>2. cfgFile' \in Subnets /\ ~broken => Agreement'
    BY <1>3, <2>1 DEF Agreement, files
  <2> QED
    BY <1>1, <1>2, <1>3, <2>1, <2>2, EndStep, OwnStep DEF Known, files
<1>10. CASE StopServer(w) \/ StartServer(w) \/ GetConfig(w)
  <2>1. /\ pc[w] = "idle" /\ UNCHANGED <<files, used, locals>> /\ op[w] = "none"
        /\ (cfgFile \in Subnets /\ ~broken => Agreement)
        /\ DOMAIN ui'.peers \subseteq used
    BY <1>1, <1>2, <1>10 DEF StopServer, StartServer, GetConfig, At, Progress, InStep, PositionOK,
                             Known
  <2>2. PositionOK(w)' /\ Known(w)' /\ TornOK(w)'
    BY <1>1, <1>2, <1>3, <2>1 DEF PositionOK, Known, TornOK, files, locals
  <2>3. cfgFile \in Subnets /\ ~broken => Agreement'
    BY <1>3, <1>10, <2>1 DEF StopServer, StartServer, GetConfig, Agreement, files, iface
  <2>4. Progress(w)'
    BY <1>1, <1>2, <1>3, <2>1, <2>3 DEF Progress, Carried, InStep, OnList, Saving, files, locals
  <2> QED
    BY <1>2, <2>2, <2>4, OwnStep
<1> QED
  BY <1>4, <1>5, <1>6, <1>7, <1>8, <1>9, <1>10

LEMMA SerialConfig ==
  ASSUME IInv, SInv, OneWorker, NEW w \in Workers,
         SaveConfigRead(w) \/ ConfigTrunc(w) \/ GeneralTrunc(w) \/ ConfigWrite(w)
           \/ ConfigFailed(w) \/ SaveConfigLoad(w) \/ Renumber(w) \/ Renumbered(w)
  PROVE  SInv'
<1>1. PositionOK(w) /\ Known(w) /\ (proc = "up" => TornOK(w) /\ Progress(w))
  BY DEF SInv
<1>2. proc = "up" /\ proc' = "up" /\ (broken' = broken \/ ConfigFailed(w))
  <2>1. proc = "up" /\ proc' = "up"
    BY RequestsNeedTheProcess DEF Request
  <2>2. UNCHANGED failures \/ ConfigFailed(w)
    BY DEF SaveConfigRead, ConfigTrunc, GeneralTrunc, ConfigWrite, SaveConfigLoad, Renumber,
           Renumbered
  <2> QED
    BY <2>1, <2>2 DEF failures
<1>3. UNCHANGED peersFile => LoadPeers' = LoadPeers
  BY DEF LoadPeers
<1>4. CASE SaveConfigRead(w)
  <2>0. broken' = broken
    BY <1>4 DEF SaveConfigRead, failures
  <2>1. /\ pc[w] = "idle" /\ pc'[w] = "cfgtrunc" /\ op'[w] \in Saving
        /\ list'[w] = IF op'[w] = "post" THEN ui.peers ELSE list[w]
        /\ UNCHANGED <<files, iface, ui, used>> /\ cfgFile # Torn
    BY <1>4 DEF SaveConfigRead, Begin, At, Goto, Saving, IInv, LocalsOK
  <2>2. sub'[w] # Torn
    BY <1>4, SentinelAssumption DEF SaveConfigRead, IInv, LocalsOK, StoreOK
  <2>3. PositionOK(w)' /\ Known(w)' /\ TornOK(w)'
    BY <2>0, <1>1, <1>2, <1>3, <2>1, <2>2 DEF PositionOK, Known, TornOK, Saving, files
  <2>4. Progress(w)'
    BY <2>0, <1>2, <2>1 DEF Progress, Carried, InStep, OnList, Saving
  <2> QED
    BY <1>2, <2>1, <2>3, <2>4, OwnStep
<1>5. CASE ConfigTrunc(w)
  <2>0. broken' = broken
    BY <1>5 DEF ConfigTrunc, failures
  <2>1. /\ pc[w] = "cfgtrunc" /\ pc'[w] = "cfgwrite"
        /\ UNCHANGED <<peersFile, wgConf, iface, ui, used, op, id, sub, list, todo, shown>>
    BY <1>5 DEF ConfigTrunc, At, Goto, IInv, LocalsOK
  <2>2. PositionOK(w)' /\ Known(w)' /\ TornOK(w)'
    BY <2>0, <1>1, <1>2, <1>3, <2>1 DEF PositionOK, Known, TornOK, Saving
  <2>3. op[w] \in Saving
    BY <1>1, <2>1 DEF PositionOK
  <2>4. Progress(w)'
    BY <2>0, <1>1, <1>2, <2>1, <2>3 DEF Progress, Carried, InStep, OnList, Saving
  <2> QED
    BY <1>2, <2>2, <2>4, OwnStep
<1>6. CASE GeneralTrunc(w)
  <2>0. broken' = broken
    BY <1>6 DEF GeneralTrunc, failures
  <2>1. /\ pc[w] = "idle" /\ pc'[w] = "cfgwrite" /\ op'[w] = "general" /\ sub'[w] # Torn
        /\ (sub'[w] = cfgFile \/ cfgFile = Torn)
        /\ UNCHANGED <<peersFile, wgConf, iface, ui, used, id, list, todo, shown>>
    BY <1>6, SubnetsAssumption, SentinelAssumption DEF GeneralTrunc, Begin, At, Goto, IInv, LocalsOK
  <2>2. PositionOK(w)' /\ Known(w)' /\ TornOK(w)'
    BY <2>0, <1>1, <1>3, <2>1 DEF PositionOK, Known, TornOK, Saving
  <2>3. sub'[w] \in Subnets /\ ~broken => Agreement'
    BY <1>1, <1>2, <1>3, <2>1 DEF Progress, InStep, Agreement, TornOK, iface
  <2>4. Progress(w)'
    BY <2>0, <2>1, <2>3 DEF Progress, Carried, InStep, OnList, Saving
  <2> QED
    BY <1>2, <2>2, <2>4, OwnStep
<1>7. CASE ConfigWrite(w)
  <2>0. broken' = broken
    BY <1>7 DEF ConfigWrite, failures
  <2>1. /\ pc[w] = "cfgwrite" /\ cfgFile' = sub[w]
        /\ UNCHANGED <<peersFile, wgConf, iface, ui, used>>
    BY <1>7 DEF ConfigWrite, At
  <2>2. sub[w] # Torn
    BY <1>1, <1>2, <2>1 DEF TornOK
  <2>3. CASE op[w] = "general"
    <3>1. cfgFile' \in Subnets /\ ~broken => Agreement'
      BY <1>1, <1>2, <1>3, <2>1, <2>3 DEF Progress, Agreement, iface
    <3> QED
      BY <1>1, <1>2, <1>3, <1>7, <2>1, <2>2, <2>3, <3>1, <2>0, EndStep, OwnStep DEF ConfigWrite, Known
  <2>4. CASE op[w] # "general"
    <3>1. pc'[w] = "cfgload" /\ UNCHANGED <<op, id, sub, list, todo, shown>>
      BY <1>7, <2>4 DEF ConfigWrite, Goto, IInv, LocalsOK
    <3>2. PositionOK(w)' /\ Known(w)' /\ TornOK(w)'
      BY <2>0, <1>1, <1>3, <2>1, <2>2, <2>4, <3>1 DEF PositionOK, Known, TornOK
    <3>3. Progress(w)'
      BY <2>0, <1>1, <1>2, <2>1, <3>1 DEF Progress, Carried, InStep, OnList
    <3> QED
      BY <1>2, <3>2, <3>3, OwnStep
  <2> QED
    BY <2>3, <2>4
<1>8. CASE SaveConfigLoad(w)
  <2>0. broken' = broken
    BY <1>8 DEF SaveConfigLoad, failures
  <2>1. /\ pc[w] = "cfgload" /\ pc'[w] = "renumber"
        /\ list'[w] = IF op[w] = "post" THEN list[w] ELSE LoadPeers
        /\ todo'[w] = IF op[w] = "subnet" THEN DOMAIN LoadPeers ELSE {}
        /\ UNCHANGED <<files, iface, ui, used, op, id, sub, shown>>
    BY <1>8 DEF SaveConfigLoad, At, Goto, IInv, LocalsOK
  <2>2. PositionOK(w)' /\ Known(w)' /\ TornOK(w)'
    BY <2>0, <1>1, <1>2, <1>3, <2>1 DEF PositionOK, Known, TornOK, files
  <2>3. Renumbers(LoadPeers, LoadPeers)
    BY LoadPeersGood DEF IInv, Renumbers, Good, IsList, Peer
  <2>4. Progress(w)'
    BY <2>0, <1>1, <1>2, <1>3, <2>1, <2>3 DEF Progress, Carried, InStep, OnList, files
  <2> QED
    BY <1>2, <2>2, <2>4, OwnStep
<1>9. CASE Renumber(w)
  <2>0. broken' = broken
    BY <1>9 DEF Renumber, failures
  <2>1. PICK i \in todo[w] :
          \/ \E a \in NextAvailableIP(list[w], sub[w]) :
                list' = [list EXCEPT ![w] = With(@, i, [@[i] EXCEPT !.ip = a])]
          \/ UNCHANGED list
    BY <1>9 DEF Renumber
  <2>2. pc[w] = "renumber" /\ UNCHANGED <<files, iface, ui, used, pc, op, id, sub, shown>>
    BY <1>9 DEF Renumber, At
  <2>3. /\ op[w] = "subnet" /\ Renumbers(LoadPeers, list[w])
        /\ i \in DOMAIN list[w] /\ IsList(list[w]) /\ IsList(LoadPeers)
    BY <1>1, <1>2, <2>1, <2>2, LoadPeersGood DEF Progress, Carried, IInv, LocalsOK, Good
  <2>4. Renumbers(LoadPeers, list'[w])
    <3>1. ASSUME NEW a \in NextAvailableIP(list[w], sub[w]),
                 list' = [list EXCEPT ![w] = With(@, i, [@[i] EXCEPT !.ip = a])]
          PROVE  Renumbers(LoadPeers, list'[w])
      <4>1. list'[w] = With(list[w], i, [list[w][i] EXCEPT !.ip = a])
        BY <3>1 DEF IInv, LocalsOK
      <4> QED
        BY <2>3, <4>1 DEF Renumbers, With, IsList, Peer
    <3> QED
      BY <2>1, <2>3, <3>1
  <2>5. DOMAIN list'[w] = DOMAIN list[w]
    BY <2>3, <2>4 DEF Renumbers
  <2>6. PositionOK(w)' /\ Known(w)' /\ TornOK(w)'
    BY <2>0, <1>1, <1>2, <1>3, <2>2, <2>5 DEF PositionOK, Known, TornOK, files
  <2>7. Progress(w)'
    BY <2>0, <1>1, <1>2, <1>3, <2>2, <2>3, <2>4 DEF Progress, Carried, InStep, OnList, files
  <2> QED
    BY <1>2, <2>6, <2>7, OwnStep
<1>10. CASE Renumbered(w)
  <2>0. broken' = broken
    BY <1>10 DEF Renumbered, failures
  <2>1. /\ pc[w] = "renumber" /\ pc'[w] = "trunc"
        /\ UNCHANGED <<files, iface, ui, used, op, id, sub, list, todo, shown>>
    BY <1>10 DEF Renumbered, At, Goto, IInv, LocalsOK
  <2>2. op[w] \in Saving
    BY <1>1, <2>1 DEF PositionOK
  <2>3. PositionOK(w)' /\ Known(w)' /\ TornOK(w)'
    BY <2>0, <1>1, <1>2, <1>3, <2>1, <2>2 DEF PositionOK, Known, TornOK, Saving, files
  <2>4. Progress(w)'
    BY <2>0, <1>1, <1>2, <1>3, <2>1, <2>2 DEF Progress, Carried, InStep, OnList, Saving, files
  <2> QED
    BY <1>2, <2>3, <2>4, OwnStep
<1>11. CASE ConfigFailed(w)
  <2>1. Reset(w) /\ broken' /\ UNCHANGED <<files, ui, used>>
    BY <1>11 DEF ConfigFailed, Fault
  <2> QED
    BY <1>1, <1>2, <1>3, <2>1, EndStep, OwnStep DEF Known, files
<1> QED
  BY <1>4, <1>5, <1>6, <1>7, <1>8, <1>9, <1>10, <1>11

LEMMA SerialProcess == ASSUME IInv, SInv, Crash \/ Startup PROVE SInv'
<1>1. CASE Crash
  BY <1>1 DEF Crash, SInv, StartInv, QuiescentAgreement, Quiescent, PositionOK, Known, LoadPeers,
              EmptyList, files
<1>2. CASE StartConfig
  <2>1. cfgFile' # Torn
    BY <1>2, SubnetsAssumption, SentinelAssumption DEF StartConfig
  <2> QED
    BY <1>2, <2>1 DEF StartConfig, SInv, StartInv, QuiescentAgreement, Quiescent, PositionOK, Known,
                      LoadPeers, iface, locals
<1>3. CASE StartGenerate
  <2>1. cfgFile \in Subnets /\ ~broken' => wgConf' = Ips(LoadPeers)
    BY <1>3 DEF StartGenerate, Fault
  <2> QED
    BY <1>3, <2>1 DEF StartGenerate, SInv, StartInv, QuiescentAgreement, Quiescent, PositionOK,
                      Known, LoadPeers, iface, locals
<1>4. CASE StartSync
  <2>1. /\ proc = "sync" /\ proc' = "up" /\ ifacePeers' = wgConf /\ cfgFile # Torn
        /\ UNCHANGED <<files, ui, used, locals>> /\ LoadPeers' = LoadPeers
        /\ broken' = broken /\ (cfgFile \in Subnets /\ ~broken => wgConf = Ips(LoadPeers))
        /\ \A w \in Workers : pc[w] = "idle" /\ op[w] = "none" /\ PositionOK(w) /\ Known(w)
    BY <1>4 DEF StartSync, SInv, StartInv, PositionOK, LoadPeers, files, failures
  <2>2. cfgFile' \in Subnets /\ ~broken' => Agreement'
    BY <2>1 DEF Agreement, files
  <2>3. ASSUME NEW w \in Workers
        PROVE  PositionOK(w)' /\ Known(w)' /\ TornOK(w)' /\ Progress(w)'
    <3>1. pc'[w] = "idle" /\ op'[w] = "none"
      BY <2>1 DEF locals
    <3>2. PositionOK(w)' /\ Known(w)' /\ TornOK(w)'
      BY <2>1, <3>1 DEF PositionOK, Known, TornOK, files, locals
    <3>3. Progress(w)'
      BY <2>2, <3>1 DEF Progress, Carried, InStep, OnList, Saving
    <3> QED
      BY <3>2, <3>3
  <2> QED
    BY <2>1, <2>2, <2>3 DEF SInv, StartInv, QuiescentAgreement
<1> QED
  BY <1>1, <1>2, <1>3, <1>4 DEF Startup

LEMMA InitSInv == Init => SInv
<1> SUFFICES ASSUME Init PROVE SInv
  OBVIOUS
<1>1. LoadPeers = peersFile /\ cfgFile # Torn
  BY TornIsNoList, InitListsAssumption, SubnetsAssumption, SentinelAssumption DEF Init, LoadPeers
<1>2. Agreement
  BY <1>1 DEF Init, Agreement
<1>3. ASSUME NEW w \in Workers PROVE PositionOK(w) /\ Known(w) /\ TornOK(w) /\ Progress(w)
  BY <1>1, <1>2 DEF Init, PositionOK, Known, TornOK, Progress, Carried, InStep, OnList, Saving,
                    EmptyList
<1> QED
  BY <1>2, <1>3 DEF Init, SInv, StartInv, QuiescentAgreement

LEMMA NextSInv == ASSUME OneWorker, IInv, SInv, [Next]_vars PROVE SInv'
<1>1. ASSUME NEW w \in Workers, Request(w) PROVE SInv'
  BY <1>1, SerialEdit, SerialSave, SerialInterface, SerialConfig DEF Request
<1>2. CASE UNCHANGED vars
  <2>1. LoadPeers' = LoadPeers /\ (Agreement' <=> Agreement)
    BY <1>2 DEF LoadPeers, Agreement, vars, files, iface
  <2>2. ASSUME NEW w \in Workers
        PROVE  /\ PositionOK(w)' <=> PositionOK(w)
               /\ Known(w)' <=> Known(w)
               /\ TornOK(w)' <=> TornOK(w)
               /\ Carried(w)' <=> Carried(w)
               /\ Unrendered(w)' <=> Unrendered(w)
               /\ Unsynced(w)' <=> Unsynced(w)
    BY <1>2, <2>1 DEF PositionOK, Known, TornOK, Carried, OnList, Unrendered, Unsynced,
                      vars, files, iface, failures, locals
  <2>3. ASSUME NEW w \in Workers PROVE Progress(w)' <=> Progress(w)
    BY <1>2, <2>1, <2>2 DEF Progress, InStep, vars, files, iface, failures, locals
  <2> QED
    BY <1>2, <2>1, <2>2, <2>3 DEF SInv, StartInv, QuiescentAgreement, Quiescent, vars, files, failures,
                                        locals
<1> QED
  BY <1>1, <1>2, SerialProcess DEF Next

LEMMA SpecSInv == ASSUME OneWorker PROVE Spec => [](IInv /\ SInv)
BY InitIInv, NextIInv, InitSInv, NextSInv, PTL DEF Spec

(* When requests come one at a time, no request running, the stored subnet *)
(* well formed and no write failed since the process started, peers.json,  *)
(* wg0.conf and the running interface hold the same peers with the same    *)
(* addresses: wherever the process was killed before, and however often    *)
(* wg0 was stopped and started.                                            *)
THEOREM AgreementAtRest == ASSUME OneWorker PROVE Spec => []QuiescentAgreement
<1>1. SInv => QuiescentAgreement
  BY DEF SInv
<1> QED
  BY <1>1, SpecSInv, PTL

(* Then the text that wg showconf printed is still true when the request   *)
(* that edited it hands it to wg syncconf: removing a peer takes no other  *)
(* off the interface and changes no other's address.                       *)
THEOREM RemovalTouchesNoNeighbour == ASSUME OneWorker PROVE Spec => RemoveKeepsNeighbours
<1> DEFINE Kept(w) ==
      pc[w] = "sync" /\ op[w] = "remove" /\ ifaceUp /\ proc' = "up" /\ pc'[w] = "idle"
      => \A j \in DOMAIN ifacePeers \ {id[w]} :
           j \in DOMAIN ifacePeers' /\ ifacePeers'[j] = ifacePeers[j]
<1>1. ASSUME IInv, SInv, [Next]_vars, NEW w \in Workers PROVE Kept(w)
  <2> SUFFICES ASSUME pc[w] = "sync", op[w] = "remove", ifaceUp, proc' = "up", pc'[w] = "idle"
               PROVE  \A j \in DOMAIN ifacePeers \ {id[w]} :
                        j \in DOMAIN ifacePeers' /\ ifacePeers'[j] = ifacePeers[j]
    OBVIOUS
  <2>1. proc = "up" /\ shown[w] = ifacePeers
    BY <1>1 DEF SInv, Progress
  <2>2. PICK v \in Workers : Request(v)
    BY <1>1, <2>1 DEF Next, Crash, Startup, StartConfig, StartGenerate, StartSync, vars, locals
  <2>3. v = w
    BY DEF OneWorker
  <2>4. SyncConf(w)
    <3>1. ~(AddLoad(w) \/ RemoveLoad(w) \/ UpdateLoad(w) \/ ImportLoad(w) \/ VpnJobLoad(w)
            \/ SaveConfigRead(w) \/ GeneralTrunc(w) \/ Restart(w))
      BY DEF AddLoad, RemoveLoad, UpdateLoad, ImportLoad, VpnJobLoad, SaveConfigRead, GeneralTrunc,
             Restart, Begin, At
    <3>2. ~(AddCfg(w) \/ AddRefused(w) \/ PeersTrunc(w) \/ PeersWrite(w) \/ PeersFailed(w)
            \/ RemoveCfg(w)            \/ GenerateWgConfig(w) \/ ShowConf(w) \/ SyncFailed(w))
      BY DEF AddCfg, AddRefused, PeersTrunc, PeersWrite, PeersFailed, RemoveCfg, GenerateWgConfig, ShowConf,
             SyncFailed, At
    <3>3. ~(ConfigTrunc(w) \/ ConfigWrite(w) \/ ConfigFailed(w) \/ SaveConfigLoad(w) 
            \/ Renumber(w) \/ Renumbered(w) \/ WgQuickDown(w) \/ WgQuickUp(w) \/ StopServer(w) \/ StartServer(w) \/ GetConfig(w))
      BY DEF ConfigTrunc, ConfigWrite, ConfigFailed, SaveConfigLoad, Renumber, Renumbered, WgQuickDown,
             WgQuickUp, StopServer, StartServer, GetConfig, At
    <3> QED
      BY <2>2, <2>3, <3>1, <3>2, <3>3 DEF Request
  <2> QED
    BY <2>1, <2>4 DEF SyncConf, Without
<1>2. IInv /\ SInv /\ [Next]_vars => \A w \in Workers : Kept(w)
  BY <1>1
<1>3. Spec => [][\A w \in Workers : Kept(w)]_vars
  BY <1>2, SpecSInv, PTL DEF Spec
<1> QED
  BY <1>3 DEF RemoveKeepsNeighbours

-----------------------------------------------------------------------------
(* The refinement.  A request takes effect when it truncates peers.json:   *)
(* every other step leaves the stored list as it is, but for a crash in    *)
(* the middle of the write, or its failure, which lose it whole.           *)

LEMMA StoredListIs ==
  ASSUME OneWorker, NEW w \in Workers
  PROVE  /\ StoredList = IF peersFile = Torn /\ pc[w] = "write" THEN list[w] ELSE LoadPeers
         /\ StoredList' = IF peersFile' = Torn /\ pc'[w] = "write" THEN list'[w] ELSE LoadPeers'
<1>1. \A v \in Workers : v = w
  BY DEF OneWorker
<1>2. pc[w] = "write" => Writing = {w}
  BY <1>1 DEF Writing
<1>3. pc[w] # "write" => Writing = {}
  BY <1>1 DEF Writing
<1>4. pc'[w] = "write" => Writing' = {w}
  BY <1>1 DEF Writing
<1>5. pc'[w] # "write" => Writing' = {}
  BY <1>1 DEF Writing
<1>6. (CHOOSE v \in {w} : TRUE) = w
  OBVIOUS
<1>7. StoredList = IF peersFile = Torn /\ pc[w] = "write" THEN list[w] ELSE LoadPeers
  BY <1>2, <1>3, <1>6 DEF StoredList
<1>8. StoredList' = IF peersFile' = Torn /\ pc'[w] = "write" THEN list'[w] ELSE LoadPeers'
  <2>1. CASE pc'[w] = "write"
    BY <1>4, <1>6, <2>1 DEF StoredList
  <2>2. CASE pc'[w] # "write"
    BY <1>5, <2>2 DEF StoredList
  <2> QED
    BY <2>1, <2>2
<1> QED
  BY <1>7, <1>8

LEMMA TruncStores ==
  ASSUME OneWorker, IInv, SInv, NEW w \in Workers, PeersTrunc(w)
  PROVE  [Registry!Next]_<<StoredList, ui.peers>>
<1>1. /\ pc[w] = "trunc" /\ proc = "up" /\ UNCHANGED <<ui, list>>
      /\ StoredList = LoadPeers /\ StoredList' = list[w]
  BY StoredListIs DEF PeersTrunc, At, Goto, IInv, LocalsOK
<1>2. Carried(w) /\ op[w] \in {"add", "remove", "edit", "settings", "subnet", "post"}
  BY <1>1 DEF SInv, Progress, PositionOK, IInv, LocalsOK, Ops
<1>3. Good(list[w]) /\ (op[w] = "add" => id[w] \in DOMAIN list[w])
  BY <1>1 DEF IInv, LocalsOK
<1>4. \A i \in DOMAIN list[w] : list[w][i] \in Peer
  BY <1>3 DEF Good, IsList
<1>5. Registry!Distinct(list[w])
  BY <1>3 DEF Good, Distinct, Registry!Distinct
<1>6. CASE op[w] = "add"
  <2>1. id[w] \in Ids \ DOMAIN LoadPeers /\ Without(list[w], id[w]) = LoadPeers
    BY <1>1, <1>2, <1>6 DEF Carried
  <2>2. /\ DOMAIN list[w] = DOMAIN LoadPeers \cup {id[w]}
        /\ \A j \in DOMAIN LoadPeers : list[w][j] = LoadPeers[j]
    BY <1>3, <1>6, <2>1 DEF Without
  <2> QED
    BY <1>1, <1>3, <1>4, <1>5, <1>6, <2>1, <2>2 DEF Registry!Next, Registry!Add
<1>7. CASE op[w] = "remove"
  BY <1>1, <1>2, <1>7 DEF Carried, Without, Registry!Next, Registry!Remove
<1>8. CASE op[w] = "edit"
  BY <1>1, <1>2, <1>4, <1>8 DEF Carried, Registry!Next, Registry!Edit
<1>9. CASE op[w] = "subnet"
  BY <1>1, <1>2, <1>4, <1>5, <1>9 DEF Carried, Renumbers, Registry!Next, Registry!Renumber
<1>10. CASE op[w] = "post"
  BY <1>1, <1>2, <1>10 DEF Carried, Registry!Next, Registry!PutBack
<1>11. CASE op[w] = "settings"
  BY <1>1, <1>2, <1>11 DEF Carried
<1> QED
  BY <1>2, <1>6, <1>7, <1>8, <1>9, <1>10, <1>11

(* A failed write loses the list, a failed os.Create leaves it.            *)
LEMMA FailureLoses ==
  ASSUME OneWorker, IInv, SInv, NEW w \in Workers, PeersFailed(w)
  PROVE  [Registry!Next]_<<StoredList, ui.peers>>
<1>1. /\ pc[w] \in {"trunc", "write"} /\ pc'[w] # "write" /\ UNCHANGED <<peersFile, ui>>
      /\ pc[w] = "write" => peersFile = Torn
  BY DEF PeersFailed, Reset, Goto, files, IInv, LocalsOK, SInv, TornOK
<1>2. CASE pc[w] = "trunc"
  BY <1>1, <1>2, StoredListIs DEF LoadPeers
<1>3. CASE pc[w] = "write"
  BY <1>1, <1>3, StoredListIs DEF LoadPeers, EmptyList, Registry!Next, Registry!Lose
<1> QED
  BY <1>1, <1>2, <1>3

(* No other step of a request changes the stored list.                     *)
LEMMA OtherStepsKeep ==
  ASSUME OneWorker, IInv, SInv, NEW w \in Workers, Request(w),
         ~PeersTrunc(w), ~PeersFailed(w)
  PROVE  StoredList' = StoredList
<1>1. proc = "up" /\ (pc[w] = "write" => peersFile = Torn)
  BY RequestsNeedTheProcess DEF SInv, TornOK
<1>2. CASE PeersWrite(w)
  <2>1. pc[w] = "write" /\ peersFile' = list[w] /\ list[w] # Torn
    BY <1>2, TornIsNoList DEF PeersWrite, At, IInv, LocalsOK, Good
  <2> QED
    BY <1>1, <2>1, StoredListIs DEF LoadPeers
<1>3. CASE ~PeersWrite(w)
  <2>1. peersFile' = peersFile /\ pc[w] # "write" /\ pc'[w] # "write"
    <3>1. CASE AddLoad(w) \/ AddCfg(w) \/ AddRefused(w) \/ RemoveLoad(w) \/ RemoveCfg(w)
      BY <3>1 DEF AddLoad, AddCfg, AddRefused, RemoveLoad, RemoveCfg, Begin, At, Edited, Reset,
                  Goto, files, IInv, LocalsOK
    <3>2. CASE UpdateLoad(w) \/ ImportLoad(w) \/ VpnJobLoad(w)
      BY <3>2 DEF UpdateLoad, ImportLoad, VpnJobLoad, Begin, At, Edited, Goto, files,
                  IInv, LocalsOK
    <3>3. CASE GenerateWgConfig(w) \/ ShowConf(w) \/ SyncConf(w) \/ SyncFailed(w)
      BY <3>3 DEF GenerateWgConfig, RenderConf, KeepConf, ShowConf, SyncConf, SyncFailed, At, Reset, Goto, files,
                  IInv, LocalsOK
    <3>4. CASE SaveConfigRead(w) \/ ConfigTrunc(w) \/ GeneralTrunc(w) \/ ConfigWrite(w)
                  \/ ConfigFailed(w)
      BY <3>4 DEF SaveConfigRead, ConfigTrunc, GeneralTrunc, ConfigWrite, ConfigFailed, Begin, At, Reset, Goto,
                  files, IInv, LocalsOK
    <3>5. CASE SaveConfigLoad(w) \/ Renumber(w) \/ Renumbered(w)
      BY <3>5 DEF SaveConfigLoad, Renumber, Renumbered, At, Goto, files, IInv, LocalsOK
    <3>6. CASE Restart(w) \/ WgQuickDown(w) \/ WgQuickUp(w)
      BY <3>6 DEF Restart, WgQuickDown, WgQuickUp, Begin, At, Reset, Goto, files, IInv, LocalsOK
    <3>7. CASE StopServer(w) \/ StartServer(w) \/ GetConfig(w)
      BY <3>7 DEF StopServer, StartServer, GetConfig, At, files, locals
    <3> QED
      BY <1>3, <3>1, <3>2, <3>3, <3>4, <3>5, <3>6, <3>7 DEF Request
  <2> QED
    BY <2>1, StoredListIs DEF LoadPeers
<1> QED
  BY <1>2, <1>3

LEMMA RegistryStep ==
  ASSUME OneWorker, IInv, SInv, [Next]_vars
  PROVE  [Registry!Next]_<<StoredList, ui.peers>>
<1>1. ASSUME NEW w \in Workers, Request(w), ~PeersTrunc(w), ~PeersFailed(w)
      PROVE  [Registry!Next]_<<StoredList, ui.peers>>
  <2>1. StoredList' = StoredList
    BY <1>1, OtherStepsKeep
  <2>2. CASE GetConfig(w)
    <3>1. ui'.peers = LoadPeers /\ StoredList = LoadPeers
      BY <2>2, StoredListIs DEF GetConfig, At
    <3> QED
      BY <2>1, <3>1 DEF Registry!Next, Registry!Look
  <2>3. CASE ~GetConfig(w)
    <3>1. ui' = ui
      BY <1>1, <2>3 DEF Request, AddLoad, AddCfg, AddRefused, RemoveLoad, RemoveCfg, UpdateLoad,
           ImportLoad, VpnJobLoad, PeersWrite, GenerateWgConfig, ShowConf, SyncConf, SyncFailed,
           SaveConfigRead, ConfigTrunc, GeneralTrunc, ConfigWrite, ConfigFailed, SaveConfigLoad,
           Renumber, Renumbered, Restart, WgQuickDown, WgQuickUp, StopServer, StartServer
    <3> QED
      BY <2>1, <3>1
  <2> QED
    BY <2>2, <2>3
<1>2. CASE Crash
  <2>1. peersFile' = peersFile /\ ui' = ui /\ LoadPeers' = LoadPeers
        /\ \A w \in Workers : pc'[w] = "idle"
    BY <1>2 DEF Crash, LoadPeers, files
  <2>2. StoredList' = LoadPeers
    BY <2>1 DEF StoredList, Writing
  <2>3. CASE \E w \in Workers : pc[w] = "write" /\ peersFile = Torn
    BY <2>1, <2>2, <2>3 DEF LoadPeers, EmptyList, Registry!Next, Registry!Lose
  <2>4. CASE ~\E w \in Workers : pc[w] = "write" /\ peersFile = Torn
    BY <2>1, <2>2, <2>4 DEF StoredList, Writing
  <2> QED
    BY <2>3, <2>4
<1>3. CASE Startup \/ UNCHANGED vars
  <2>1. UNCHANGED <<peersFile, ui, pc, list>>
    BY <1>3 DEF Startup, StartConfig, StartGenerate, StartSync, vars, files, locals
  <2> QED
    BY <2>1 DEF StoredList, Writing, LoadPeers
<1> QED
  BY <1>1, <1>2, <1>3, TruncStores, FailureLoses DEF Next

(* The store is an atomic registry of peers: each request replaces it in   *)
(* one step by an addition, a removal, an edit of one peer, a renumbering  *)
(* or a registry seen before, and a crash or a failed write loses all of   *)
(* it or nothing.                                                          *)
THEOREM StoreIsARegistry == ASSUME OneWorker PROVE Spec => AtomicRegistry
<1>1. Init => Registry!Init
  <2> SUFFICES ASSUME Init PROVE Registry!Init
    OBVIOUS
  <2>1. StoredList = peersFile /\ ui.peers = peersFile
    BY TornIsNoList, InitListsAssumption DEF Init, StoredList, Writing, LoadPeers
  <2> QED
    BY <2>1, InitListsAssumption DEF Init, Distinct, Registry!Init, Registry!Distinct
<1>2. IInv /\ SInv /\ [Next]_vars => [Registry!Next]_<<StoredList, ui.peers>>
  BY RegistryStep
<1>3. Spec => Registry!Spec
  BY <1>1, <1>2, SpecSInv, PTL DEF Spec, Registry!Spec
<1> QED
  BY <1>3 DEF AtomicRegistry
=============================================================================
