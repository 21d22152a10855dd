------------------------------ MODULE RouterProofs ------------------------------
(***************************************************************************)
(* Proofs about RouterJobs for any number of requests, peers, interfaces   *)
(* and failures: the jobs leave what the router's owner has made alone.    *)
(***************************************************************************)
EXTENDS RouterJobs, TLAPS

(* The inductive invariant: what a router may hold, what the jobs may, and *)
(* that a job which looks for an orphan holds a name already.              *)
Refs  == RouterNamed \cup {NoIf}
Lists == UNION {[D -> PeerRec] : D \in SUBSET Peers}

Respects(c) ==
  /\ c = [ifs |-> c.ifs, dns |-> c.dns, routes |-> c.routes]
  /\ DOMAIN c.ifs \subseteq RouterNamed /\ \A f \in DOMAIN c.ifs : c.ifs[f] \in Iface
  /\ OwnerDns \ Upstreams \subseteq c.dns /\ c.dns \subseteq OwnerDns \cup Upstreams
  /\ c.routes \in BOOLEAN

RouterSafe == Respects(running) /\ Respects(startup)

(* The labels at which a job still needs its peer. *)
JobLabels == {"connect", "login", "remove", "list", "removeold", "import", "orphan",
              "setup", "save", "record"}

HoldsPeer  == \A w \in Workers : pc[w] \in JobLabels => who[w] \in DOMAIN list[w]
HoldsIface == \A w \in Workers : pc[w] = "orphan" => ifn[w] # NoIf

Typed ==
  /\ DOMAIN pc = Workers /\ pc = [w \in Workers |-> pc[w]]
  /\ peersFile = Torn \/ peersFile \in Lists
  /\ list \in [Workers -> Lists]
  /\ who \in [Workers -> Peers]
  /\ ifn \in [Workers -> Refs] /\ old \in [Workers -> Refs]
  /\ step \in [Workers -> 1 .. Len(Setup)]

TodelOK == todel \in [Workers -> SUBSET Upstreams] /\ enabled \in [Workers -> BOOLEAN]

IInv == RouterSafe /\ Typed /\ HoldsPeer /\ HoldsIface /\ TodelOK

-----------------------------------------------------------------------------
(* The router: a call leaves it safe when what the call makes is.          *)

LEMMA SetIfRespects ==
  ASSUME Respects(running), NEW f \in RouterNamed, NEW s \in Iface
  PROVE  Respects(SetIf(f, s))
BY DEF Respects, SetIf, With

LEMMA DropIfRespects ==
  ASSUME Respects(running), NEW f
  PROVE  Respects(DropIf(f))
BY DEF Respects, DropIf, Without, Restrict

(* What every step of a worker does to the router and to the labels. *)
Moves(w, label) == RouterSafe' /\ pc' = [pc EXCEPT ![w] = label]

LEMMA BeginMoves ==
  ASSUME RouterSafe, NEW w, NEW label,
         Begin(w, label) \/ Local(w, label) \/ LocalFailed(w, label)
           \/ LoggedIn(w, label) \/ LoginFailed(w, label)
  PROVE  Moves(w, label)
BY DEF Begin, Comes, Local, LocalFailed, LoggedIn, LoginFailed, Moves, RouterSafe, Goto, router

LEMMA CallMoves ==
  ASSUME RouterSafe, NEW w, NEW label, NEW new, Respects(new),
         Answered(w, new, label) \/ Done(w, new, label) \/ Failed(w, new, label)
  PROVE  Moves(w, label)
BY DEF Answered, Done, Ignored, Failed, Moves, RouterSafe, Goto, router

LEMMA SaveMoves ==
  ASSUME RouterSafe, NEW w, NEW label, Saved(w, label) \/ SaveFailed(w, label) \/ Ignored(w, label)
  PROVE  Moves(w, label)
BY DEF Saved, SaveFailed, Ignored, Moves, RouterSafe, Goto, router

LEMMA ReadMoves ==
  ASSUME RouterSafe, NEW w, NEW label, Read(w, label) \/ Failed(w, running, label)
  PROVE  Moves(w, label)
BY CallMoves DEF Read, RouterSafe

-----------------------------------------------------------------------------
(* Lists of peers.                                                         *)

LEMMA ListsMembers ==
  \A l \in Lists : DOMAIN l \subseteq Peers /\ \A p \in DOMAIN l : l[p] \in PeerRec
BY DEF Lists

LEMMA EmptyListed == <<>> \in Lists
<1>1. <<>> \in [{} -> PeerRec]
  OBVIOUS
<1> QED
  BY <1>1 DEF Lists

LEMMA LoadListed == ASSUME Typed PROVE LoadPeers \in Lists
BY EmptyListed DEF Typed, LoadPeers

LEMMA WithListed ==
  ASSUME NEW l \in Lists, NEW i \in Peers, NEW p \in PeerRec
  PROVE  With(l, i, p) \in Lists
<1>1. With(l, i, p) \in [DOMAIN l \cup {i} -> PeerRec]
  BY ListsMembers DEF With
<1>2. DOMAIN l \cup {i} \in SUBSET Peers
  BY ListsMembers
<1> QED
  BY <1>1, <1>2 DEF Lists

LEMMA WithoutListed ==
  ASSUME NEW l \in Lists, NEW i
  PROVE  Without(l, i) \in Lists
<1>1. Without(l, i) \in [DOMAIN l \ {i} -> PeerRec]
  BY ListsMembers DEF Without, Restrict
<1>2. DOMAIN l \ {i} \in SUBSET Peers
  BY ListsMembers
<1> QED
  BY <1>1, <1>2 DEF Lists

(* A request that leaves the labels of jobs, and touches no tunnel.        *)
LEMMA NoJob ==
  ASSUME Typed, HoldsPeer, HoldsIface, NEW w \in Workers, NEW label, label \notin JobLabels,
         Moves(w, label), UNCHANGED vpnVars
  PROVE  (Typed /\ HoldsPeer /\ HoldsIface)'
BY DEF Typed, HoldsPeer, HoldsIface, JobLabels, Moves, vpnVars, registry, vpnLocals

-----------------------------------------------------------------------------
(* The tunnels.  The steps of RouterVpn leave todel alone; each is shown   *)
(* to keep the rest.                                                       *)
VpnInv == RouterSafe /\ Typed /\ HoldsPeer /\ HoldsIface

LEMMA VpnInvStep ==
  ASSUME Typed, HoldsPeer, HoldsIface, NEW w \in Workers, NEW label, Moves(w, label),
         peersFile' = Torn \/ peersFile' \in Lists,
         list' \in [Workers -> Lists], who' \in [Workers -> Peers],
         ifn' \in [Workers -> Refs], old' \in [Workers -> Refs],
         step' \in [Workers -> 1 .. Len(Setup)],
         \A v \in Workers \ {w} : list'[v] = list[v] /\ who'[v] = who[v] /\ ifn'[v] = ifn[v],
         label \in JobLabels => who'[w] \in DOMAIN list'[w],
         label = "orphan" => ifn'[w] # NoIf
  PROVE  VpnInv'
BY DEF Typed, HoldsPeer, HoldsIface, Moves, VpnInv

LEMMA LeaveTyped ==
  ASSUME Typed, NEW w \in Workers, Leave(w)
  PROVE  /\ list' \in [Workers -> Lists] /\ who' \in [Workers -> Peers]
         /\ ifn' \in [Workers -> Refs] /\ old' \in [Workers -> Refs]
         /\ step' \in [Workers -> 1 .. Len(Setup)]
         /\ \A v \in Workers \ {w} : list'[v] = list[v] /\ who'[v] = who[v] /\ ifn'[v] = ifn[v]
BY EmptyListed, VpnInstance DEF Leave, Typed, Refs, Setup

LEMMA EndsVpn ==
  ASSUME VpnInv, NEW w \in Workers, Moves(w, "idle"), Leave(w), UNCHANGED peersFile
  PROVE  VpnInv'
BY LeaveTyped, VpnInvStep DEF VpnInv, JobLabels, Typed

LEMMA GivesUp ==
  ASSUME VpnInv, NEW w \in Workers, Moves(w, "idle"), GiveUp(w)
  PROVE  VpnInv'
BY EndsVpn DEF GiveUp

(* The locals stay as they are. *)
LEMMA GoesOn ==
  ASSUME VpnInv, NEW w \in Workers, NEW label, Moves(w, label),
         peersFile' = Torn \/ peersFile' \in Lists, UNCHANGED vpnLocals,
         label \in JobLabels => pc[w] \in JobLabels, label # "orphan"
  PROVE  VpnInv'
BY VpnInvStep DEF VpnInv, vpnLocals, Typed, HoldsPeer

LEMMA RequestBegins ==
  ASSUME VpnInv, NEW w \in Workers, NEW o, NEW p \in Peers, NEW label, NEW l \in Lists,
         Request(w, o, p, label), list' = [list EXCEPT ![w] = l], UNCHANGED peersFile,
         label \in JobLabels => p \in DOMAIN l, label # "orphan"
  PROVE  VpnInv'
<1>1. Moves(w, label)
  BY BeginMoves DEF Request, VpnInv
<1> QED
  BY <1>1, VpnInvStep DEF VpnInv, Request, Typed

LEMMA BeginsKeep ==
  ASSUME VpnInv, NEW w \in Workers,
         ApplyBegin(w) \/ RemoveBegin(w) \/ ImportBegin(w) \/ UpdatePeer(w) \/ RemovePeer(w)
  PROVE  VpnInv'
<1>1. LoadPeers \in Lists
  BY LoadListed DEF VpnInv
<1>2. CASE ApplyBegin(w)
  BY <1>1, <1>2, RequestBegins DEF ApplyBegin, Request, JobLabels
<1>3. CASE RemoveBegin(w)
  BY <1>1, <1>3, RequestBegins DEF RemoveBegin, Request, JobLabels
<1>4. CASE ImportBegin(w)
  BY <1>1, <1>4, RequestBegins DEF ImportBegin, Request, JobLabels, registry
<1>5. CASE UpdatePeer(w)
  <2>1. PICK p \in Peers, n \in Names, h \in BOOLEAN :
          /\ Request(w, "edit", p, "trunc")
          /\ list' = [list EXCEPT ![w] = With(LoadPeers, p, [LoadPeers[p] EXCEPT !.name = n, !.here = h])]
          /\ UNCHANGED registry
    BY <1>5 DEF UpdatePeer
  <2>2. [LoadPeers[p] EXCEPT !.name = n, !.here = h] \in PeerRec
    BY <1>1, <2>1, ListsMembers DEF Request, PeerRec
  <2>3. With(LoadPeers, p, [LoadPeers[p] EXCEPT !.name = n, !.here = h]) \in Lists
    BY <1>1, <2>2, WithListed
  <2> QED
    BY <2>1, <2>3, RequestBegins DEF JobLabels, registry
<1>6. CASE RemovePeer(w)
  BY <1>1, <1>6, RequestBegins, WithoutListed DEF RemovePeer, JobLabels, registry
<1> QED
  BY <1>2, <1>3, <1>4, <1>5, <1>6

LEMMA LoginsKeep ==
  ASSUME VpnInv, NEW w \in Workers, Connect(w) \/ Login(w)
  PROVE  VpnInv'
<1>1. CASE LoginFailed(w, "idle") /\ GiveUp(w)
  BY <1>1, BeginMoves, GivesUp DEF VpnInv
<1>2. ASSUME NEW label \in {"login", "remove", "list"}, LoggedIn(w, label),
             UNCHANGED vpnVars, pc[w] \in {"connect", "login"}
      PROVE  VpnInv'
  <2>1. Moves(w, label)
    BY <1>2, BeginMoves DEF VpnInv
  <2> QED
    BY <1>2, <2>1, GoesOn DEF VpnInv, vpnVars, registry, JobLabels, Typed
<1> QED
  BY <1>1, <1>2 DEF Connect, Login, At

(* What goes to another router comes back with a name. *)
LEMMA ElsewhereKeeps ==
  ASSUME VpnInv, NEW w \in Workers, Elsewhere(w)
  PROVE  VpnInv'
<1>1. CASE LoginFailed(w, "idle") /\ GiveUp(w)
  BY <1>1, BeginMoves, GivesUp DEF VpnInv
<1>2. CASE /\ Local(w, "record") /\ UNCHANGED <<registry, who, list, old, step>>
           /\ ifn' = ifn \/ \E f \in RouterNamed : ifn' = [ifn EXCEPT ![w] = f]
  <2>1. Moves(w, "record") /\ pc[w] \in JobLabels
    BY <1>2, BeginMoves DEF VpnInv, Elsewhere, At, JobLabels
  <2>2. ifn' \in [Workers -> Refs] /\ \A v \in Workers \ {w} : ifn'[v] = ifn[v]
    BY <1>2 DEF VpnInv, Typed, Refs
  <2> QED
    BY <1>2, <2>1, <2>2, VpnInvStep DEF VpnInv, Typed, HoldsPeer, registry
<1> QED
  BY <1>1, <1>2 DEF Elsewhere

LEMMA HeldPeer ==
  ASSUME Typed, HoldsPeer, NEW w \in Workers, pc[w] \in JobLabels
  PROVE  /\ who[w] \in DOMAIN list[w] /\ list[w] \in Lists
         /\ list[w][who[w]] \in PeerRec
         /\ list[w][who[w]].ifn \in Refs /\ list[w][who[w]].name \in Names
<1>1. who[w] \in DOMAIN list[w] /\ list[w] \in Lists
  BY DEF Typed, HoldsPeer
<1>2. list[w][who[w]] \in PeerRec
  BY <1>1, ListsMembers
<1> QED
  BY <1>1, <1>2 DEF PeerRec, Refs

LEMMA RemoveInterfaceKeeps ==
  ASSUME VpnInv, NEW w \in Workers, RemoveInterface(w)
  PROVE  VpnInv'
<1> DEFINE f == list[w][who[w]].ifn
<1>1. pc[w] \in JobLabels
  BY DEF RemoveInterface, At, JobLabels
<1>2. Respects(DropIf(f))
  BY DropIfRespects DEF VpnInv, RouterSafe
<1>3. CASE Done(w, DropIf(f), "record") /\ Same(w) /\ UNCHANGED vpnLocals
  <2>1. Moves(w, "record")
    BY <1>2, <1>3, CallMoves DEF VpnInv
  <2> QED
    BY <1>1, <1>3, <2>1, GoesOn DEF VpnInv, Same, registry, Typed
<1>4. CASE Failed(w, DropIf(f), "idle") /\ GiveUp(w)
  BY <1>2, <1>4, CallMoves, GivesUp DEF VpnInv
<1> QED
  BY <1>3, <1>4 DEF RemoveInterface

LEMMA ListInterfacesKeeps ==
  ASSUME VpnInv, NEW w \in Workers, ListInterfaces(w)
  PROVE  VpnInv'
<1>1. pc[w] \in JobLabels
  BY DEF ListInterfaces, At, JobLabels
<1>2. OldOnes(Named(w)) \subseteq Refs
  BY DEF VpnInv, RouterSafe, Respects, OldOnes, Refs
<1>3. UNCHANGED <<peersFile, who, list, ifn, step>>
  BY DEF ListInterfaces, Same, registry
<1>4. old' \in [Workers -> Refs]
  BY <1>2 DEF ListInterfaces, VpnInv, Typed
<1>5. Moves(w, "removeold") \/ Moves(w, "import")
  BY ReadMoves DEF ListInterfaces, VpnInv
<1> QED
  BY <1>1, <1>3, <1>4, <1>5, VpnInvStep DEF VpnInv, Typed, HoldsPeer

LEMMA RemoveOldKeeps ==
  ASSUME VpnInv, NEW w \in Workers, RemoveOld(w)
  PROVE  VpnInv'
<1>1. pc[w] \in JobLabels
  BY DEF RemoveOld, At, JobLabels
<1>2. Respects(DropIf(old[w]))
  BY DropIfRespects DEF VpnInv, RouterSafe
<1>3. Moves(w, "import")
  BY <1>2, CallMoves DEF RemoveOld, VpnInv
<1>4. UNCHANGED <<peersFile, who, list, ifn, step>> /\ old' \in [Workers -> Refs]
  BY DEF RemoveOld, registry, VpnInv, Typed, Refs
<1> QED
  BY <1>1, <1>3, <1>4, VpnInvStep DEF VpnInv, Typed, HoldsPeer

(* The router answers with a free name of its own for a tunnel, or with an *)
(* interface that has the peer's key.                                      *)
LEMMA ImportedRespects ==
  ASSUME RouterSafe, NEW p \in Peers, NEW r \in Imported(p)
  PROVE  r[1] \in RouterNamed /\ Respects(r[2])
<1>1. CASE \E f \in IfNames : r = <<f, SetIf(f, Fresh(p))>>
  <2>1. Fresh(p) \in Iface
    BY DEF Fresh, Iface
  <2> QED
    BY <1>1, <2>1, SetIfRespects DEF RouterSafe, RouterNamed
<1>2. CASE \E f \in DOMAIN running.ifs : r = <<f, running>>
  BY <1>2 DEF RouterSafe, Respects
<1> QED
  BY <1>1, <1>2 DEF Imported

LEMMA ImportKeeps ==
  ASSUME VpnInv, NEW w \in Workers, Import(w)
  PROVE  VpnInv'
<1>1. pc[w] \in JobLabels /\ who[w] \in Peers
  BY DEF Import, At, JobLabels, VpnInv, Typed
<1>2. ASSUME NEW r \in Imported(who[w]), Answered(w, r[2], "orphan"),
             ifn' = [ifn EXCEPT ![w] = r[1]],
             Same(w), UNCHANGED <<op, who, list, old, step>>
      PROVE  VpnInv'
  <2>1. r[1] \in RouterNamed /\ Respects(r[2])
    BY <1>1, ImportedRespects DEF VpnInv
  <2>2. Moves(w, "orphan")
    BY <1>2, <2>1, CallMoves DEF VpnInv
  <2>3. ifn' \in [Workers -> Refs] /\ ifn'[w] # NoIf
    BY <1>2, <2>1, RouterNames DEF VpnInv, Typed, Refs, RouterNamed
  <2> QED
    BY <1>1, <1>2, <2>2, <2>3, VpnInvStep DEF VpnInv, Typed, HoldsPeer, Same, registry
<1>3. ASSUME NEW r \in Imported(who[w]), Failed(w, r[2], "idle"), GiveUp(w)
      PROVE  VpnInv'
  BY <1>1, <1>3, ImportedRespects, CallMoves, GivesUp DEF VpnInv
<1> QED
  BY <1>2, <1>3 DEF Import

(* The job holds a name, so there is no orphan for it. *)
LEMMA AdoptOrphanKeeps ==
  ASSUME VpnInv, NEW w \in Workers, AdoptOrphan(w)
  PROVE  VpnInv'
<1>1. pc[w] = "orphan" /\ pc[w] \in JobLabels
  BY DEF AdoptOrphan, At, JobLabels
<1>2. Orphans(ifn[w]) = {}
  BY <1>1 DEF VpnInv, HoldsIface, Orphans
<1>3. \/ Answered(w, running, "setup") /\ ifn' = [ifn EXCEPT ![w] = ifn[w]]
      \/ Failed(w, running, "setup") /\ UNCHANGED ifn
  BY <1>2 DEF AdoptOrphan
<1>4. Moves(w, "setup")
  BY <1>3, CallMoves DEF VpnInv, RouterSafe
<1>5. UNCHANGED vpnLocals
  BY <1>3 DEF AdoptOrphan, vpnLocals, VpnInv, Typed
<1> QED
  BY <1>1, <1>4, <1>5, GoesOn DEF AdoptOrphan, Same, registry, VpnInv, Typed

LEMMA ConfiguredIface ==
  ASSUME NEW i \in Iface, NEW name \in {Slug[n] : n \in Names}, NEW k \in 1 .. Len(Setup)
  PROVE  Configured(Setup[k], i, name) \in Iface
<1>1. Setup[k] \in {"name", "ip", "unpeer", "peer", "up"}
  BY DEF Setup
<1> QED
  BY <1>1 DEF Configured, Iface

LEMMA SetupKeeps ==
  ASSUME VpnInv, NEW w \in Workers, SetupCall(w)
  PROVE  VpnInv'
<1> DEFINE f    == ifn[w]
           new  == IF f \in DOMAIN running.ifs
                   THEN SetIf(f, Configured(Setup[step[w]], running.ifs[f], Named(w))) ELSE running
           next == IF step[w] = Len(Setup) THEN "save" ELSE "setup"
<1>1. pc[w] \in JobLabels /\ next \in {"save", "setup"}
  BY DEF SetupCall, At, JobLabels
<1>2. Respects(new)
  <2>1. CASE f \in DOMAIN running.ifs
    <3>1. f \in RouterNamed /\ running.ifs[f] \in Iface
      BY <2>1 DEF VpnInv, RouterSafe, Respects
    <3>2. Named(w) \in {Slug[n] : n \in Names}
      BY <1>1, HeldPeer DEF VpnInv, Named
    <3>3. step[w] \in 1 .. Len(Setup)
      BY DEF VpnInv, Typed
    <3> QED
      BY <2>1, <3>1, <3>2, <3>3, ConfiguredIface, SetIfRespects DEF VpnInv, RouterSafe
  <2> QED
    BY <2>1 DEF VpnInv, RouterSafe
<1>3. Done(w, new, next) \/ Failed(w, new, next)
  BY DEF SetupCall
<1>4. Moves(w, next)
  BY <1>2, <1>3, CallMoves DEF VpnInv
<1>5. UNCHANGED <<peersFile, who, list, ifn, old>>
  BY DEF SetupCall, Same, registry
<1>6. step' \in [Workers -> 1 .. Len(Setup)]
  BY DEF SetupCall, VpnInv, Typed, Setup
<1> QED
  BY <1>1, <1>4, <1>5, <1>6, VpnInvStep DEF VpnInv, Typed, HoldsPeer

LEMMA SkipPeerKeeps ==
  ASSUME VpnInv, NEW w \in Workers, SkipPeer(w)
  PROVE  VpnInv'
<1>1. Moves(w, "setup") /\ pc[w] \in JobLabels
  BY BeginMoves DEF SkipPeer, VpnInv, At, JobLabels
<1>2. step' \in [Workers -> 1 .. Len(Setup)]
  BY DEF SkipPeer, VpnInv, Typed, Setup
<1> QED
  BY <1>1, <1>2, VpnInvStep DEF SkipPeer, Same, registry, VpnInv, Typed, HoldsPeer

LEMMA SaveRouterKeeps ==
  ASSUME VpnInv, NEW w \in Workers, SaveRouter(w)
  PROVE  VpnInv'
<1>1. Moves(w, "record")
  BY SaveMoves DEF SaveRouter, VpnInv
<1>2. UNCHANGED peersFile /\ UNCHANGED vpnLocals /\ pc[w] \in JobLabels
  BY DEF SaveRouter, Same, registry, At, JobLabels
<1> QED
  BY <1>1, <1>2, GoesOn DEF VpnInv, Typed

(* What a job writes back names a tunnel or nothing. *)
LEMMA RecordedListed ==
  ASSUME Typed, HoldsPeer, NEW w \in Workers, pc[w] \in JobLabels, Writes(w)
  PROVE  Recorded(w) \in Lists
<1> DEFINE p == who[w]
           l == LoadPeers
<1>1. p \in Peers /\ ifn[w] \in Refs /\ NoIf \in Refs /\ l \in Lists /\ list[w] \in Lists
  BY LoadListed DEF Typed, Refs
<1>2. CASE op[w] = "import"
  <2>1. [list[w][p] EXCEPT !.ifn = ifn[w]] \in PeerRec
    BY <1>1, HeldPeer DEF PeerRec, Refs
  <2> QED
    BY <1>1, <1>2, <2>1, WithListed DEF Recorded
<1>3. CASE op[w] # "import"
  <2>1. p \in DOMAIN l /\ l[p] \in PeerRec /\ list[w][p] \in PeerRec
    BY <1>1, <1>3, ListsMembers, HeldPeer DEF Writes
  <2>2. [l[p] EXCEPT !.ifn = ifn[w], !.vpn = TRUE] \in PeerRec
    BY <1>1, <2>1 DEF PeerRec, Refs
  <2>3. [l[p] EXCEPT !.ifn = NoIf, !.vpn = FALSE] \in PeerRec
    BY <1>1, <2>1 DEF PeerRec, Refs
  <2>4. [list[w][p] EXCEPT !.ifn = ifn[w]] \in PeerRec
    BY <1>1, <2>1 DEF PeerRec, Refs
  <2>5. /\ With(l, p, [l[p] EXCEPT !.ifn = ifn[w], !.vpn = TRUE]) \in Lists
        /\ With(l, p, [l[p] EXCEPT !.ifn = NoIf, !.vpn = FALSE]) \in Lists
        /\ With(list[w], p, [list[w][p] EXCEPT !.ifn = ifn[w]]) \in Lists
    BY <1>1, <2>2, <2>3, <2>4, WithListed
  <2> QED
    BY <2>5 DEF Recorded
<1> QED
  BY <1>2, <1>3

LEMMA WritesKeep ==
  ASSUME VpnInv, NEW w \in Workers,
         Record(w) \/ PeersTrunc(w) \/ PeersWrite(w) \/ PeersFailed(w) \/ Finish(w)
  PROVE  VpnInv'
<1>1. CASE Record(w)
  <2>1. pc[w] \in JobLabels
    BY <1>1 DEF Record, At, JobLabels
  <2>2. UNCHANGED <<peersFile, who, ifn, old, step>>
    BY <1>1 DEF Record, registry
  <2>3. list' \in [Workers -> Lists] /\ \A v \in Workers \ {w} : list'[v] = list[v]
    BY <1>1, <2>1, RecordedListed DEF Record, VpnInv, Typed
  <2>4. Moves(w, "trunc") \/ Moves(w, "report")
    BY <1>1, BeginMoves DEF Record, VpnInv
  <2> QED
    BY <2>2, <2>3, <2>4, VpnInvStep DEF VpnInv, Typed, JobLabels
<1>2. CASE PeersTrunc(w)
  <2>1. Moves(w, "write")
    BY <1>2, BeginMoves DEF PeersTrunc, VpnInv
  <2> QED
    BY <1>2, <2>1, GoesOn DEF PeersTrunc, JobLabels
<1>3. CASE PeersWrite(w)
  <2>1. Moves(w, "report")
    BY <1>3, BeginMoves DEF PeersWrite, VpnInv
  <2>2. peersFile' \in Lists
    BY <1>3 DEF PeersWrite, VpnInv, Typed
  <2> QED
    BY <1>3, <2>1, <2>2, GoesOn DEF PeersWrite, JobLabels
<1>4. CASE Finish(w)
  BY <1>4, BeginMoves, EndsVpn DEF Finish, VpnInv
<1>5. CASE PeersFailed(w)
  <2>1. Moves(w, "report")
    BY <1>5, BeginMoves DEF PeersFailed, VpnInv
  <2> QED
    BY <1>5, <2>1, GoesOn DEF PeersFailed, Same, registry, VpnInv, Typed, JobLabels
<1> QED
  BY <1>1, <1>2, <1>3, <1>4, <1>5

LEMMA VpnStepKeeps ==
  ASSUME VpnInv, NEW w \in Workers, VpnStep(w)
  PROVE  VpnInv'
BY BeginsKeep, LoginsKeep, ElsewhereKeeps, RemoveInterfaceKeeps, ListInterfacesKeeps, RemoveOldKeeps,
   ImportKeeps, AdoptOrphanKeeps, SetupKeeps, SkipPeerKeeps, SaveRouterKeeps, WritesKeep DEF VpnStep

-----------------------------------------------------------------------------
(* Components and name resolution. *)

LEMMA ComponentsMove ==
  ASSUME RouterSafe, NEW w \in Workers, ComponentsStep(w)
  PROVE  \E label : label \notin JobLabels /\ Moves(w, label)
<1> DEFINE Away == {"idle", "c.login", "c.list", "c.install", "c.commit", "c.wait", "c.verify"}
<1> SUFFICES \E label \in Away : Moves(w, label)
  BY DEF JobLabels
<1>1. CASE ComponentsBegin(w) \/ ComponentsLogin(w)
  BY <1>1, BeginMoves DEF ComponentsBegin, ComponentsLogin
<1>2. CASE ComponentsBeginTorn(w)
  BY <1>2 DEF ComponentsBeginTorn, Moves, Goto, router, RouterSafe
<1>3. CASE ComponentsList(w) \/ Install(w) \/ Verify(w)
  BY <1>3, ReadMoves DEF ComponentsList, GetComponents, Install, Verify
<1>4. CASE Commit(w)
  <2>1. CASE w \notin sessions /\ Failed(w, running, "idle")
    BY <2>1, ReadMoves
  <2>2. CASE Ignored(w, "c.wait")
    BY <2>2, SaveMoves
  <2>3. ASSUME NEW label \in Away, Goto(w, label), UNCHANGED <<running, startup>>
        PROVE  Moves(w, label)
    BY <2>3 DEF Moves, Goto, RouterSafe
  <2> QED
    BY <1>4, <2>1, <2>2, <2>3 DEF Commit
<1>5. CASE Reconnect(w)
  BY <1>5, BeginMoves DEF Reconnect, Moves, Goto, router, RouterSafe
<1> QED
  BY <1>1, <1>2, <1>3, <1>4, <1>5 DEF ComponentsStep

(* The upstreams deleted are the server's; the others stay. *)
LEMMA DnsMoves ==
  ASSUME RouterSafe, TodelOK, NEW w \in Workers, DnsStep(w)
  PROVE  TodelOK' /\ \E label : label \notin JobLabels /\ Moves(w, label)
<1> DEFINE Away == {"idle", "d.login", "d.delete", "d.add", "d.save", "r.login", "r.set", "r.save"}
<1>1. TodelOK'
  BY DEF TodelOK, DnsStep, DnsBegin, AddressesToDelete, DnsLogin, DeleteUpstream, AddUpstreams, DnsSave, RoutesBegin,
         RoutesLogin, RoutesSet, RoutesSave, dnsVars, dnsLocals, Forget, Refuse
<1> SUFFICES \E label \in Away : Moves(w, label)
  BY <1>1 DEF JobLabels
<1>2. CASE DnsBegin(w) \/ DnsLogin(w) \/ RoutesBegin(w) \/ RoutesLogin(w)
  BY <1>2, BeginMoves DEF DnsBegin, DnsLogin, RoutesBegin, RoutesLogin
<1>3. CASE DeleteUpstream(w)
  <2>1. PICK a \in todel[w] :
          \/ \E label \in Away : Done(w, [running EXCEPT !.dns = @ \ {a}], label)
          \/ Failed(w, [running EXCEPT !.dns = @ \ {a}], "d.save")
    BY <1>3 DEF DeleteUpstream
  <2>2. a \in Upstreams
    BY DEF TodelOK
  <2>3. Respects([running EXCEPT !.dns = @ \ {a}])
    BY <2>2 DEF RouterSafe, Respects
  <2> QED
    BY <2>1, <2>3, CallMoves
<1>4. CASE AddUpstreams(w)
  <2>1. Respects([running EXCEPT !.dns = @ \cup Upstreams])
    BY DEF RouterSafe, Respects
  <2> QED
    BY <1>4, <2>1, CallMoves DEF AddUpstreams
<1>5. CASE DnsSave(w) \/ RoutesSave(w)
  BY <1>5, SaveMoves DEF DnsSave, RoutesSave
<1>6. CASE RoutesSet(w)
  <2>1. Respects([running EXCEPT !.routes = enabled[w]])
    BY DEF RouterSafe, Respects, TodelOK
  <2> QED
    BY <1>6, <2>1, CallMoves DEF RoutesSet
<1> QED
  BY <1>2, <1>3, <1>4, <1>5, <1>6 DEF DnsStep

-----------------------------------------------------------------------------
LEMMA InitIInv == Init => IInv
<1> SUFFICES ASSUME Init PROVE IInv
  OBVIOUS
<1> USE DEF Init, InitRouter, InitVpn, InitDns
<1>1. RouterSafe
  BY VpnInstance DEF RouterSafe, Respects, RouterNamed
<1>2. peersFile \in Lists
  <2>1. peersFile \in [Peers -> PeerRec]
    BY Registries
  <2> QED
    BY <2>1 DEF Lists
<1>3. Typed
  BY <1>2, EmptyListed, VpnInstance DEF Typed, Refs, Setup
<1> QED
  BY <1>1, <1>3 DEF IInv, HoldsPeer, HoldsIface, TodelOK, JobLabels

LEMMA StepIInv ==
  ASSUME IInv, Next
  PROVE  IInv'
<1>1. ASSUME NEW w \in Workers, Step(w)
      PROVE  IInv'
  <2>1. CASE VpnStep(w) /\ UNCHANGED <<compVars, dnsVars>>
    BY <2>1, VpnStepKeeps DEF IInv, VpnInv, TodelOK, dnsVars, dnsLocals
  <2>2. CASE ComponentsStep(w) /\ UNCHANGED <<vpnVars, dnsVars>>
    <3>1. PICK label : label \notin JobLabels /\ Moves(w, label)
      BY <2>2, ComponentsMove DEF IInv
    <3> QED
      BY <2>2, <3>1, NoJob DEF IInv, Moves, TodelOK, dnsVars, dnsLocals
  <2>3. CASE DnsStep(w) /\ UNCHANGED <<vpnVars, compVars>>
    <3>1. PICK label : label \notin JobLabels /\ Moves(w, label)
      BY <2>3, DnsMoves DEF IInv
    <3> QED
      BY <2>3, <3>1, NoJob, DnsMoves DEF IInv, Moves
  <2> QED
    BY <1>1, <2>1, <2>2, <2>3 DEF Step
<1>2. CASE Reboot
  <2>1. RouterSafe'
    BY <1>2 DEF Reboot, InstallReboot, PowerReboot, IInv, RouterSafe
  <2> QED
    BY <1>2, <2>1 DEF Reboot, InstallReboot, PowerReboot, control, IInv, Typed, HoldsPeer, HoldsIface,
                      TodelOK, vpnVars, registry, vpnLocals, dnsVars, dnsLocals
<1>3. CASE Dies
  <2>1. RouterSafe' /\ TodelOK'
    BY <1>3 DEF Dies, EndProcess, DnsCut, router, IInv, RouterSafe, TodelOK
  <2>2. Typed'
    BY <1>3, EmptyListed, VpnInstance DEF Dies, EndProcess, VpnCut, IInv, Typed, registry, Refs
  <2> QED
    BY <1>3, <2>1, <2>2 DEF Dies, EndProcess, IInv, HoldsPeer, HoldsIface, JobLabels
<1> QED
  BY <1>1, <1>2, <1>3 DEF Next, Crash, Panic

LEMMA StutterIInv == IInv /\ UNCHANGED vars => IInv'
BY DEF vars, IInv, RouterSafe, Typed, HoldsPeer, HoldsIface, TodelOK, router, control, vpnVars,
       registry, vpnLocals, dnsVars, dnsLocals

-----------------------------------------------------------------------------
(* The owner.  An interface is spared as long as no job holds its name: in *)
(* a list, as what to remove, or as what the router has answered.          *)
Spares(c) == \A f \in Spared : f \in DOMAIN c.ifs /\ c.ifs[f] = Owner[f]
Open(l)   == \A p \in DOMAIN l : l[p].ifn \notin Spared

OwnerInv ==
  /\ Spares(running) /\ Spares(startup)
  /\ \A w \in Workers : ifn[w] \notin Spared /\ old[w] \notin Spared /\ Open(list[w])
  /\ Open(LoadPeers)

LEMMA SparedShrinks == strays \subseteq strays' => Spared' \subseteq Spared
BY DEF Spared, Claimable

LEMMA NoIfOpen == NoIf \notin Spared
BY RouterNames DEF Spared

LEMMA SetIfSpares ==
  ASSUME RouterSafe, Spares(running), NEW f, f \notin Spared, NEW s
  PROVE  Spares(SetIf(f, s))
BY DEF RouterSafe, Respects, Spares, SetIf, With

LEMMA DropIfSpares ==
  ASSUME RouterSafe, Spares(running), NEW f, f \notin Spared
  PROVE  Spares(DropIf(f))
BY DEF RouterSafe, Respects, Spares, DropIf, Without, Restrict

(* What is on the router of a peer is claimable, or no spared interface.   *)
LEMMA FoundOpen ==
  ASSUME RouterSafe, Spares(running), NEW f \in DOMAIN running.ifs,
         running.ifs[f].key \in Peers \/ running.ifs[f].desc \in {Slug[n] : n \in Names}
  PROVE  f \notin Spared
BY DEF Spares, Spared, Claimable

LEMMA EmptyOpen == Open(<<>>)
BY DEF Open

LEMMA WithOpen ==
  ASSUME NEW l, Open(l), NEW i, NEW p, p.ifn \notin Spared
  PROVE  Open(With(l, i, p))
BY DEF Open, With

(* Calls. *)
Keeps == Spares(running)' /\ Spares(startup)'

LEMMA BeginSpares ==
  ASSUME OwnerInv, UNCHANGED strays, NEW w, NEW label,
         Begin(w, label) \/ Local(w, label) \/ LocalFailed(w, label)
           \/ LoggedIn(w, label) \/ LoginFailed(w, label) \/ Ignored(w, label)
           \/ Saved(w, label) \/ SaveFailed(w, label)
  PROVE  Keeps
BY DEF Begin, Local, LocalFailed, LoggedIn, LoginFailed, Ignored, Saved, SaveFailed, Keeps, OwnerInv,
       Spares, Spared, Claimable, router

LEMMA CallSpares ==
  ASSUME OwnerInv, UNCHANGED strays, NEW w, NEW label, NEW new, Spares(new),
         Answered(w, new, label) \/ Done(w, new, label) \/ Failed(w, new, label)
  PROVE  Keeps
<1>1. running' \in {running, new} /\ startup' = startup
  BY DEF Answered, Done, Ignored, Failed, router
<1> QED
  BY <1>1 DEF Keeps, OwnerInv, Spares, Spared, Claimable

(* A worker whose list, ifn and old stay, or are given up. *)
LEMMA OwnerKeeps ==
  ASSUME OwnerInv, Typed, NEW w \in Workers, Keeps, strays \subseteq strays',
         \A v \in Workers \ {w} : list'[v] = list[v] /\ ifn'[v] = ifn[v] /\ old'[v] = old[v],
         Open(list'[w]), ifn'[w] \notin Spared', old'[w] \notin Spared',
         Open(LoadPeers')
  PROVE  OwnerInv'
<1>1. \A l : Open(l) => \A p \in DOMAIN l : l[p].ifn \notin Spared'
  BY SparedShrinks DEF Open
<1>2. \A v \in Workers : ifn'[v] \notin Spared' /\ old'[v] \notin Spared' /\ Open(list'[v])
  BY SparedShrinks DEF OwnerInv
<1> QED
  BY <1>1, <1>2 DEF OwnerInv, Open, Keeps

LEMMA OwnerStays ==
  ASSUME OwnerInv, Typed, NEW w \in Workers, Keeps, UNCHANGED <<strays, peersFile, list, ifn, old>>
  PROVE  OwnerInv'
BY OwnerKeeps, SparedShrinks DEF OwnerInv, LoadPeers

LEMMA OwnerLeaves ==
  ASSUME OwnerInv, Typed, NEW w \in Workers, Keeps, UNCHANGED <<strays, peersFile>>, Leave(w)
  PROVE  OwnerInv'
<1>1. list'[w] = <<>> /\ ifn'[w] = NoIf /\ old'[w] = NoIf
  BY DEF Leave, Typed
<1>2. \A v \in Workers \ {w} : list'[v] = list[v] /\ ifn'[v] = ifn[v] /\ old'[v] = old[v]
  BY DEF Leave, Typed
<1>3. NoIf \notin Spared' /\ Open(LoadPeers')
  BY NoIfOpen, SparedShrinks DEF OwnerInv, LoadPeers
<1> QED
  BY <1>1, <1>2, <1>3, EmptyOpen, OwnerKeeps

LEMMA OwnerBegins ==
  ASSUME OwnerInv, IInv, NEW w \in Workers,
         ApplyBegin(w) \/ RemoveBegin(w) \/ ImportBegin(w) \/ UpdatePeer(w) \/ RemovePeer(w)
  PROVE  OwnerInv'
<1>1. UNCHANGED <<strays, peersFile, ifn, old>> /\ \E label : Begin(w, label)
  BY DEF ApplyBegin, RemoveBegin, ImportBegin, UpdatePeer, RemovePeer, Request, Meets, registry
<1>2. PICK l : list' = [list EXCEPT ![w] = l] /\ Open(l)
  <2>1. CASE ApplyBegin(w) \/ RemoveBegin(w) \/ ImportBegin(w)
    BY <2>1 DEF ApplyBegin, RemoveBegin, ImportBegin, OwnerInv
  <2>2. CASE UpdatePeer(w)
    <3>1. PICK p \in Peers, n \in Names, h \in BOOLEAN :
            /\ p \in DOMAIN LoadPeers
            /\ list' = [list EXCEPT ![w] = With(LoadPeers, p, [LoadPeers[p] EXCEPT !.name = n, !.here = h])]
      BY <2>2 DEF UpdatePeer, Request
    <3>2. [LoadPeers[p] EXCEPT !.name = n, !.here = h].ifn = LoadPeers[p].ifn
      BY <3>1, LoadListed, ListsMembers DEF IInv, PeerRec
    <3> QED
      BY <3>1, <3>2, WithOpen DEF OwnerInv, Open
  <2>3. CASE RemovePeer(w)
    <3>1. PICK p \in Peers : list' = [list EXCEPT ![w] = Without(LoadPeers, p)]
      BY <2>3 DEF RemovePeer
    <3>2. Open(Without(LoadPeers, p))
      BY DEF OwnerInv, Open, Without, Restrict
    <3> QED
      BY <3>1, <3>2
  <2> QED
    BY <2>1, <2>2, <2>3
<1>3. list'[w] = l /\ \A v \in Workers \ {w} : list'[v] = list[v]
  BY <1>2 DEF IInv, Typed
<1> QED
  BY <1>1, <1>2, <1>3, BeginSpares, OwnerKeeps, SparedShrinks DEF OwnerInv, IInv, LoadPeers

LEMMA OwnerCalls ==
  ASSUME OwnerInv, IInv, NEW w \in Workers,
         Connect(w) \/ Login(w) \/ Elsewhere(w) \/ RemoveInterface(w) \/ ListInterfaces(w) \/ RemoveOld(w)
  PROVE  OwnerInv'
<1> USE DEF IInv
<1>1. CASE Connect(w) \/ Login(w)
  <2>1. CASE LoginFailed(w, "idle") /\ GiveUp(w)
    BY <2>1, BeginSpares, OwnerLeaves DEF GiveUp
  <2>2. ASSUME NEW label, LoggedIn(w, label), UNCHANGED vpnVars PROVE OwnerInv'
    BY <2>2, BeginSpares, OwnerStays DEF vpnVars, registry, vpnLocals, history
  <2> QED
    BY <1>1, <2>1, <2>2 DEF Connect, Login
<1>2. CASE Elsewhere(w)
  <2>1. CASE LoginFailed(w, "idle") /\ GiveUp(w)
    BY <2>1, BeginSpares, OwnerLeaves DEF GiveUp
  <2>2. CASE Local(w, "record") /\ UNCHANGED <<registry, list, old, ifn, strays>>
    BY <2>2, BeginSpares, OwnerStays DEF registry
  <2>3. ASSUME Local(w, "record"), UNCHANGED <<registry, list, old>>, NEW f \in RouterNamed,
               ifn' = [ifn EXCEPT ![w] = f], strays' = strays \cup {f}
        PROVE  OwnerInv'
    <3>1. strays \subseteq strays' /\ ifn'[w] = f /\ f \notin Spared'
      BY <2>3 DEF Typed, Spared
    <3>2. Keeps
      BY <2>3, <3>1, SparedShrinks DEF Local, router, Keeps, OwnerInv, Spares
    <3>3. old'[w] \notin Spared' /\ Open(list'[w]) /\ Open(LoadPeers')
      BY <2>3, <3>1, SparedShrinks DEF OwnerInv, LoadPeers, registry
    <3>4. \A v \in Workers \ {w} : list'[v] = list[v] /\ ifn'[v] = ifn[v] /\ old'[v] = old[v]
      BY <2>3 DEF Typed
    <3> QED
      BY <3>1, <3>2, <3>3, <3>4, OwnerKeeps
  <2> QED
    BY <1>2, <2>1, <2>2, <2>3 DEF Elsewhere
<1>3. CASE RemoveInterface(w)
  <2> DEFINE f == list[w][who[w]].ifn
  <2>1. pc[w] \in JobLabels
    BY <1>3 DEF RemoveInterface, At, JobLabels
  <2>2. f \notin Spared
    BY <2>1, HeldPeer DEF OwnerInv, Open
  <2>3. Spares(DropIf(f)) /\ UNCHANGED strays
    BY <1>3, <2>2, DropIfSpares DEF OwnerInv, RemoveInterface, Same, GiveUp
  <2>4. Keeps
    BY <1>3, <2>3, CallSpares DEF RemoveInterface
  <2> QED
    BY <1>3, <2>4, OwnerLeaves, OwnerStays DEF RemoveInterface, Same, GiveUp, registry, vpnLocals
<1>4. CASE ListInterfaces(w)
  <2>1. pc[w] \in JobLabels
    BY <1>4 DEF ListInterfaces, At, JobLabels
  <2>2. \A f \in OldOnes(Named(w)) : f \notin Spared
    <3>1. Named(w) \in {Slug[n] : n \in Names}
      BY <2>1, HeldPeer DEF Named
    <3> QED
      BY <3>1, FoundOpen DEF OldOnes, OwnerInv
  <2>3. UNCHANGED <<strays, peersFile, list, ifn>> /\ Keeps
    BY <1>4, CallSpares DEF ListInterfaces, Same, registry, Read, OwnerInv
  <2>4. old'[w] \notin Spared' /\ \A v \in Workers \ {w} : old'[v] = old[v]
    BY <1>4, <2>2, <2>3, SparedShrinks DEF ListInterfaces, OwnerInv, Typed
  <2> QED
    BY <2>3, <2>4, OwnerKeeps, SparedShrinks DEF OwnerInv, LoadPeers
<1>5. CASE RemoveOld(w)
  <2>1. Spares(DropIf(old[w])) /\ UNCHANGED <<strays, peersFile, list, ifn>>
    BY <1>5, DropIfSpares DEF OwnerInv, RemoveOld, registry
  <2>2. Keeps
    BY <1>5, <2>1, CallSpares DEF RemoveOld
  <2>3. old'[w] = NoIf /\ \A v \in Workers \ {w} : old'[v] = old[v]
    BY <1>5 DEF RemoveOld, Typed
  <2> QED
    BY <2>1, <2>2, <2>3, OwnerKeeps, NoIfOpen, SparedShrinks DEF OwnerInv, LoadPeers
<1> QED
  BY <1>1, <1>2, <1>3, <1>4, <1>5

LEMMA OwnerImports ==
  ASSUME OwnerInv, IInv, NEW w \in Workers,
         Import(w) \/ AdoptOrphan(w) \/ SetupCall(w) \/ SkipPeer(w) \/ SaveRouter(w)
  PROVE  OwnerInv'
<1> USE DEF IInv
<1>1. CASE Import(w)
  <2>1. ASSUME NEW r \in Imported(who[w]) PROVE r[1] \notin Spared /\ Spares(r[2])
    <3>1. CASE \E f \in IfNames : r = <<f, SetIf(f, Fresh(who[w]))>>
      BY <3>1, RouterNames, SetIfSpares DEF Spared, OwnerInv
    <3>2. CASE \E f \in DOMAIN running.ifs : running.ifs[f].key = who[w] /\ r = <<f, running>>
      BY <3>2, FoundOpen DEF OwnerInv, Typed
    <3> QED
      BY <2>1, <3>1, <3>2 DEF Imported
  <2>2. ASSUME NEW r \in Imported(who[w]), Answered(w, r[2], "orphan"),
               ifn' = [ifn EXCEPT ![w] = r[1]], Same(w), UNCHANGED <<list, old>>
        PROVE  OwnerInv'
    <3>1. Keeps /\ UNCHANGED <<strays, peersFile>>
      BY <2>1, <2>2, CallSpares DEF Same, registry
    <3>2. ifn'[w] \notin Spared' /\ \A v \in Workers \ {w} : ifn'[v] = ifn[v]
      BY <2>1, <2>2, <3>1, SparedShrinks DEF Typed
    <3> QED
      BY <2>2, <3>1, <3>2, OwnerKeeps, SparedShrinks DEF OwnerInv, LoadPeers
  <2>3. ASSUME NEW r \in Imported(who[w]), Failed(w, r[2], "idle"), GiveUp(w)
        PROVE  OwnerInv'
    BY <2>1, <2>3, CallSpares, OwnerLeaves DEF GiveUp
  <2> QED
    BY <1>1, <2>2, <2>3 DEF Import
<1>2. CASE AdoptOrphan(w)
  <2>1. Orphans(ifn[w]) = {}
    BY <1>2 DEF AdoptOrphan, At, HoldsIface, Orphans
  <2>2. \/ Answered(w, running, "setup") /\ ifn' = [ifn EXCEPT ![w] = ifn[w]]
        \/ Failed(w, running, "setup") /\ UNCHANGED ifn
    BY <1>2, <2>1 DEF AdoptOrphan
  <2>3. ifn' = ifn /\ UNCHANGED <<strays, peersFile, list, old>>
    BY <1>2, <2>2 DEF AdoptOrphan, Same, registry, Typed
  <2> QED
    BY <2>2, <2>3, CallSpares, OwnerStays DEF OwnerInv
<1>3. CASE SetupCall(w)
  <2> DEFINE f    == ifn[w]
             new  == IF f \in DOMAIN running.ifs
                     THEN SetIf(f, Configured(Setup[step[w]], running.ifs[f], Named(w))) ELSE running
             next == IF step[w] = Len(Setup) THEN "save" ELSE "setup"
  <2>1. Spares(new)
    BY SetIfSpares DEF OwnerInv
  <2>2. (Done(w, new, next) \/ Failed(w, new, next)) /\ UNCHANGED <<strays, peersFile, list, ifn, old>>
    BY <1>3 DEF SetupCall, Same, registry
  <2> HIDE DEF new, next
  <2> QED
    BY <2>1, <2>2, CallSpares, OwnerStays
<1>4. CASE SkipPeer(w) \/ SaveRouter(w)
  BY <1>4, BeginSpares, OwnerStays DEF SkipPeer, SaveRouter, Same, registry, vpnLocals
<1> QED
  BY <1>1, <1>2, <1>3, <1>4

LEMMA OwnerWrites ==
  ASSUME OwnerInv, IInv, NEW w \in Workers,
         Record(w) \/ PeersTrunc(w) \/ PeersWrite(w) \/ PeersFailed(w) \/ Finish(w)
  PROVE  OwnerInv'
<1> USE DEF IInv
<1>1. CASE Record(w)
  <2>1. pc[w] \in JobLabels /\ UNCHANGED <<strays, peersFile, ifn, old>> /\ Keeps
    BY <1>1, BeginSpares DEF Record, At, JobLabels, registry, history
  <2>2. Open(list'[w]) /\ \A v \in Workers \ {w} : list'[v] = list[v]
    <3>1. CASE UNCHANGED list
      BY <3>1 DEF OwnerInv
    <3>2. CASE Writes(w) /\ list' = [list EXCEPT ![w] = Recorded(w)]
      <4> DEFINE p == who[w]
                 l == LoadPeers
      <4>1. list[w][p] \in PeerRec /\ Open(l) /\ Open(list[w]) /\ ifn[w] \notin Spared
        BY <2>1, HeldPeer DEF OwnerInv
      <4>2. CASE op[w] = "import"
        <5> DEFINE r == [list[w][p] EXCEPT !.ifn = ifn[w]]
        <5>1. r.ifn \notin Spared
          BY <4>1 DEF PeerRec
        <5>2. list'[w] = With(list[w], p, r)
          BY <3>2, <4>2 DEF Recorded, Typed
        <5>3. \A v \in Workers \ {w} : list'[v] = list[v]
          BY <3>2 DEF Typed
        <5> HIDE DEF r
        <5>4. Open(With(list[w], p, r))
          BY <4>1, <5>1, WithOpen
        <5> QED
          BY <5>2, <5>3, <5>4
      <4>3. CASE op[w] # "import"
        <5>1. l[p] \in PeerRec
          BY <3>2, <4>3, LoadListed, ListsMembers DEF Writes
        <5>2. /\ [l[p] EXCEPT !.ifn = ifn[w], !.vpn = TRUE].ifn \notin Spared
              /\ [l[p] EXCEPT !.ifn = NoIf, !.vpn = FALSE].ifn \notin Spared
              /\ [list[w][p] EXCEPT !.ifn = ifn[w]].ifn \notin Spared
          BY <4>1, <5>1, NoIfOpen DEF PeerRec
        <5>3. \E k \in {l, list[w]} : \E r : list'[w] = With(k, p, r) /\ r.ifn \notin Spared
          BY <3>2, <5>2 DEF Recorded, Typed
        <5>4. \A v \in Workers \ {w} : list'[v] = list[v]
          BY <3>2 DEF Typed
        <5> QED
          BY <4>1, <5>3, <5>4, WithOpen
      <4> QED
        BY <4>2, <4>3
    <3> QED
      BY <1>1, <3>1, <3>2 DEF Record
  <2> QED
    BY <2>1, <2>2, OwnerKeeps, SparedShrinks DEF OwnerInv, LoadPeers
<1>2. CASE PeersTrunc(w) \/ PeersWrite(w)
  <2>1. UNCHANGED <<strays, list, ifn, old>> /\ Keeps
    BY <1>2, BeginSpares DEF PeersTrunc, PeersWrite, vpnLocals, history
  <2>2. Open(LoadPeers')
    BY <1>2, EmptyOpen DEF PeersTrunc, PeersWrite, LoadPeers, OwnerInv
  <2> QED
    BY <2>1, <2>2, OwnerKeeps, SparedShrinks DEF OwnerInv
<1>3. CASE PeersFailed(w)
  BY <1>3, BeginSpares, OwnerStays DEF PeersFailed, Same, registry, vpnLocals
<1>4. CASE Finish(w)
  BY <1>4, BeginSpares, OwnerLeaves DEF Finish
<1> QED
  BY <1>1, <1>2, <1>3, <1>4

(* The components leave the configuration as it is, and name resolution    *)
(* the interfaces in it.                                                   *)
LEMMA OthersSpare ==
  ASSUME RouterSafe, OwnerInv, NEW w \in Workers, ComponentsStep(w) \/ DnsStep(w), UNCHANGED strays
  PROVE  Keeps
<1>1. CASE ComponentsStep(w)
  <2>1. UNCHANGED <<running, startup>>
    BY <1>1 DEF ComponentsStep, ComponentsBegin, ComponentsBeginTorn, ComponentsLogin, ComponentsList,
       GetComponents, Install, Commit, Reconnect, Verify, Begin, LoggedIn, LoginFailed, Read, Answered,
       Failed, Ignored, router
  <2> QED
    BY <2>1 DEF Keeps, OwnerInv, Spares, Spared, Claimable
<1>2. ASSUME NEW new, new.ifs = running.ifs, NEW label, Done(w, new, label) \/ Failed(w, new, label)
      PROVE  Keeps
  BY <1>2, CallSpares DEF OwnerInv, Spares
<1>3. /\ \A a : [running EXCEPT !.dns = @ \ {a}].ifs = running.ifs
      /\ [running EXCEPT !.dns = @ \cup Upstreams].ifs = running.ifs
      /\ \A b : [running EXCEPT !.routes = b].ifs = running.ifs
  BY DEF RouterSafe, Respects
<1>4. CASE DnsBegin(w) \/ DnsLogin(w) \/ RoutesBegin(w) \/ RoutesLogin(w) \/ DnsSave(w) \/ RoutesSave(w)
  BY <1>4, BeginSpares DEF DnsBegin, DnsLogin, RoutesBegin, RoutesLogin, DnsSave, RoutesSave
<1>5. CASE DeleteUpstream(w)
  <2>1. PICK a : \E label : \/ Done(w, [running EXCEPT !.dns = @ \ {a}], label)
                            \/ Failed(w, [running EXCEPT !.dns = @ \ {a}], label)
    BY <1>5 DEF DeleteUpstream
  <2> QED
    BY <1>2, <1>3, <2>1
<1>6. CASE AddUpstreams(w) \/ RoutesSet(w)
  BY <1>2, <1>3, <1>6 DEF AddUpstreams, RoutesSet
<1> QED
  BY <1>1, <1>4, <1>5, <1>6 DEF DnsStep

LEMMA InitOwner == Init => OwnerInv
<1> SUFFICES ASSUME Init PROVE OwnerInv
  OBVIOUS
<1> USE DEF Init, InitRouter, InitVpn
<1>1. Spares(running) /\ Spares(startup)
  BY DEF Spares, Spared
<1>2. peersFile \in [Peers -> PeerRec]
  BY Registries
<1>3. Open(LoadPeers)
  BY <1>2, NoIfOpen, EmptyOpen DEF LoadPeers, Open, Spared
<1> QED
  BY <1>1, <1>3, NoIfOpen, EmptyOpen DEF OwnerInv

LEMMA StepOwner == ASSUME IInv, OwnerInv, [Next]_vars PROVE OwnerInv'
<1>1. ASSUME NEW w \in Workers, Step(w) PROVE OwnerInv'
  <2>1. CASE VpnStep(w)
    BY <2>1, OwnerBegins, OwnerCalls, OwnerImports, OwnerWrites DEF VpnStep
  <2>2. CASE (ComponentsStep(w) \/ DnsStep(w)) /\ UNCHANGED vpnVars
    BY <2>2, OthersSpare, OwnerStays DEF IInv, vpnVars, registry, vpnLocals, history
  <2> QED
    BY <1>1, <2>1, <2>2 DEF Step
<1>2. CASE Reboot \/ UNCHANGED vars
  <2>1. /\ running' \in {running, startup} /\ startup' = startup
        /\ UNCHANGED <<strays, peersFile, list, ifn, old>>
    BY <1>2 DEF Reboot, InstallReboot, PowerReboot, vars, router, control, vpnVars, registry, vpnLocals,
       history
  <2> QED
    BY <2>1 DEF OwnerInv, Spares, Open, Spared, Claimable, LoadPeers
<1>3. CASE Dies
  <2>1. UNCHANGED <<running, startup, strays, peersFile>>
    BY <1>3 DEF Dies, EndProcess, VpnCut, router, registry
  <2>2. \A w \in Workers : list'[w] = <<>> /\ ifn'[w] = NoIf /\ old'[w] = NoIf
    BY <1>3 DEF Dies, VpnCut
  <2> QED
    BY <2>1, <2>2, NoIfOpen DEF OwnerInv, Spares, Open, Spared, Claimable, LoadPeers
<1> QED
  BY <1>1, <1>2, <1>3 DEF Next, Crash, Panic

(* Whatever interleaves, fails or is cut off, the server changes no        *)
(* interface of the router's owner, in the running configuration or in the *)
(* saved one, but those that are described as a peer might be, have a      *)
(* peer's key, or are named like a tunnel another router gave; and no      *)
(* upstream but those at the addresses of its own                          *)
(* (importWireGuardConfigToRouter, removePeerVpn, keeneticSetupSecureDns). *)
THEOREM OwnerNeverTouched == Spec => []OwnerUntouched
<1>1. IInv /\ OwnerInv => OwnerUntouched
  BY DEF IInv, RouterSafe, Respects, OwnerInv, Spares, OwnerUntouched
<1>2. IInv /\ OwnerInv /\ [Next]_vars => OwnerInv'
  BY StepOwner
<1> QED
  BY <1>1, <1>2, InitIInv, StepIInv, StutterIInv, InitOwner, PTL DEF Spec

-----------------------------------------------------------------------------
(* The status files.  A worker with a request about tunnels is at a label  *)
(* of RouterVpn, and one at a label of Components is at work for the       *)
(* components; so whoever leaves has been the one the status spoke of.     *)
VpnLabels == JobLabels \cup {"trunc", "write", "report"}
ComponentLabels == {"c.login", "c.list", "c.install", "c.commit", "c.wait", "c.verify"}
Jobs == {"apply", "remove"}

Shape ==
  /\ DOMAIN pc = Workers /\ pc = [w \in Workers |-> pc[w]]
  /\ op \in [Workers -> Jobs \cup {"none", "import", "edit"}]
  /\ who \in [Workers -> Peers]
  /\ vpnStatus \in [Peers -> {"idle", "running", "failed", "completed"}]
  /\ \A w \in Workers : op[w] # "none" => pc[w] \in VpnLabels

LiveInv == Shape /\ StatusLive

(* The three kinds of steps of a request about tunnels. *)
Starts(w) ==
  \E o \in Jobs \cup {"import", "edit"}, p \in Peers, label \in VpnLabels :
    /\ pc[w] = "idle" /\ pc' = [pc EXCEPT ![w] = label]
    /\ op' = [op EXCEPT ![w] = o] /\ who' = [who EXCEPT ![w] = p]
    /\ \/ o \in Jobs /\ Report(p, "running")
       \/ UNCHANGED vpnStatus

Stays(w) ==
  \E label \in VpnLabels :
    /\ pc[w] \in VpnLabels /\ pc' = [pc EXCEPT ![w] = label]
    /\ UNCHANGED <<op, who, vpnStatus>>

Ends(w) ==
  /\ pc[w] \in VpnLabels /\ pc' = [pc EXCEPT ![w] = "idle"]
  /\ Leave(w)
  /\ \/ op[w] \notin Jobs /\ UNCHANGED vpnStatus
     \/ \E s \in {"failed", "completed"} : Report(who[w], s)

Labelled(w, label) == pc' = [pc EXCEPT ![w] = label]

LEMMA CallLabels ==
  ASSUME NEW w, NEW label, NEW new,
         \/ Begin(w, label) \/ Local(w, label) \/ LocalFailed(w, label) \/ LoggedIn(w, label) \/ LoginFailed(w, label)
         \/ Read(w, label) \/ Answered(w, new, label) \/ Done(w, new, label) \/ Failed(w, new, label)
         \/ Ignored(w, label) \/ Saved(w, label) \/ SaveFailed(w, label)
  PROVE  Labelled(w, label)
BY DEF Begin, Local, LocalFailed, LoggedIn, LoginFailed, Read, Answered, Done, Failed, Ignored, Saved, SaveFailed,
       Labelled, Goto

LEMMA GiveUpEnds ==
  ASSUME NEW w, pc[w] \in VpnLabels, Labelled(w, "idle"), GiveUp(w)
  PROVE  Ends(w)
BY DEF GiveUp, Ends, Labelled, Jobs

LEMMA SameStays ==
  ASSUME NEW w, NEW label \in VpnLabels, pc[w] \in VpnLabels, Labelled(w, label), Same(w),
         UNCHANGED <<op, who>>
  PROVE  Stays(w)
BY DEF Same, registry, Stays, Labelled

LEMMA VpnKinds ==
  ASSUME NEW w \in Workers, VpnStep(w)
  PROVE  Starts(w) \/ Stays(w) \/ Ends(w)
<1> USE DEF VpnLabels, JobLabels
<1>1. CASE ApplyBegin(w) \/ RemoveBegin(w)
  BY <1>1 DEF ApplyBegin, RemoveBegin, Request, Begin, Comes, At, Goto, Starts, Jobs
<1>2. CASE ImportBegin(w) \/ UpdatePeer(w) \/ RemovePeer(w)
  BY <1>2 DEF ImportBegin, UpdatePeer, RemovePeer, Request, Begin, Comes, At, Goto, Starts, registry
<1>3. CASE Connect(w) \/ Login(w)
  <2>1. CASE LoginFailed(w, "idle") /\ GiveUp(w)
    BY <1>3, <2>1, CallLabels, GiveUpEnds DEF Connect, Login, At
  <2>2. ASSUME NEW label \in {"login", "remove", "list"}, LoggedIn(w, label), UNCHANGED vpnVars
        PROVE  Stays(w)
    BY <1>3, <2>2, CallLabels DEF Connect, Login, At, Stays, Labelled, vpnVars, vpnLocals, registry
  <2> QED
    BY <1>3, <2>1, <2>2 DEF Connect, Login
<1>4. CASE RemoveInterface(w)
  BY <1>4, CallLabels, GiveUpEnds, SameStays DEF RemoveInterface, At, vpnLocals
<1>5. CASE ListInterfaces(w) \/ RemoveOld(w)
  BY <1>5, CallLabels, SameStays DEF ListInterfaces, RemoveOld, At, Stays, Labelled, registry
<1>6. CASE Import(w)
  BY <1>6, CallLabels, GiveUpEnds, SameStays DEF Import, At
<1>7. CASE AdoptOrphan(w)
  BY <1>7, CallLabels, SameStays DEF AdoptOrphan, At
<1>8. CASE SetupCall(w)
  <2>1. Labelled(w, "save") \/ Labelled(w, "setup")
    BY <1>8, CallLabels DEF SetupCall
  <2> QED
    BY <1>8, <2>1, SameStays DEF SetupCall, At
<1>9. CASE SaveRouter(w)
  BY <1>9, CallLabels, SameStays DEF SaveRouter, At, vpnLocals
<1>10. CASE Record(w) \/ PeersTrunc(w) \/ PeersWrite(w) \/ PeersFailed(w) \/ SkipPeer(w)
  BY <1>10, CallLabels DEF Record, PeersTrunc, PeersWrite, PeersFailed, SkipPeer, Same, At, Stays,
     Labelled, vpnLocals, registry
<1>11. CASE Finish(w)
  BY <1>11, CallLabels DEF Finish, At, Ends, Labelled, Jobs
<1>12. CASE Elsewhere(w)
  <2>1. CASE LoginFailed(w, "idle") /\ GiveUp(w)
    BY <1>12, <2>1, CallLabels, GiveUpEnds DEF Elsewhere, At
  <2>2. CASE Local(w, "record") /\ UNCHANGED <<registry, op, who>>
    BY <1>12, <2>2, CallLabels DEF Elsewhere, At, Stays, Labelled, registry
  <2> QED
    BY <1>12, <2>1, <2>2 DEF Elsewhere
<1> QED
  BY <1>1, <1>2, <1>3, <1>4, <1>5, <1>6, <1>7, <1>8, <1>9, <1>10, <1>11, <1>12 DEF VpnStep

LEMMA VpnLive ==
  ASSUME LiveInv, NEW w \in Workers, VpnStep(w), UNCHANGED <<compVars, killed>>
  PROVE  LiveInv'
<1> USE DEF VpnLabels, JobLabels, ComponentLabels
<1>1. Shape'
  <2>1. CASE Starts(w)
    BY <2>1 DEF LiveInv, Shape, Starts, Report, Jobs
  <2>2. CASE Stays(w)
    BY <2>2 DEF LiveInv, Shape, Stays
  <2>3. CASE Ends(w)
    BY <2>3, VpnInstance DEF LiveInv, Shape, Ends, Leave, Report
  <2> QED
    BY <2>1, <2>2, <2>3, VpnKinds
<1>2. pc[w] \notin ComponentLabels /\ \A v \in Workers \ {w} : pc'[v] = pc[v]
  BY VpnKinds DEF LiveInv, Shape, Starts, Stays, Ends
<1>3. ASSUME NEW p \in Peers, vpnStatus'[p] = "running", ~killed
      PROVE  \E v \in Workers : op'[v] \in Jobs /\ who'[v] = p
  <2>1. CASE Starts(w)
    BY <1>3, <2>1 DEF Starts, Report, LiveInv, Shape, StatusLive, Jobs
  <2>2. CASE Stays(w)
    BY <1>3, <2>2 DEF Stays, LiveInv, StatusLive, Jobs
  <2>3. CASE Ends(w)
    BY <1>3, <2>3 DEF Ends, Leave, Report, LiveInv, Shape, StatusLive, Jobs
  <2> QED
    BY <2>1, <2>2, <2>3, VpnKinds
<1> QED
  BY <1>1, <1>2, <1>3 DEF LiveInv, StatusLive, Jobs, compVars, ComponentLabels

(* Every early return of the job of the components writes its status. *)
LEMMA ComponentKinds ==
  ASSUME NEW w \in Workers, ComponentsStep(w)
  PROVE  /\ pc[w] \in ComponentLabels \cup {"idle"}
         /\ \/ \E label \in ComponentLabels : Labelled(w, label)
            \/ Labelled(w, "idle") /\ compStatus' \in {"failed", "completed"}
<1> USE DEF ComponentLabels
<1>1. CASE ComponentsBegin(w) \/ ComponentsBeginTorn(w)
  BY <1>1 DEF ComponentsBegin, ComponentsBeginTorn, Begin, Comes, At, Goto, Labelled
<1>2. CASE ComponentsLogin(w) \/ ComponentsList(w) \/ Install(w) \/ Verify(w)
  BY <1>2, CallLabels DEF ComponentsLogin, ComponentsList, GetComponents, Install, Verify, JobEnds, At
<1>3. CASE Commit(w)
  BY <1>3, CallLabels DEF Commit, JobEnds, At, Labelled, Goto
<1>4. CASE Reconnect(w)
  BY <1>4, CallLabels DEF Reconnect, At, Labelled, Goto
<1> QED
  BY <1>1, <1>2, <1>3, <1>4 DEF ComponentsStep

LEMMA ComponentsLive ==
  ASSUME LiveInv, NEW w \in Workers, ComponentsStep(w), UNCHANGED <<vpnVars, killed>>
  PROVE  LiveInv'
<1>1. op[w] = "none"
  BY ComponentKinds DEF LiveInv, Shape, VpnLabels, JobLabels, ComponentLabels
<1>2. Shape'
  BY <1>1, ComponentKinds DEF LiveInv, Shape, Labelled, vpnVars, registry, vpnLocals
<1>3. compStatus' \in {"running", "waiting_reboot"} => \E v \in Workers : pc'[v] \in ComponentLabels
  BY ComponentKinds DEF LiveInv, Shape, Labelled
<1> QED
  BY <1>2, <1>3 DEF LiveInv, StatusLive, ComponentLabels, vpnVars, registry, vpnLocals

LEMMA DnsKinds ==
  ASSUME NEW w \in Workers, DnsStep(w)
  PROVE  /\ pc[w] \in Labels \cup {"idle"}
         /\ \E label \in Labels \cup {"idle"} : Labelled(w, label)
<1> USE DEF Labels
<1>1. CASE DnsBegin(w) \/ RoutesBegin(w)
  BY <1>1 DEF DnsBegin, RoutesBegin, Begin, Comes, At, Goto, Labelled
<1>2. CASE DnsLogin(w) \/ RoutesLogin(w) \/ AddUpstreams(w) \/ RoutesSet(w)
  BY <1>2, CallLabels DEF DnsLogin, RoutesLogin, AddUpstreams, RoutesSet, At
<1>3. CASE DeleteUpstream(w)
  <2>1. \E label \in {"d.add", "d.delete", "d.save"} : Labelled(w, label)
    BY <1>3, CallLabels DEF DeleteUpstream
  <2> QED
    BY <1>3, <2>1 DEF DeleteUpstream, At
<1>4. CASE DnsSave(w) \/ RoutesSave(w)
  BY <1>4, CallLabels DEF DnsSave, RoutesSave, At
<1> QED
  BY <1>1, <1>2, <1>3, <1>4 DEF DnsStep

LEMMA DnsLive ==
  ASSUME LiveInv, NEW w \in Workers, DnsStep(w), UNCHANGED <<vpnVars, compVars, killed>>
  PROVE  LiveInv'
<1>1. op[w] = "none" /\ pc[w] \notin ComponentLabels
  BY DnsKinds DEF LiveInv, Shape, VpnLabels, JobLabels, ComponentLabels, Labels
<1>2. Shape' /\ \A v \in Workers \ {w} : pc'[v] = pc[v]
  BY <1>1, DnsKinds DEF LiveInv, Shape, Labelled, vpnVars, registry, vpnLocals
<1> QED
  BY <1>1, <1>2 DEF LiveInv, StatusLive, ComponentLabels, vpnVars, registry, vpnLocals, compVars

LEMMA StepLive ==
  ASSUME LiveInv, Next
  PROVE  LiveInv'
<1>1. ASSUME NEW w \in Workers, Step(w)
      PROVE  LiveInv'
  BY <1>1, VpnLive, ComponentsLive, DnsLive DEF Step
<1>2. CASE Reboot
  BY <1>2 DEF Reboot, InstallReboot, PowerReboot, control, LiveInv, Shape, StatusLive, vpnVars,
              registry, vpnLocals, compVars
<1>3. CASE Dies
  <2>1. Shape'
    BY <1>3, VpnInstance DEF Dies, EndProcess, VpnCut, registry, LiveInv, Shape, Jobs
  <2>2. killed' \/ (~killed /\ \A w \in Workers : pc[w] = "idle")
    BY <1>3 DEF Dies
  <2>3. CASE ~killed /\ \A w \in Workers : pc[w] = "idle"
    <3>1. /\ \A p \in Peers : vpnStatus[p] # "running"
          /\ compStatus \notin {"running", "waiting_reboot"}
      BY <2>3 DEF LiveInv, Shape, StatusLive, Jobs, VpnLabels, JobLabels
    <3>2. UNCHANGED <<vpnStatus, compStatus>>
      BY <1>3 DEF Dies, VpnCut, ComponentsCut, registry
    <3> QED
      BY <2>1, <3>1, <3>2 DEF LiveInv, StatusLive
  <2> QED
    BY <2>1, <2>2, <2>3 DEF LiveInv, StatusLive
<1> QED
  BY <1>1, <1>2, <1>3 DEF Next, Crash, Panic

LEMMA InitLive == Init => LiveInv
<1> SUFFICES ASSUME Init PROVE LiveInv
  OBVIOUS
<1> USE DEF Init, InitRouter, InitVpn, InitComponents
<1>1. Shape
  BY VpnInstance DEF Shape, VpnLabels
<1>2. StatusLive
  BY DEF StatusLive
<1> QED
  BY <1>1, <1>2 DEF LiveInv

LEMMA StutterLive == LiveInv /\ UNCHANGED vars => LiveInv'
BY DEF vars, LiveInv, Shape, StatusLive, control, vpnVars, registry, vpnLocals, compVars

(* No job ends, and no handler returns early, with a status file that      *)
(* still says that it is under way (applyPeerVpn, removePeerVpn,           *)
(* configurePeerComponents): only the death of the process leaves one.     *)
THEOREM StatusAlwaysLive == Spec => []StatusLive
<1>1. LiveInv => StatusLive
  BY DEF LiveInv
<1> QED
  BY <1>1, InitLive, StepLive, StutterLive, PTL DEF Spec
=============================================================================
