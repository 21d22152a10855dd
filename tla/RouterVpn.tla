------------------------------ MODULE RouterVpn ------------------------------
(***************************************************************************)
(* The tunnel of a peer on a router: the background jobs of applyPeerVpn   *)
(* and removePeerVpn, the handler importPeerToKeenetic (src/main.go), the  *)
(* import they share (src/router_vpn.go), and the edits of peers.json they *)
(* may meet.  Nothing excludes two of them from each other.                *)
(*                                                                         *)
(* An interface has a description, the key of a peer, and the settings     *)
(* made after its import.  Slug is sanitizeFilename, in which the names of *)
(* two peers may meet; nothing keeps the owner from describing an          *)
(* interface of his like a peer, or from giving it the key the server made *)
(* for one.  The router modelled is one of several: the peers elsewhere    *)
(* record names that other routers gave, and an edit of a peer's domain    *)
(* brings such a name here.                                                *)
(***************************************************************************)
EXTENDS KeeneticRouter

CONSTANTS
  Peers, Names, Slug,
  InitRegistries,   \* what peers.json may hold at the start
  Torn              \* peers.json truncated and not yet written

RouterNamed == DOMAIN Owner \cup IfNames
Iface == [desc : {Slug[n] : n \in Names} \cup {Owner[f].desc : f \in DOMAIN Owner} \cup {""},
          key  : Peers \cup {Owner[f].key : f \in DOMAIN Owner},
          has  : SUBSET {"ip", "peer", "up"}]
(* here: the peer's domain is that of this router. *)
PeerRec == [name : Names, ifn : RouterNamed \cup {NoIf}, vpn : BOOLEAN, here : BOOLEAN]

ASSUME VpnInstance == Peers # {} /\ \A f \in DOMAIN Owner : Owner[f] \in Iface
ASSUME Registries  == \A r \in InitRegistries :
  r \in [Peers -> PeerRec] /\ \A p \in Peers : r[p].here => r[p].ifn = NoIf

(* sanitizeFilename never returns an empty name. *)
ASSUME SlugNamed   == \A n \in Names : Slug[n] # ""

(* A truncated peers.json is not a list of peers. *)
ASSUME TornApart   == \A S \in SUBSET Peers : Torn \notin [S -> PeerRec]

VARIABLES
  peersFile,        \* peers.json: id -> [name, ifn, vpn, here]
  vpnStatus,        \* peer-vpn-<id>.status
  op, who, list, ifn, old, step,   \* per worker: its request, peer, copy of the list, ...
  (* history, for the properties *)
  alone,            \* per worker: no other request of this module met it
  upset,            \* some request met another or a failure, or edited a peer, or
                    \*   removed an interface that was not its peer's tunnel
  settled,          \* per peer: where its last request, a clean import, left it
  strays            \* names that other routers have given

registry  == <<peersFile, vpnStatus>>
vpnLocals == <<op, who, list, ifn, old, step>>
history   == <<alone, upset, settled, strays>>
vpnVars   == <<registry, vpnLocals, history>>

LoadPeers == IF peersFile = Torn THEN <<>> ELSE peersFile
With(l, i, p)  == [j \in DOMAIN l \cup {i} |-> IF j = i THEN p ELSE l[j]]
Without(l, i)  == Restrict(l, DOMAIN l \ {i})
SetIf(f, s)    == [running EXCEPT !.ifs = With(@, f, s)]
DropIf(f)      == [running EXCEPT !.ifs = Without(@, f)]

InitVpn ==
  /\ peersFile \in InitRegistries
  /\ vpnStatus = [p \in Peers |-> "idle"]
  /\ op = [w \in Workers |-> "none"]
  /\ who \in [Workers -> {CHOOSE p \in Peers : TRUE}]
  /\ list = [w \in Workers |-> <<>>]
  /\ ifn = [w \in Workers |-> NoIf]
  /\ old = [w \in Workers |-> NoIf]
  /\ step = [w \in Workers |-> 1]
  /\ alone = [w \in Workers |-> TRUE]
  /\ upset = FALSE
  /\ settled = [p \in Peers |-> NoIf]
  /\ strays = {peersFile[p].ifn : p \in Peers} \ {NoIf}

-----------------------------------------------------------------------------
(* History: a request begins.  What was settled is open again, and whoever *)
(* else is under way is no longer alone.                                   *)
Busy(w) == op[w] # "none"

Meets(w) ==
  /\ alone' = [v \in Workers |-> IF v = w THEN \A u \in Workers \ {w} : ~Busy(u) ELSE FALSE]
  /\ settled' = [p \in Peers |-> NoIf]
  /\ upset' = (upset \/ \E u \in Workers \ {w} : Busy(u))
  /\ UNCHANGED strays

Request(w, o, p, label) ==
  /\ Begin(w, label)
  /\ p \in DOMAIN LoadPeers
  /\ op' = [op EXCEPT ![w] = o]
  /\ who' = [who EXCEPT ![w] = p]
  /\ UNCHANGED <<ifn, old, step>>

(* The worker is done; its locals are gone. *)
Leave(w) ==
  /\ op' = [op EXCEPT ![w] = "none"]
  /\ who' = [who EXCEPT ![w] = CHOOSE p \in Peers : TRUE]
  /\ list' = [list EXCEPT ![w] = <<>>]
  /\ ifn' = [ifn EXCEPT ![w] = NoIf]
  /\ old' = [old EXCEPT ![w] = NoIf]
  /\ step' = [step EXCEPT ![w] = 1]
  /\ alone' = [alone EXCEPT ![w] = TRUE]

Report(p, s) == vpnStatus' = [vpnStatus EXCEPT ![p] = s]

(* The worker's own calls upset what follows when one of them fails. *)
Noted(w) == upset' = (upset \/ ~clean'[w])

(* Mutant: a status the browser does not know. *)
GiveUpUnknown(w) ==
  /\ IF op[w] = "import" THEN UNCHANGED vpnStatus ELSE Report(who[w], "error")
  /\ Leave(w)
  /\ Noted(w)
  /\ UNCHANGED <<peersFile, settled, strays>>

(* A job that cannot go on says so in its status file; the handler of an   *)
(* import answers 502.                                                     *)
GiveUp(w) ==
  /\ IF op[w] = "import" THEN UNCHANGED vpnStatus ELSE Report(who[w], "failed")
  /\ Leave(w)
  /\ Noted(w)
  /\ UNCHANGED <<peersFile, settled, strays>>

(* The worker goes on with its job. *)
Same(w) == Noted(w) /\ UNCHANGED <<registry, alone, settled, strays>>

-----------------------------------------------------------------------------
(* The requests load peers.json at once and answer before the job begins.  *)

ApplyBegin(w) ==
  \E p \in Peers :
    /\ Request(w, "apply", p, "connect")
    /\ list' = [list EXCEPT ![w] = LoadPeers]
    /\ Report(p, "running")
    /\ Meets(w)
    /\ UNCHANGED peersFile

RemoveBegin(w) ==
  \E p \in Peers :
    /\ Request(w, "remove", p, "login")
    /\ LoadPeers[p].ifn # NoIf
    /\ list' = [list EXCEPT ![w] = LoadPeers]
    /\ Report(p, "running")
    /\ Meets(w)
    /\ UNCHANGED peersFile

ImportBegin(w) ==
  \E p \in Peers :
    /\ Request(w, "import", p, "login")
    /\ list' = [list EXCEPT ![w] = LoadPeers]
    /\ Meets(w)
    /\ UNCHANGED registry

(* updatePeer: a new name differs from every other peer's, but the slugs   *)
(* may meet, and an interface keeps the description it was given; a new    *)
(* domain leaves the recorded name, which another router gave.             *)
UpdatePeer(w) ==
  \E p \in Peers, n \in Names, h \in BOOLEAN :
    /\ Request(w, "edit", p, "trunc")
    /\ n = LoadPeers[p].name \/ \A q \in DOMAIN LoadPeers \ {p} : LoadPeers[q].name # n
    /\ <<n, h>> # <<LoadPeers[p].name, LoadPeers[p].here>>
    /\ list' = [list EXCEPT ![w] = With(LoadPeers, p, [LoadPeers[p] EXCEPT !.name = n, !.here = h])]
    /\ alone' = [v \in Workers |-> FALSE]
    /\ settled' = [q \in Peers |-> NoIf]
    /\ upset' = TRUE
    /\ UNCHANGED <<registry, strays>>

(* removePeer: the interface on the router stays. *)
RemovePeer(w) ==
  \E p \in Peers :
    /\ Request(w, "edit", p, "trunc")
    /\ list' = [list EXCEPT ![w] = Without(LoadPeers, p)]
    /\ Meets(w)
    /\ UNCHANGED registry

-----------------------------------------------------------------------------
Here(w) == list[w][who[w]].here

(* applyPeerVpn logs in to find the working scheme, and the import logs in *)
(* again with a client of its own.                                         *)
(* Mutant: a job that cannot log in leaves its status behind. *)
ConnectSilent(w) ==
  /\ At(w, "connect") /\ Here(w)
  /\ \/ LoggedIn(w, "login") /\ UNCHANGED vpnVars
     \/ LoginFailed(w, "idle") /\ Leave(w) /\ Noted(w) /\ UNCHANGED <<registry, settled, strays>>

Connect(w) ==
  /\ At(w, "connect") /\ Here(w)
  /\ \/ LoggedIn(w, "login") /\ UNCHANGED vpnVars
     \/ LoginFailed(w, "idle") /\ GiveUp(w)

Login(w) ==
  /\ At(w, "login") /\ Here(w)
  /\ \/ LoggedIn(w, IF op[w] = "remove" THEN "remove" ELSE "list") /\ UNCHANGED vpnVars
     \/ LoginFailed(w, "idle") /\ GiveUp(w)

(* The calls for a peer elsewhere go to another router: nothing changes    *)
(* here, and what an import is given there is a name like the ones here.   *)
Elsewhere(w) ==
  /\ At(w, "connect") \/ At(w, "login")
  /\ ~Here(w)
  /\ \/ /\ Local(w, "record")
        /\ IF op[w] = "remove" THEN UNCHANGED <<ifn, strays>>
           ELSE \E f \in RouterNamed : ifn' = [ifn EXCEPT ![w] = f] /\ strays' = strays \cup {f}
        /\ UNCHANGED <<registry, op, who, list, old, step, alone, upset, settled>>
     \/ LoginFailed(w, "idle") /\ GiveUp(w)

(* removePeerVpn: the name is the one read when the request came, and the  *)
(* router is not asked to save.                                            *)
RemoveInterface(w) ==
  /\ At(w, "remove")
  /\ LET f == list[w][who[w]].ifn IN
     \/ Done(w, DropIf(f), "record") /\ Same(w) /\ UNCHANGED vpnLocals
     \/ Failed(w, DropIf(f), "idle") /\ GiveUp(w)

(* importWireGuardConfigToRouter: an interface described as this peer is   *)
(* removed first; that the list or the removal fails is only logged.       *)
OldOnes(name) == {f \in DOMAIN running.ifs : running.ifs[f].desc = name}

Named(w) == Slug[list[w][who[w]].name]

ListInterfaces(w) ==
  /\ At(w, "list")
  /\ \/ /\ \E f \in OldOnes(Named(w)) : old' = [old EXCEPT ![w] = f]
        /\ Read(w, "removeold")
     \/ OldOnes(Named(w)) = {} /\ Read(w, "import") /\ UNCHANGED old
     \/ Failed(w, running, "import") /\ UNCHANGED old
  /\ Same(w)
  /\ UNCHANGED <<op, who, list, ifn, step>>

(* Not a tunnel the server has made for this peer. *)
TakesOther(w) == \E f \in DOMAIN running.ifs :
  f = old[w] /\ (f \in DOMAIN Owner \/ running.ifs[f].key # who[w])

RemoveOld(w) ==
  /\ At(w, "removeold")
  /\ Done(w, DropIf(old[w]), "import") \/ Failed(w, DropIf(old[w]), "import")
  /\ old' = [old EXCEPT ![w] = NoIf]
  /\ upset' = (upset \/ ~clean'[w] \/ TakesOther(w))
  /\ UNCHANGED <<registry, alone, settled, strays, op, who, list, ifn, step>>

(* The router creates an interface under a free name, or answers which     *)
(* interface with this key the new one would intersect; it may also name   *)
(* none, and the import fails.                                             *)
Fresh(p) == [desc |-> "", key |-> p, has |-> {}]

Imported(p) ==
  {<<f, SetIf(f, Fresh(p))>> : f \in IfNames \ DOMAIN running.ifs}
    \cup {<<f, running>> : f \in {g \in DOMAIN running.ifs : running.ifs[g].key = p}}

Import(w) ==
  /\ At(w, "import")
  /\ \/ /\ \E r \in Imported(who[w]) : Answered(w, r[2], "orphan") /\ ifn' = [ifn EXCEPT ![w] = r[1]]
        /\ Same(w)
        /\ UNCHANGED <<op, who, list, old, step>>
     \/ (\E r \in Imported(who[w]) : Failed(w, r[2], "idle")) /\ GiveUp(w)

(* "If there's an existing orphan interface with no description, rename it *)
(* to match this peer (avoid duplicates)": only without an interface, and  *)
(* that was excluded when the answer was read.                             *)

(* Mutant: an orphan is adopted although the router has given an interface. *)
OrphansAlways(f) == OldOnes("") \ {f}

Orphans(f) == IF f = NoIf THEN OldOnes("") ELSE {}

AdoptOrphan(w) ==
  /\ At(w, "orphan")
  /\ LET f == IF Orphans(ifn[w]) = {} THEN ifn[w] ELSE CHOOSE g \in Orphans(ifn[w]) : TRUE
         new == IF f = ifn[w] THEN running ELSE SetIf(f, [running.ifs[f] EXCEPT !.desc = Named(w)])
     IN  \/ Answered(w, new, "setup") /\ ifn' = [ifn EXCEPT ![w] = f]
         \/ Failed(w, running, "setup") /\ UNCHANGED ifn
  /\ Same(w)
  /\ UNCHANGED <<op, who, list, old, step>>

(* The settings of the interface, one call each; a failed one leaves a     *)
(* warning and the next is made all the same.  A call for an interface     *)
(* that another request has removed does nothing.                          *)

(* Mutant: the old peer is removed after the new one is set. *)
SetupSwapped == <<"name", "peer", "unpeer", "ip", "up">>

Setup == <<"name", "ip", "unpeer", "peer", "up">>

Configured(s, i, name) ==
  CASE s = "name"   -> [i EXCEPT !.desc = name]
    [] s = "unpeer" -> [i EXCEPT !.has = @ \ {"peer"}]
    [] OTHER        -> [i EXCEPT !.has = @ \cup {s}]

SetupCall(w) ==
  /\ At(w, "setup")
  /\ LET f    == ifn[w]
         new  == IF f \in DOMAIN running.ifs
                 THEN SetIf(f, Configured(Setup[step[w]], running.ifs[f], Named(w))) ELSE running
         next == IF step[w] = Len(Setup) THEN "save" ELSE "setup"
     IN  Done(w, new, next) \/ Failed(w, new, next)
  /\ step' = [step EXCEPT ![w] = IF @ = Len(Setup) THEN 1 ELSE @ + 1]
  /\ Same(w)
  /\ UNCHANGED <<op, who, list, ifn, old>>

(* No public key of the server is found: the peer is neither removed nor   *)
(* set, and no warning given.                                              *)
SkipPeer(w) ==
  /\ At(w, "setup") /\ Setup[step[w]] = "unpeer"
  /\ LocalFailed(w, "setup")
  /\ step' = [step EXCEPT ![w] = @ + 2]
  /\ Same(w)
  /\ UNCHANGED <<op, who, list, ifn, old>>

SaveRouter(w) ==
  /\ At(w, "save")
  /\ Saved(w, "record") \/ SaveFailed(w, "record")
  /\ Same(w)
  /\ UNCHANGED vpnLocals

-----------------------------------------------------------------------------
(* What the jobs write back.  applyPeerVpn and removePeerVpn load the list *)
(* again and change the peer in it, if it is still there.  The import      *)
(* saves the copy it loaded before, if the interface is another one.       *)

(* Mutant: removePeerVpn leaves the name of the interface it has removed. *)
RecordedKept(w) ==
  LET p == who[w]
      l == LoadPeers
  IN CASE op[w] = "apply"  -> With(l, p, [l[p] EXCEPT !.ifn = ifn[w], !.vpn = TRUE])
       [] op[w] = "remove" -> With(l, p, [l[p] EXCEPT !.vpn = FALSE])
       [] OTHER            -> With(list[w], p, [list[w][p] EXCEPT !.ifn = ifn[w]])

Recorded(w) ==
  LET p == who[w]
      l == LoadPeers
  IN CASE op[w] = "apply"  -> With(l, p, [l[p] EXCEPT !.ifn = ifn[w], !.vpn = TRUE])
       [] op[w] = "remove" -> With(l, p, [l[p] EXCEPT !.ifn = NoIf, !.vpn = FALSE])
       [] OTHER            -> With(list[w], p, [list[w][p] EXCEPT !.ifn = ifn[w]])

Writes(w) == IF op[w] = "import" THEN ifn[w] # list[w][who[w]].ifn ELSE who[w] \in DOMAIN LoadPeers

Record(w) ==
  /\ At(w, "record")
  /\ IF Writes(w)
     THEN Local(w, "trunc") /\ list' = [list EXCEPT ![w] = Recorded(w)]
     ELSE Local(w, "report") /\ UNCHANGED list
  /\ UNCHANGED <<registry, history, op, who, ifn, old, step>>

PeersTrunc(w) ==
  /\ At(w, "trunc")
  /\ Local(w, "write")
  /\ peersFile' = Torn
  /\ UNCHANGED <<vpnStatus, vpnLocals, history>>

PeersWrite(w) ==
  /\ At(w, "write")
  /\ Local(w, "report")
  /\ peersFile' = list[w]
  /\ UNCHANGED <<vpnStatus, vpnLocals, history>>

(* savePeers fails, and no caller asks: peers.json is left as it was, or   *)
(* torn.                                                                   *)
PeersFailed(w) ==
  /\ At(w, "trunc") \/ At(w, "write")
  /\ LocalFailed(w, "report")
  /\ Same(w)
  /\ UNCHANGED vpnLocals

(* The job writes its status last; an import or an edit answers. *)
Finish(w) ==
  /\ At(w, "report")
  /\ Local(w, "idle")
  /\ IF op[w] \in {"apply", "remove"} THEN Report(who[w], "completed") ELSE UNCHANGED vpnStatus
  /\ settled' = IF op[w] \in {"apply", "import"} /\ clean[w] /\ alone[w] /\ Here(w)
                THEN [settled EXCEPT ![who[w]] = ifn[w]] ELSE settled
  /\ Leave(w)
  /\ UNCHANGED <<peersFile, upset, strays>>

VpnStep(w) ==
  \/ ApplyBegin(w) \/ RemoveBegin(w) \/ ImportBegin(w) \/ UpdatePeer(w) \/ RemovePeer(w)
  \/ Connect(w) \/ Login(w) \/ Elsewhere(w) \/ RemoveInterface(w)
  \/ ListInterfaces(w) \/ RemoveOld(w) \/ Import(w) \/ AdoptOrphan(w)
  \/ SetupCall(w) \/ SkipPeer(w) \/ SaveRouter(w)
  \/ Record(w) \/ PeersTrunc(w) \/ PeersWrite(w) \/ PeersFailed(w) \/ Finish(w)

(* The process ends: the files stay, the statuses of its jobs with them. *)
VpnCut ==
  /\ op' = [w \in Workers |-> "none"]
  /\ who' = [w \in Workers |-> CHOOSE p \in Peers : TRUE]
  /\ list' = [w \in Workers |-> <<>>]
  /\ ifn' = [w \in Workers |-> NoIf]
  /\ old' = [w \in Workers |-> NoIf]
  /\ step' = [w \in Workers |-> 1]
  /\ alone' = [w \in Workers |-> TRUE]
  /\ upset' = (upset \/ \E w \in Workers : Busy(w))
  /\ UNCHANGED <<registry, settled, strays>>
=============================================================================
