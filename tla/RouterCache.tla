------------------------------ MODULE RouterCache ------------------------------
(***************************************************************************)
(* Whether the router of a peer can be reached, as checkPeerRouter answers *)
(* it from a cache in memory (src/router_info.go).  An entry is good for   *)
(* the lifetime of the settings if the router was there, and for a minute  *)
(* if not.  The handlers that touch the peer list are the ones of          *)
(* src/main.go, here with its domains only: each loads it, and writes back *)
(* the whole of it.                                                        *)
(***************************************************************************)
EXTENDS ManagerProcess

CONSTANTS
  Peers, Domains, InitDomain,
  Gone,             \* no such peer; no entry
  Ttls, InitTtl,    \* lifetimes the settings may have
  TtlUnavailable,   \* routerCacheTTLUnavailable
  MaxCheck,         \* ticks a check takes at most: the timeouts of its client
  MaxFlips          \* bound: changes of a router's reachability

VARIABLES
  domain,           \* peers.json: RouterDomain per peer; none while it is truncated
  cfgTtl, ttl,      \* routerCacheTTL in config.json; routerCacheTTLSeconds
  cache,            \* routerCache
  reachable, flips, \* the routers
  peer, dom, since, seen,   \* per worker: its peer, domain, start and result
  pick, copy,               \* per worker: the lifetime, the list it saves
  (* history *)
  states, had,      \* what was true of a domain; which domain a peer had; when
  last,             \* the last answer
  late              \* peers a check was about when they left the list, or whose
                    \*   entry was left behind by a write that was not their removal

cacheLocals == <<peer, dom, since, seen, pick, copy>>
outside     == <<reachable, flips>>
cacheVars   == <<domain, cfgTtl, ttl, cache, outside, cacheLocals, states, had, last, late>>

Entry == [available : BOOLEAN, ts : 0 .. MaxTime]

ASSUME CachedPeers == Peers # {} /\ Gone \notin Domains /\ InitDomain \in [Peers -> Domains]
(* A lifetime of zero is not taken from the settings. *)
ASSUME CacheBounds ==
  /\ {MaxCheck, MaxFlips} \subseteq Nat
  /\ {TtlUnavailable} \cup Ttls \subseteq Nat \ {0} /\ InitTtl \in Ttls

NoPeers == [p \in Peers |-> Gone]

InitCache ==
  /\ domain = InitDomain
  /\ cfgTtl = InitTtl /\ ttl = InitTtl
  /\ cache = [p \in Peers |-> Gone]
  /\ reachable = [d \in Domains |-> TRUE] /\ flips = 0
  /\ peer \in [Workers -> {CHOOSE p \in Peers : TRUE}]
  /\ dom = [w \in Workers |-> Gone]
  /\ since = [w \in Workers |-> 0]
  /\ seen = [w \in Workers |-> FALSE]
  /\ pick = [w \in Workers |-> InitTtl]
  /\ copy = [w \in Workers |-> NoPeers]
  /\ states = {<<0, d, TRUE>> : d \in Domains}
  /\ had = {<<0, p, domain[p]>> : p \in Peers}
  /\ last = Gone
  /\ late = {}

(* The locals of a request that is over. *)
CheckOver(w) ==
  /\ peer' = [peer EXCEPT ![w] = CHOOSE p \in Peers : TRUE]
  /\ dom' = [dom EXCEPT ![w] = Gone]
  /\ since' = [since EXCEPT ![w] = 0]
  /\ seen' = [seen EXCEPT ![w] = FALSE]
  /\ pick' = [pick EXCEPT ![w] = InitTtl]
  /\ copy' = [copy EXCEPT ![w] = NoPeers]

-----------------------------------------------------------------------------
(* main() takes the lifetime from config.json; the cache is empty. *)
BootTtl ==
  /\ Boot("config", "up")
  /\ ttl' = cfgTtl
  /\ UNCHANGED <<domain, cfgTtl, cache, outside, cacheLocals, states, had, last, late>>

(* checkPeerRouter. *)
CheckBegin(w) ==
  /\ Begin(w, "lookup")
  /\ \E p \in Peers :
       /\ domain[p] # Gone
       /\ peer' = [peer EXCEPT ![w] = p]
       /\ dom' = [dom EXCEPT ![w] = domain[p]]
  /\ since' = [since EXCEPT ![w] = now]
  /\ UNCHANGED <<domain, cfgTtl, ttl, cache, outside, seen, pick, copy, states, had, last, late>>

Lifetime(available) == IF available THEN ttl ELSE TtlUnavailable

(* Mutant: an unreachable router is remembered as long as a reachable one. *)
FreshLong(e) == e # Gone /\ now - e.ts < ttl

Fresh(e) == e # Gone /\ now - e.ts < Lifetime(e.available)

Answer(p, b) == last' = [peer |-> p, available |-> b, at |-> now, within |-> Lifetime(b) - 1 + MaxCheck]

LookupHit(w) ==
  /\ Step(w, "lookup", "idle")
  /\ Fresh(cache[peer[w]])
  /\ Answer(peer[w], cache[peer[w]].available)
  /\ CheckOver(w)
  /\ UNCHANGED <<domain, cfgTtl, ttl, cache, outside, states, had, late>>

LookupMiss(w) ==
  /\ Step(w, "lookup", "probe")
  /\ ~Fresh(cache[peer[w]])
  /\ UNCHANGED cacheVars

(* Login and show version, or one GET without a login: what is read is the *)
(* router's state at one moment of the check.                              *)
Available(d) == reachable[d]

Probe(w) ==
  /\ Step(w, "probe", "store")
  /\ seen' = [seen EXCEPT ![w] = Available(dom[w])]
  /\ UNCHANGED <<domain, cfgTtl, ttl, cache, outside, peer, dom, since, pick, copy, states, had, last, late>>

Store(w) ==
  /\ Step(w, "store", "idle")
  /\ cache' = [cache EXCEPT ![peer[w]] = [available |-> seen[w], ts |-> now]]
  /\ Answer(peer[w], seen[w])
  /\ CheckOver(w)
  /\ UNCHANGED <<domain, cfgTtl, ttl, outside, states, had, late>>

-----------------------------------------------------------------------------
(* updatePeer stores another domain and leaves the cache alone. *)
UpdateDomain(w) ==
  /\ Begin(w, "edit")
  /\ \E p \in Peers, d \in Domains :
       /\ domain[p] \notin {Gone, d}
       /\ copy' = [copy EXCEPT ![w] = [domain EXCEPT ![p] = d]]
  /\ UNCHANGED <<domain, cfgTtl, ttl, cache, outside, peer, dom, since, seen, pick, states, had, last, late>>

(* saveConfig stores the list it is sent, and leaves the cache alone. *)
PostList(w) ==
  /\ Begin(w, "edit")
  /\ \E l \in [Peers -> Domains \cup {Gone}] : copy' = [copy EXCEPT ![w] = l]
  /\ UNCHANGED <<domain, cfgTtl, ttl, cache, outside, peer, dom, since, seen, pick, states, had, last, late>>

(* removePeer saves the list, and then clears the entry. *)
RemovePeer(w) ==
  /\ Begin(w, "remove")
  /\ \E p \in Peers :
       /\ domain[p] # Gone
       /\ copy' = [copy EXCEPT ![w] = [domain EXCEPT ![p] = Gone]]
       /\ peer' = [peer EXCEPT ![w] = p]
  /\ UNCHANGED <<domain, cfgTtl, ttl, cache, outside, dom, since, seen, pick, states, had, last, late>>

PeersTrunc(w) ==
  /\ Step(w, "edit", "editwrite") \/ Step(w, "remove", "removewrite")
  /\ domain' = NoPeers
  /\ UNCHANGED <<cfgTtl, ttl, cache, outside, cacheLocals, states, had, last, late>>

(* The peers that are not in a list, and whose entry will not go with them. *)
Checking(p) == \E v \in Workers : peer[v] = p /\ pc[v] \in {"lookup", "probe", "store"}

Removing(w) == IF pc[w] = "removewrite" THEN {peer[w]} ELSE {}

LeftBehind(l, X) ==
  {p \in Peers : l[p] = Gone /\ (Checking(p) \/ (p \notin X /\ cache[p] # Gone))}

PeersWrite(w) ==
  /\ \/ Step(w, "editwrite", "idle") /\ CheckOver(w)
     \/ Step(w, "removewrite", "clear") /\ UNCHANGED cacheLocals
  /\ domain' = copy[w]
  /\ had' = had \cup {<<now, p, copy[w][p]>> : p \in Peers}
  /\ late' = late \cup LeftBehind(copy[w], Removing(w))
  /\ UNCHANGED <<cfgTtl, ttl, cache, outside, states, last>>

(* savePeers fails, before the file is truncated or after: nobody asks. *)
PeersFailed(w) ==
  /\ boot = "up" /\ Fault
  /\ \/ pc[w] \in {"edit", "editwrite"} /\ Goto(w, "idle") /\ CheckOver(w)
     \/ pc[w] \in {"remove", "removewrite"} /\ Goto(w, "clear") /\ UNCHANGED cacheLocals
  /\ late' = late \cup LeftBehind(domain, {})
  /\ UNCHANGED <<now, boot, reqs, domain, cfgTtl, ttl, cache, outside, states, had, last>>

(* Mutant: removePeer leaves the entry. *)
ClearNot(w) ==
  /\ Step(w, "clear", "idle")
  /\ CheckOver(w)
  /\ UNCHANGED <<domain, cfgTtl, ttl, cache, outside, states, had, last, late>>

ClearRouterCache(w) ==
  /\ Step(w, "clear", "idle")
  /\ cache' = [cache EXCEPT ![peer[w]] = Gone]
  /\ CheckOver(w)
  /\ UNCHANGED <<domain, cfgTtl, ttl, outside, states, had, last, late>>

(* saveGeneralConfig and saveConfig: the file under s.mu, the lifetime in  *)
(* memory after it.                                                        *)
SaveTtl(w) ==
  /\ Begin(w, "ttl")
  /\ \E t \in Ttls : cfgTtl' = t /\ pick' = [pick EXCEPT ![w] = t]
  /\ UNCHANGED <<domain, ttl, cache, outside, peer, dom, since, seen, copy, states, had, last, late>>

SetTtl(w) ==
  /\ Step(w, "ttl", "idle")
  /\ ttl' = pick[w]
  /\ CheckOver(w)
  /\ UNCHANGED <<domain, cfgTtl, cache, outside, states, had, last, late>>

CacheStep(w) ==
  \/ CheckBegin(w) \/ LookupHit(w) \/ LookupMiss(w) \/ Probe(w) \/ Store(w)
  \/ UpdateDomain(w) \/ PostList(w) \/ RemovePeer(w)
  \/ PeersTrunc(w) \/ PeersWrite(w) \/ PeersFailed(w) \/ ClearRouterCache(w)
  \/ SaveTtl(w) \/ SetTtl(w)

-----------------------------------------------------------------------------
(* The world: routers go and come back; time passes, but not so far that a *)
(* check would have timed out.                                             *)
Flip ==
  /\ boot = "up" /\ flips < MaxFlips
  /\ flips' = flips + 1
  /\ \E d \in Domains :
       /\ reachable' = [reachable EXCEPT ![d] = ~@]
       /\ states' = states \cup {<<now, d, reachable'[d]>>}
  /\ UNCHANGED <<process, domain, cfgTtl, ttl, cache, cacheLocals, had, last, late>>

CacheTick ==
  /\ \A w \in Workers : pc[w] \in {"lookup", "probe", "store"} => now < since[w] + MaxCheck
  /\ states' = states \cup {<<now + 1, d, reachable[d]>> : d \in Domains}
  /\ had' = had \cup {<<now + 1, p, domain[p]>> : p \in Peers}
  /\ UNCHANGED <<domain, cfgTtl, ttl, cache, outside, cacheLocals, last, late>>

CacheCut ==
  /\ cache' = [p \in Peers |-> Gone]
  /\ ttl' = InitTtl
  /\ peer' = [w \in Workers |-> CHOOSE p \in Peers : TRUE]
  /\ dom' = [w \in Workers |-> Gone]
  /\ since' = [w \in Workers |-> 0]
  /\ seen' = [w \in Workers |-> FALSE]
  /\ pick' = [w \in Workers |-> InitTtl]
  /\ copy' = [w \in Workers |-> NoPeers]
  /\ UNCHANGED <<domain, cfgTtl, outside, states, had, last, late>>
=============================================================================
