------------------------------- MODULE DnsApply -------------------------------
(***************************************************************************)
(* DNS routes: data/dns-routes.json with the handlers that edit it, and    *)
(* the background job of applyDnsRoutesToRouter that carries the routes to *)
(* the Keenetic routers, one RCI call at a time (src/dns_routing.go).      *)
(*                                                                         *)
(* A route is stored under a name, of which only the slug matters, with n  *)
(* chunks of at most 300 domains and subnets.  On a router the k-th chunk  *)
(* of a route is the object group <<slug, k>> (slug_NCMk); bound says      *)
(* which groups dns-proxy routes into the tunnel.  What a router does with *)
(* a call is external: the code's own use of it is the reference.          *)
(***************************************************************************)
EXTENDS Naturals, Sequences, FiniteSets, SequencesExt

CONSTANTS
  Workers,        \* requests, each with the job it starts
  Routers,
  Slugs, MaxChunks,
  Foreign,        \* object groups of the router's owner
  Ids,            \* route ids that may ever be generated
  InitRoutes,     \* dns-routes.json at the start
  Imports,        \* lists that may be imported
  Torn,           \* a file truncated and not yet written
  NoRouter,
  MaxRequests,    \* bound: requests in one behaviour
  MaxFaults       \* bound: failed calls and writes, router reboots, crashes

VARIABLES
  stored,         \* data/dns-routes.json
  dnsApplyRunning,
  status,         \* dns-apply.status
  groups, bound,  \* per router: its object groups, and those routed
  startup,        \* per router: the saved configuration
  used, reqs, faults,
  pc, routes, todo, router, calls, clean   \* per worker

onRouter == <<groups, bound, startup>>
counters == <<used, reqs, faults>>
locals   == <<pc, routes, todo, router, calls, clean>>
vars     == <<stored, dnsApplyRunning, status, onRouter, counters, locals>>

Route == [id : Ids, slug : Slugs, n : 0 .. MaxChunks, on : BOOLEAN]
Names == Slugs \X (1 .. MaxChunks)

ASSUME BoundsAssumption == MaxRequests \in Nat /\ MaxFaults \in Nat /\ MaxChunks \in Nat
ASSUME RoutesAssumption == InitRoutes \in Seq(Route) /\ Imports \subseteq Seq(Route)

(* A slug has at most 20 characters, of a-z, 0-9 and _; what else is on a  *)
(* router has names of another shape.                                      *)
ASSUME NamesAssumption == IsFiniteSet(Slugs) /\ Foreign \cap Names = {}

(* dnsGroupRe: groups of ours by the shape of their name. *)
Own(g) == g \in Names

(* The contents of a group: the pieces of routes posted to it. *)
Piece(r, k) == <<r.id, r.n, k>>

-----------------------------------------------------------------------------
(* keeneticApplyDnsRoutes: the calls it makes, in order, for the groups it *)
(* read at the start.  Groups of ours whose slug no route has are removed; *)
(* then every route removes the groups that had its slug and creates its   *)
(* own.  A route without items creates none.                               *)

Delete(gs) == [do |-> "delete", gs |-> gs, items |-> {}]
Unbind(g)  == [do |-> "unbind", gs |-> {g}, items |-> {}]
Create(g, p) == [do |-> "create", gs |-> {g}, items |-> {p}]
Bind(g)    == [do |-> "bind", gs |-> {g}, items |-> {}]
Save       == [do |-> "save", gs |-> {}, items |-> {}]

EachUnbound(gs) == LET s == SetToSeq(gs) IN [i \in 1 .. Len(s) |-> Unbind(s[i])]

DropOrphans(existing, rs) ==
  LET orphans == SetToSeq({g \in existing : Own(g) /\ g[1] \notin {r.slug : r \in ToSet(rs)}})
  IN  FlattenSeq([i \in 1 .. Len(orphans) |-> <<Delete({orphans[i]}), Unbind(orphans[i])>>])

(* Mutant: a group that exists is not deleted before it is posted again. *)
DropOldNot(existing, r) == <<>>

DropOld(existing, r) ==
  LET old == {g \in existing : Own(g) /\ g[1] = r.slug}
  IN  IF old = {} THEN <<>> ELSE <<Delete(old)>> \o EachUnbound(old)

(* Mutant: the route is bound whether or not it is enabled. *)
CreateChunksBound(r) ==
  FlattenSeq([k \in 1 .. r.n |-> <<Create(<<r.slug, k>>, Piece(r, k)), Bind(<<r.slug, k>>)>>])

CreateChunks(r) ==
  FlattenSeq([k \in 1 .. r.n |->
                <<Create(<<r.slug, k>>, Piece(r, k))>>
                  \o IF r.on THEN <<Bind(<<r.slug, k>>)>> ELSE <<>>])

Plan(existing, rs) ==
  DropOrphans(existing, rs)
    \o FlattenSeq([i \in 1 .. Len(rs) |-> DropOld(existing, rs[i]) \o CreateChunks(rs[i])])
    \o <<Save>>

-----------------------------------------------------------------------------
Init ==
  /\ stored = InitRoutes
  /\ dnsApplyRunning = FALSE
  /\ status = "idle"
  /\ groups = [r \in Routers |-> [g \in Foreign |-> {}]]
  /\ bound = [r \in Routers |-> {}]
  /\ startup = [r \in Routers |-> [groups |-> groups[r], bound |-> {}]]
  /\ used = {r.id : r \in ToSet(InitRoutes)}
  /\ reqs = 0 /\ faults = 0
  /\ pc = [w \in Workers |-> "idle"]
  /\ routes = [w \in Workers |-> <<>>]
  /\ todo = [w \in Workers |-> {}]
  /\ router = [w \in Workers |-> NoRouter]
  /\ calls = [w \in Workers |-> <<>>]
  /\ clean = [w \in Workers |-> FALSE]

Goto(w, label) == pc' = [pc EXCEPT ![w] = label]
Begin(w) == pc[w] = "idle" /\ reqs < MaxRequests /\ reqs' = reqs + 1
Fault    == faults < MaxFaults /\ faults' = faults + 1

Reset(w) ==
  /\ Goto(w, "idle")
  /\ routes' = [routes EXCEPT ![w] = <<>>]
  /\ todo' = [todo EXCEPT ![w] = {}]
  /\ router' = [router EXCEPT ![w] = NoRouter]
  /\ calls' = [calls EXCEPT ![w] = <<>>]
  /\ clean' = [clean EXCEPT ![w] = FALSE]

-----------------------------------------------------------------------------
(* The handlers that edit dns-routes.json load it, without a lock and      *)
(* ignoring errors, change the copy, and save it; an import loads nothing. *)

LoadDnsRoutes == IF stored = Torn THEN <<>> ELSE stored

CreateDnsRoute(w) ==
  /\ Begin(w)
  /\ \E r \in Route :
       /\ r.id \notin used /\ r.on
       /\ routes' = [routes EXCEPT ![w] = Append(LoadDnsRoutes, r)]
       /\ used' = used \cup {r.id}
  /\ Goto(w, "trunc")
  /\ UNCHANGED <<stored, dnsApplyRunning, status, onRouter, faults, todo, router, calls, clean>>

UpdateDnsRoute(w) ==
  /\ Begin(w)
  /\ \E i \in DOMAIN LoadDnsRoutes, r \in Route :
       /\ r.id = LoadDnsRoutes[i].id
       /\ routes' = [routes EXCEPT ![w] = [LoadDnsRoutes EXCEPT ![i] = r]]
  /\ Goto(w, "trunc")
  /\ UNCHANGED <<stored, dnsApplyRunning, status, onRouter, used, faults, todo, router, calls, clean>>

(* The routes of a list whose id is another. *)
Without(rs, i) == FlattenSeq([k \in 1 .. Len(rs) |-> IF rs[k].id = i THEN <<>> ELSE <<rs[k]>>])

DeleteDnsRoute(w) ==
  /\ Begin(w)
  /\ \E i \in Ids : routes' = [routes EXCEPT ![w] = Without(LoadDnsRoutes, i)]
  /\ Goto(w, "trunc")
  /\ UNCHANGED <<stored, dnsApplyRunning, status, onRouter, used, faults, todo, router, calls, clean>>

ImportDnsRoutes(w) ==
  /\ Begin(w)
  /\ \E l \in Imports : routes' = [routes EXCEPT ![w] = l] /\ used' = used \cup {r.id : r \in ToSet(l)}
  /\ Goto(w, "trunc")
  /\ UNCHANGED <<stored, dnsApplyRunning, status, onRouter, faults, todo, router, calls, clean>>

RoutesTrunc(w) ==
  /\ pc[w] = "trunc"
  /\ stored' = Torn
  /\ Goto(w, "write")
  /\ UNCHANGED <<dnsApplyRunning, status, onRouter, counters, routes, todo, router, calls, clean>>

RoutesWrite(w) ==
  /\ pc[w] = "write"
  /\ stored' = routes[w]
  /\ Reset(w)
  /\ UNCHANGED <<dnsApplyRunning, status, onRouter, counters>>

(* os.Create fails and leaves the file, or Encode fails and leaves it      *)
(* torn; an import answers 500, the others ignore the error.               *)
RoutesFailed(w) ==
  /\ pc[w] \in {"trunc", "write"}
  /\ Fault
  /\ Reset(w)
  /\ UNCHANGED <<stored, dnsApplyRunning, status, onRouter, used, reqs>>

-----------------------------------------------------------------------------
(* applyDnsRoutesToRouter: one compare-and-swap admits one job. *)

(* Mutant: the flag is tested here and set only when the job starts. *)
ApplyBeginUnset(w) ==
  /\ Begin(w)
  /\ ~dnsApplyRunning
  /\ Goto(w, "body")
  /\ UNCHANGED <<stored, dnsApplyRunning, status, onRouter, used, faults, routes, todo, router, calls, clean>>

ApplyBegin(w) ==
  /\ Begin(w)
  /\ ~dnsApplyRunning
  /\ dnsApplyRunning' = TRUE
  /\ Goto(w, "body")
  /\ UNCHANGED <<stored, status, onRouter, used, faults, routes, todo, router, calls, clean>>

ApplyBusy(w) ==
  /\ Begin(w)
  /\ dnsApplyRunning
  /\ UNCHANGED <<stored, dnsApplyRunning, status, onRouter, used, faults, locals>>

(* With the flag set the body of the request is read, which takes as long  *)
(* as the client cares to: the server has no read timeout.                 *)
BodyRead(w) ==
  /\ pc[w] = "body"
  /\ Goto(w, "load")
  /\ UNCHANGED <<stored, dnsApplyRunning, status, onRouter, counters, routes, todo, router, calls, clean>>

(* Mutant: the answer 400 leaves the flag set. *)
ApplyRefusedHeld(w) ==
  /\ pc[w] = "body"
  /\ Reset(w)
  /\ UNCHANGED <<stored, dnsApplyRunning, status, onRouter, counters>>

(* A body that is not JSON, or breaks off: 400. *)
ApplyRefused(w) ==
  /\ pc[w] = "body"
  /\ dnsApplyRunning' = FALSE
  /\ Reset(w)
  /\ UNCHANGED <<stored, status, onRouter, counters>>

(* Nothing stored, or a file that cannot be read: 400. *)
ApplyNoRoutes(w) ==
  /\ pc[w] = "load"
  /\ LoadDnsRoutes = <<>>
  /\ dnsApplyRunning' = FALSE
  /\ Reset(w)
  /\ UNCHANGED <<stored, status, onRouter, counters>>

(* Mutant: the status of the job before is left to be polled. *)
ApplyStartSilent(w) ==
  /\ pc[w] = "load"
  /\ LoadDnsRoutes # <<>>
  /\ routes' = [routes EXCEPT ![w] = LoadDnsRoutes]
  /\ \E t \in {Routers} \cup {{r} : r \in Routers} : todo' = [todo EXCEPT ![w] = t]
  /\ Goto(w, "next")
  /\ UNCHANGED <<stored, dnsApplyRunning, status, onRouter, counters, router, calls, clean>>

(* The routes are read once, for every router the job visits: the one of   *)
(* the peer named in the request, or all, which an unknown id means too.   *)
ApplyStart(w) ==
  /\ pc[w] = "load"
  /\ LoadDnsRoutes # <<>>
  /\ routes' = [routes EXCEPT ![w] = LoadDnsRoutes]
  /\ status' = "running"
  /\ \E t \in {Routers} \cup {{r} : r \in Routers} : todo' = [todo EXCEPT ![w] = t]
  /\ Goto(w, "next")
  /\ UNCHANGED <<stored, dnsApplyRunning, onRouter, counters, router, calls, clean>>

(* A router whose login fails, or whose groups cannot be read, is skipped. *)
SkipRouter(w) ==
  /\ pc[w] = "next"
  /\ Fault
  /\ \E r \in todo[w] : todo' = [todo EXCEPT ![w] = @ \ {r}]
  /\ UNCHANGED <<stored, dnsApplyRunning, status, onRouter, used, reqs, pc, routes, router, calls, clean>>

ReadGroups(w) ==
  /\ pc[w] = "next"
  /\ \E r \in todo[w] :
       /\ todo' = [todo EXCEPT ![w] = @ \ {r}]
       /\ router' = [router EXCEPT ![w] = r]
       /\ calls' = [calls EXCEPT ![w] = Plan(DOMAIN groups[r], routes[w])]
  /\ clean' = [clean EXCEPT ![w] = TRUE]
  /\ Goto(w, "call")
  /\ UNCHANGED <<stored, dnsApplyRunning, status, onRouter, counters, routes>>

(* The effect of a call on router r. *)
Effect(r, c) ==
  /\ groups' = [groups EXCEPT ![r] =
       CASE c.do = "delete" -> [g \in DOMAIN @ \ c.gs |-> @[g]]
         [] c.do = "create" -> [g \in DOMAIN @ \cup c.gs |->
                                  (IF g \in DOMAIN @ THEN @[g] ELSE {})
                                    \cup (IF g \in c.gs THEN c.items ELSE {})]
         [] OTHER -> @]
  /\ bound' = [bound EXCEPT ![r] =
       CASE c.do = "unbind" -> @ \ c.gs
         [] c.do = "bind"   -> @ \cup c.gs
         [] OTHER -> @]
  /\ startup' = IF c.do = "save"
                THEN [startup EXCEPT ![r] = [groups |-> groups[r], bound |-> bound[r]]]
                ELSE startup

Called(w) ==
  /\ calls' = [calls EXCEPT ![w] = Tail(@)]
  /\ Goto(w, IF Len(calls[w]) = 1 THEN "next" ELSE "call")

Call(w) ==
  /\ pc[w] = "call"
  /\ Effect(router[w], Head(calls[w]))
  /\ Called(w)
  /\ UNCHANGED <<stored, dnsApplyRunning, status, counters, routes, todo, router, clean>>

(* A failed call is logged, and the job goes on. *)
CallFails(w) ==
  /\ pc[w] = "call"
  /\ Fault
  /\ Called(w)
  /\ clean' = [clean EXCEPT ![w] = FALSE]
  /\ UNCHANGED <<stored, dnsApplyRunning, status, onRouter, used, reqs, routes, todo, router>>

Completed(w) ==
  /\ pc[w] = "next" /\ todo[w] = {}
  /\ status' = "completed"
  /\ Goto(w, "release")
  /\ UNCHANGED <<stored, dnsApplyRunning, onRouter, counters, routes, todo, router, calls, clean>>

Release(w) ==
  /\ pc[w] = "release"
  /\ dnsApplyRunning' = FALSE
  /\ Reset(w)
  /\ UNCHANGED <<stored, status, onRouter, counters>>

-----------------------------------------------------------------------------
(* The process is killed; a router reboots with what it had saved.         *)

Crash ==
  /\ Fault
  /\ dnsApplyRunning' = FALSE
  /\ pc' = [w \in Workers |-> "idle"]
  /\ routes' = [w \in Workers |-> <<>>]
  /\ todo' = [w \in Workers |-> {}]
  /\ router' = [w \in Workers |-> NoRouter]
  /\ calls' = [w \in Workers |-> <<>>]
  /\ clean' = [w \in Workers |-> FALSE]
  /\ UNCHANGED <<stored, status, onRouter, used, reqs>>

Reboot(r) ==
  /\ Fault
  /\ groups' = [groups EXCEPT ![r] = startup[r].groups]
  /\ bound' = [bound EXCEPT ![r] = startup[r].bound]
  /\ clean' = [w \in Workers |-> clean[w] /\ router[w] # r]
  /\ UNCHANGED <<stored, dnsApplyRunning, status, startup, used, reqs, pc, routes, todo, router, calls>>

-----------------------------------------------------------------------------
Edit(w) ==
  CreateDnsRoute(w) \/ UpdateDnsRoute(w) \/ DeleteDnsRoute(w) \/ ImportDnsRoutes(w)

Body(w) == BodyRead(w) \/ ApplyRefused(w)

Job(w) ==
  \/ ApplyNoRoutes(w) \/ ApplyStart(w)
  \/ SkipRouter(w) \/ ReadGroups(w) \/ Call(w) \/ CallFails(w)
  \/ Completed(w) \/ Release(w)

Next ==
  \/ \E w \in Workers :
       \/ Edit(w) \/ RoutesTrunc(w) \/ RoutesWrite(w) \/ RoutesFailed(w)
       \/ ApplyBegin(w) \/ ApplyBusy(w) \/ Body(w) \/ Job(w)
  \/ Crash
  \/ \E r \in Routers : Reboot(r)

(* The job's goroutine runs, and its HTTP client times out.  Nothing makes *)
(* the client that posted the request finish its body.                     *)
Spec == Init /\ [][Next]_vars /\ \A w \in Workers : WF_vars(Job(w))

-----------------------------------------------------------------------------
(***************************************************************************)
(* Properties.                                                             *)
(***************************************************************************)

(* The variables hold what the code can put there; a request past the      *)
(* compare-and-swap has the flag for itself.                               *)
InJob(w) == pc[w] \in {"body", "load", "next", "call", "release"}

TypeOK ==
  /\ stored = Torn \/ stored \in Seq(Route)
  /\ status \in {"idle", "running", "completed"}
  /\ \A r \in Routers : DOMAIN groups[r] \subseteq Names \cup Foreign /\ bound[r] \subseteq Names
  /\ pc \in [Workers -> {"idle", "trunc", "write", "body", "load", "next", "call", "release"}]
  /\ \A w \in Workers : routes[w] \in Seq(Route) /\ todo[w] \subseteq Routers
  /\ dnsApplyRunning <=> \E w \in Workers : InJob(w)
  /\ \A v, w \in Workers : InJob(v) /\ InJob(w) => v = w

(* What a router should hold after the routes rs were applied. *)
SlugsDistinct(rs) == \A i, j \in DOMAIN rs : rs[i].slug = rs[j].slug => i = j

Chunks(rs, Cond(_)) == UNION {{<<r, k>> : k \in 1 .. r.n} : r \in {r \in ToSet(rs) : Cond(r)}}

WantedGroups(rs) ==
  LET want == Chunks(rs, LAMBDA r : TRUE)
      OfName(g) == {c \in want : <<c[1].slug, c[2]>> = g}
  IN  [g \in Foreign \cup {<<c[1].slug, c[2]>> : c \in want} |->
         {Piece(c[1], c[2]) : c \in OfName(g)}]

WantedBound(rs) == {<<c[1].slug, c[2]>> : c \in Chunks(rs, LAMBDA r : r.on)}

Applied(w) == pc[w] = "call" /\ Len(calls[w]) = 1 /\ faults' = faults /\ pc'[w] = "next"

(* Once every call of an apply has been answered, and no two routes share  *)
(* a slug, the router holds exactly the groups of the routes the job read, *)
(* saved, whatever earlier applies were cut off, failed in part, or left   *)
(* behind, and whatever is edited meanwhile; the owner's groups are as     *)
(* they were.                                                              *)
GroupsExact ==
  [][\A w \in Workers :
       Applied(w) /\ clean[w] /\ SlugsDistinct(routes[w]) =>
         /\ groups'[router[w]] = WantedGroups(routes[w])
         /\ startup'[router[w]].groups = groups'[router[w]]]_vars

(* The groups routed into the tunnel are those of the enabled routes.      *)
(* This needs that nothing failed before: a group deleted by an apply that *)
(* was then cut off is never unbound.                                      *)
BoundExact ==
  [][\A w \in Workers :
       Applied(w) /\ faults = 0 /\ SlugsDistinct(routes[w])
         => bound'[router[w]] = WantedBound(routes[w])]_vars

(* The status a client polls says "completed" only while no job is at      *)
(* work, so a client that was answered "started" never takes the end of an *)
(* earlier job for that of its own.                                        *)
StatusHonest ==
  status = "completed" => \A w \in Workers : pc[w] \notin {"next", "call"}

(* However a job ends, and whichever answer cuts it short, the flag is     *)
(* released (v1.12.29), once the body of the request that took it has been *)
(* read: while a client keeps its body back nobody can apply routes.       *)
BodyAwaited  == \E w \in Workers : pc[w] = "body"
FlagReleased == dnsApplyRunning /\ ~BodyAwaited ~> ~dnsApplyRunning
=============================================================================
