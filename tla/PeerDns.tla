-------------------------------- MODULE PeerDns --------------------------------
(***************************************************************************)
(* The two handlers that change the name resolution of a peer's router     *)
(* while the browser waits: configurePeerDns, with                         *)
(* keeneticSetupSecureDns (src/router_dns.go), and configurePeerDnsRoutes  *)
(* (src/dns_routing.go).                                                   *)
(***************************************************************************)
EXTENDS KeeneticRouter

CONSTANTS Upstreams,    \* addresses of dnsServers
          NoAnswer

VARIABLES
  todel,          \* per worker: addressesToDelete still to delete
  enabled,        \* per worker: what the request asks for
  (* history *)
  dnsAlone,       \* workers whose request no other of this module met
  answered        \* what the last request promised: upstreams, dns-routes

dnsLocals == <<todel, enabled>>
dnsVars   == <<dnsLocals, dnsAlone, answered>>

InitDns ==
  /\ todel = [w \in Workers |-> {}]
  /\ enabled = [w \in Workers |-> FALSE]
  /\ dnsAlone = {}
  /\ answered = [dns |-> NoAnswer, routes |-> NoAnswer]

Labels == {"d.login", "d.delete", "d.add", "d.save", "r.login", "r.set", "r.save"}
DnsBusy(w) == pc[w] \in Labels

DnsMeets(w) ==
  /\ dnsAlone' = IF \E v \in Workers \ {w} : DnsBusy(v) THEN {} ELSE {w}
  /\ answered' = [dns |-> NoAnswer, routes |-> NoAnswer]

Forget(w) ==
  /\ todel' = [todel EXCEPT ![w] = {}]
  /\ enabled' = [enabled EXCEPT ![w] = FALSE]
  /\ dnsAlone' = dnsAlone \ {w}

(* An error answer. *)
Refuse(w) == Forget(w) /\ UNCHANGED answered

-----------------------------------------------------------------------------
(* configurePeerDns. *)

AddressesToDelete == Upstreams

DnsBegin(w) ==
  /\ Begin(w, "d.login")
  /\ todel' = [todel EXCEPT ![w] = AddressesToDelete]
  /\ DnsMeets(w)
  /\ UNCHANGED enabled

DnsLogin(w) ==
  /\ At(w, "d.login")
  /\ \/ LoggedIn(w, "d.delete") /\ UNCHANGED dnsVars
     \/ LoginFailed(w, "idle") /\ Refuse(w)

(* Every address is deleted, in the order of a Go map, before all upstreams *)
(* are added; at a failure the rest is skipped, and the router still saves. *)
DeleteUpstream(w) ==
  /\ At(w, "d.delete")
  /\ \E a \in todel[w] :
       LET new  == [running EXCEPT !.dns = @ \ {a}]
           rest == todel[w] \ {a}
       IN  \/ Done(w, new, IF rest = {} THEN "d.add" ELSE "d.delete")
              /\ todel' = [todel EXCEPT ![w] = rest]
           \/ Failed(w, new, "d.save") /\ todel' = [todel EXCEPT ![w] = {}]
  /\ UNCHANGED <<enabled, dnsAlone, answered>>

(* Mutant: only the addresses it found to delete are added. *)
AddUpstreamsShort(w) ==
  /\ At(w, "d.add")
  /\ \E a \in Upstreams : Done(w, [running EXCEPT !.dns = @ \cup {a}], "d.save")
  /\ UNCHANGED dnsVars

AddUpstreams(w) ==
  /\ At(w, "d.add")
  /\ LET new == [running EXCEPT !.dns = @ \cup Upstreams]
     IN  Done(w, new, "d.save") \/ Failed(w, new, "d.save")
  /\ UNCHANGED dnsVars

DnsSave(w) ==
  /\ At(w, "d.save")
  /\ Saved(w, "idle") \/ SaveFailed(w, "idle")
  /\ answered' = IF clean'[w] /\ w \in dnsAlone THEN [answered EXCEPT !.dns = Upstreams] ELSE answered
  /\ Forget(w)

-----------------------------------------------------------------------------
(* configurePeerDnsRoutes: each step that fails ends it. *)

RoutesBegin(w) ==
  /\ Begin(w, "r.login")
  /\ \E b \in BOOLEAN : enabled' = [enabled EXCEPT ![w] = b]
  /\ DnsMeets(w)
  /\ UNCHANGED todel

RoutesLogin(w) ==
  /\ At(w, "r.login")
  /\ \/ LoggedIn(w, "r.set") /\ UNCHANGED dnsVars
     \/ LoginFailed(w, "idle") /\ Refuse(w)

RoutesSet(w) ==
  /\ At(w, "r.set")
  /\ LET new == [running EXCEPT !.routes = enabled[w]]
     IN  \/ Done(w, new, "r.save") /\ UNCHANGED dnsVars
         \/ Failed(w, new, "idle") /\ Refuse(w)

RoutesSave(w) ==
  /\ At(w, "r.save")
  /\ \/ /\ Saved(w, "idle")
        /\ answered' = IF clean'[w] /\ w \in dnsAlone
                       THEN [answered EXCEPT !.routes = enabled[w]] ELSE answered
        /\ Forget(w)
     \/ SaveFailed(w, "idle") /\ Refuse(w)

DnsStep(w) ==
  \/ DnsBegin(w) \/ DnsLogin(w) \/ DeleteUpstream(w) \/ AddUpstreams(w) \/ DnsSave(w)
  \/ RoutesBegin(w) \/ RoutesLogin(w) \/ RoutesSet(w) \/ RoutesSave(w)

DnsCut ==
  /\ todel' = [w \in Workers |-> {}]
  /\ enabled' = [w \in Workers |-> FALSE]
  /\ dnsAlone' = {}
  /\ UNCHANGED answered
=============================================================================
