---------------------------- MODULE KeeneticRouter ----------------------------
(***************************************************************************)
(* A Keenetic router as the server drives it (src/router.go): a running    *)
(* configuration the RCI calls change, the startup configuration a save    *)
(* copies it to and a reboot returns to, and the firmware components.      *)
(* Every request or background job that speaks to the router is a worker   *)
(* with a session of its own; the modules that extend this one give the    *)
(* workers their programs.  What the router does with a call is external.  *)
(***************************************************************************)
EXTENDS Naturals, Sequences, Functions

CONSTANTS
  Workers,
  IfNames,        \* names the router gives to tunnels it creates
  Owner,          \* interfaces of the router's owner: name -> settings
  OwnerDns,       \* upstreams of the owner
  Targets,        \* the components the server needs
  NoIf,
  MaxRequests,    \* bound: requests in one behaviour,
  MaxBurst,       \*   of which only the first so many overlap with others
  MaxFaults       \* bound: failed calls, unplanned reboots, crashes, torn reads

VARIABLES
  running, startup,   \* [ifs, dns, routes]
  comps,              \* installed components
  staged,             \* components to install at the reboot that was asked for
  sessions,           \* workers the router has a session with
  pc, clean,          \* per worker; clean: none of its calls has failed
  reqs, faults

router  == <<running, startup, comps, staged>>
control == <<pc, clean, reqs, faults>>

ASSUME RouterBounds == MaxRequests \in Nat /\ MaxBurst \in Nat /\ MaxFaults \in Nat
ASSUME RouterNames  == DOMAIN Owner \cap IfNames = {} /\ NoIf \notin DOMAIN Owner \cup IfNames

InitRouter ==
  /\ running = [ifs |-> Owner, dns |-> OwnerDns, routes |-> FALSE]
  /\ startup = running
  /\ comps = {} /\ staged = {}
  /\ sessions = {}
  /\ pc = [w \in Workers |-> "idle"]
  /\ clean = [w \in Workers |-> TRUE]
  /\ reqs = 0 /\ faults = 0

At(w, label)   == pc[w] = label
Goto(w, label) == pc' = [pc EXCEPT ![w] = label]
Fault == faults < MaxFaults /\ faults' = faults + 1
(* The client of a request goes with it. *)
Leaves(w, label) == sessions' = IF label = "idle" THEN sessions \ {w} ELSE sessions

Comes(w) ==
  /\ At(w, "idle") /\ reqs < MaxRequests
  /\ reqs < MaxBurst \/ \A v \in Workers : At(v, "idle")
  /\ reqs' = reqs + 1

(* A request comes: a fresh client, with an empty cookie jar. *)
Begin(w, label) ==
  /\ Comes(w)
  /\ Goto(w, label)
  /\ clean' = [clean EXCEPT ![w] = TRUE]
  /\ UNCHANGED <<router, sessions, faults>>

(* The worker goes on without a call to the router. *)
Local(w, label) ==
  /\ Goto(w, label)
  /\ Leaves(w, label)
  /\ UNCHANGED <<router, clean, reqs, faults>>

(* Something of the server's own fails, and the worker goes on. *)
LocalFailed(w, label) ==
  /\ Fault
  /\ Goto(w, label)
  /\ clean' = [clean EXCEPT ![w] = FALSE]
  /\ UNCHANGED <<router, sessions, reqs>>

-----------------------------------------------------------------------------
(* keeneticSetupClient: the challenge and the login, over http and then    *)
(* over https; it fails when both do.                                      *)

LoggedIn(w, label) ==
  /\ sessions' = sessions \cup {w}
  /\ Goto(w, label)
  /\ UNCHANGED <<router, clean, reqs, faults>>

LoginFailed(w, label) ==
  /\ Fault
  /\ Goto(w, label)
  /\ clean' = [clean EXCEPT ![w] = FALSE]
  /\ sessions' = sessions \ {w}
  /\ UNCHANGED <<router, reqs>>

(* keeneticRciPost: a call that makes the running configuration new is     *)
(* answered 200, done or refused in a body that the callers do not read;   *)
(* or it is refused or not delivered; or done and its answer lost.  A      *)
(* reboot ends the sessions, so that every later call is refused.          *)

Answered(w, new, label) ==
  /\ w \in sessions
  /\ running' = new
  /\ Goto(w, label)
  /\ Leaves(w, label)
  /\ UNCHANGED <<startup, comps, staged, clean, reqs, faults>>

Read(w, label) == Answered(w, running, label)

Ignored(w, label) ==
  /\ w \in sessions /\ Fault
  /\ Goto(w, label)
  /\ Leaves(w, label)
  /\ clean' = [clean EXCEPT ![w] = FALSE]
  /\ UNCHANGED <<router, reqs>>

Done(w, new, label) == Answered(w, new, label) \/ Ignored(w, label)

Failed(w, new, label) ==
  /\ \/ w \in sessions /\ Fault /\ running' \in {running, new}
     \/ w \notin sessions /\ UNCHANGED <<running, faults>>
  /\ Goto(w, label)
  /\ clean' = [clean EXCEPT ![w] = FALSE]
  /\ Leaves(w, label)
  /\ UNCHANGED <<startup, comps, staged, reqs>>

(* keeneticSave: the running configuration becomes the startup one.        *)

Saved(w, label) ==
  \/ /\ w \in sessions
     /\ startup' = running
     /\ Goto(w, label)
     /\ Leaves(w, label)
     /\ UNCHANGED <<running, comps, staged, clean, reqs, faults>>
  \/ Ignored(w, label)

SaveFailed(w, label) ==
  /\ \/ w \in sessions /\ Fault /\ startup' \in {startup, running}
     \/ w \notin sessions /\ UNCHANGED <<startup, faults>>
  /\ Goto(w, label)
  /\ clean' = [clean EXCEPT ![w] = FALSE]
  /\ Leaves(w, label)
  /\ UNCHANGED <<running, comps, staged, reqs>>

-----------------------------------------------------------------------------
(* The reboot a commit of components asks for; the router may fail to      *)
(* install some of what was staged.                                        *)
InstallReboot ==
  /\ staged # {}
  /\ \E got \in SUBSET staged : comps' = comps \cup got
  /\ staged' = {}
  /\ running' = startup
  /\ sessions' = {}
  /\ UNCHANGED <<startup, control>>

(* A power cut, or the owner. *)
PowerReboot ==
  /\ Fault
  /\ running' = startup
  /\ sessions' = {}
  /\ UNCHANGED <<startup, comps, staged, pc, clean, reqs>>

(* The process ends: the workers with it; the router keeps what it has. *)
EndProcess ==
  /\ pc' = [w \in Workers |-> "idle"]
  /\ clean' = [w \in Workers |-> TRUE]
  /\ sessions' = {}
  /\ UNCHANGED <<router, reqs>>
=============================================================================
