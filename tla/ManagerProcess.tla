---------------------------- MODULE ManagerProcess ----------------------------
(***************************************************************************)
(* The process of the server as its requests see it: workers, a clock,     *)
(* main() on its way up, and a death that takes the memory and leaves the  *)
(* files.  Modules that extend this one add what the process keeps.        *)
(***************************************************************************)
EXTENDS Naturals, Functions

CONSTANTS
  Workers,
  MaxTime,        \* bound: the clock
  MaxRequests,    \* bound: requests in one behaviour
  MaxFaults       \* bound: crashes and failed writes

VARIABLES now, boot, pc, reqs, faults

process == <<now, boot, pc, reqs, faults>>

ASSUME ProcessBounds == {MaxTime, MaxRequests, MaxFaults} \subseteq Nat

InitProcess ==
  /\ now = 0
  /\ boot = "auth"
  /\ pc = [w \in Workers |-> "idle"]
  /\ reqs = 0 /\ faults = 0

At(w, label)   == boot = "up" /\ pc[w] = label
Goto(w, label) == pc' = [pc EXCEPT ![w] = label]
Fault == faults < MaxFaults /\ faults' = faults + 1

(* A request comes. *)
Begin(w, label) ==
  /\ At(w, "idle") /\ reqs < MaxRequests
  /\ reqs' = reqs + 1
  /\ Goto(w, label)
  /\ UNCHANGED <<now, boot, faults>>

Step(w, from, to) ==
  /\ At(w, from)
  /\ Goto(w, to)
  /\ UNCHANGED <<now, boot, reqs, faults>>

(* main() goes on to its next part. *)
Boot(from, to) ==
  /\ boot = from
  /\ boot' = to
  /\ UNCHANGED <<now, pc, reqs, faults>>

(* systemd starts the process again. *)
Die ==
  /\ Fault
  /\ boot' = "auth"
  /\ pc' = [w \in Workers |-> "idle"]
  /\ UNCHANGED <<now, reqs>>

Pass ==
  /\ now < MaxTime
  /\ now' = now + 1
  /\ UNCHANGED <<boot, pc, reqs, faults>>
=============================================================================
