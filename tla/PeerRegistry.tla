---------------------------- MODULE PeerRegistry ----------------------------
(***************************************************************************)
(* What the peer store promises: a registry of peers that changes by one   *)
(* whole edit at a time.  An edit adds one peer with a free address, drops *)
(* one, changes the other fields of one, renumbers all, or puts back the   *)
(* registry as it was when it was last looked at.  The store may also be   *)
(* lost as a whole (a crash while the file is being replaced), but never   *)
(* in part.                                                                *)
(***************************************************************************)
CONSTANTS Ids, Peer     \* Peer: records with an address ip

VARIABLES reg, seen

Distinct(r) == \A i, j \in DOMAIN r : r[i].ip = r[j].ip => i = j

Init == Distinct(reg) /\ seen = reg

Add ==
  /\ \E i \in Ids \ DOMAIN reg :
       /\ DOMAIN reg' = DOMAIN reg \cup {i}
       /\ reg'[i] \in Peer
  /\ \A j \in DOMAIN reg : reg'[j] = reg[j]
  /\ Distinct(reg')
  /\ UNCHANGED seen

Remove ==
  /\ \E i \in DOMAIN reg : reg' = [j \in DOMAIN reg \ {i} |-> reg[j]]
  /\ UNCHANGED seen

Edit ==
  /\ DOMAIN reg' = DOMAIN reg
  /\ \E i \in DOMAIN reg :
       /\ reg'[i] \in Peer /\ reg'[i].ip = reg[i].ip
       /\ \A j \in DOMAIN reg \ {i} : reg'[j] = reg[j]
  /\ UNCHANGED seen

Renumber ==
  /\ DOMAIN reg' = DOMAIN reg
  /\ \A i \in DOMAIN reg : reg'[i] \in Peer /\ reg[i] = [reg'[i] EXCEPT !.ip = reg[i].ip]
  /\ Distinct(reg')
  /\ UNCHANGED seen

Look == seen' = reg /\ UNCHANGED reg

PutBack == reg' = seen /\ UNCHANGED seen

Lose == reg' = [i \in {} |-> i] /\ UNCHANGED seen

Next == Add \/ Remove \/ Edit \/ Renumber \/ Look \/ PutBack \/ Lose

Spec == Init /\ [][Next]_<<reg, seen>>
=============================================================================
