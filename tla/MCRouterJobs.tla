----------------------------- MODULE MCRouterJobs -----------------------------
(* Instances of RouterJobs for TLC: two peers on a router whose owner has  *)
(* an interface without a description and one with the key of a peer; the  *)
(* names of the peers differ, or share a slug, or one peer is elsewhere    *)
(* and records a name which the owner here uses.                           *)
EXTENDS RouterJobs, TLC

MCOwner == [Home |-> [desc |-> "", key |-> NoIf, has |-> {}],
            Own  |-> [desc |-> "mine", key |-> CHOOSE p \in Peers : TRUE, has |-> {"ip"}]]
MCSlug == [a |-> "a", b |-> "b", A |-> "a"]

AtFirst(name, f, h) == [name |-> name, ifn |-> f, vpn |-> FALSE, here |-> h]
Pair(x, y) == [p \in Peers |-> IF p = CHOOSE q \in Peers : TRUE THEN x ELSE y]
WorkerSymmetry == Permutations(Workers)

MCInitRegistries == {Pair(AtFirst("a", NoIf, TRUE), AtFirst("b", NoIf, TRUE))}

MCMixedRegistries ==
  {Pair(AtFirst("a", NoIf, TRUE), AtFirst("A", NoIf, TRUE)),
   Pair(AtFirst("a", NoIf, TRUE), AtFirst("b", "Home", FALSE))}
=============================================================================
