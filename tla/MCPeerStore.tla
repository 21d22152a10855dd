----------------------------- MODULE MCPeerStore -----------------------------
(* Instances of PeerStore for TLC: a /29 with five free hosts, and a /30   *)
(* with one, so that a change of subnet can run out of addresses.          *)
EXTENDS PeerStore, TLC

CONSTANTS i1, i2, i3, n1, n2

LargeSubnet == [base |-> 0, size |-> 8]
SmallSubnet == [base |-> 8, size |-> 4]
MCSubnets == {LargeSubnet, SmallSubnet}

MCPeer(a, n) == [ip |-> a, name |-> n, ifn |-> NoIf]

MCInitLists == {EmptyList, i1 :> MCPeer(2, n1), (i1 :> MCPeer(2, n1)) @@ (i2 :> MCPeer(3, n2))}
MCInitTwo == {(i1 :> MCPeer(2, n1)) @@ (i2 :> MCPeer(3, n2))}

WorkerSymmetry == Permutations(Workers)
=============================================================================
