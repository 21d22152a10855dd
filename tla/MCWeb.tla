--------------------------------- MODULE MCWeb ---------------------------------
(* An instance of Web for TLC: a browser with a token of an earlier        *)
(* process, one peer, two routers.                                         *)
EXTENDS Web, TLC

MCLeft == {[auth |-> NoFile, secret |-> NoFile, tokens |-> {}],
           [auth |-> "two", secret |-> "s1", tokens |-> {[pw |-> "two", secret |-> "s1", expiry |-> 2]}]}
Symmetry == Permutations(Workers)
MCDomain == [p \in Peers |-> CHOOSE d \in Domains : TRUE]
=============================================================================
