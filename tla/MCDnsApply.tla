------------------------------ MODULE MCDnsApply ------------------------------
(* Instances of DnsApply for TLC: two routes that trade slugs, chunks and  *)
(* the enabled flag, on routers that also hold a group of their owner.     *)
EXTENDS DnsApply

MCRoute(i, s, n, on) == [id |-> i, slug |-> s, n |-> n, on |-> on]

MCInitRoutes == <<MCRoute(1, "a", 2, TRUE)>>
MCImports == {<<MCRoute(1, "b", 1, TRUE), MCRoute(2, "a", 1, FALSE)>>}
=============================================================================
