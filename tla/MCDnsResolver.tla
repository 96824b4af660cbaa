--------------------------- MODULE MCDnsResolver ---------------------------
(* Values for the constants of DnsResolver.                                *)
EXTENDS DnsResolver, TLC

CONSTANTS l1, l2, l3, l4, a, b, addr, big

MCKindOf == [n \in Names |-> CASE n = addr -> "literal"
                              [] n = big  -> "long"
                              [] OTHER    -> "name"]

(* Lookups of two domains beside two that need no query.                   *)
AllKinds == l1 :> a @@ l2 :> b @@ l3 :> addr @@ l4 :> big
TwoDomains == l1 :> a @@ l2 :> b
=============================================================================
