------------------------------- MODULE Lookup -------------------------------
(***************************************************************************)
(* What DnsResolver::resolve promises its callers: each lookup is answered *)
(* once, with an address of the domain that was asked for, or with None.   *)
(***************************************************************************)
CONSTANTS Lookups, NameOf

VARIABLE result

Pending    == [status |-> "pending"]
NoAddress  == [status |-> "none"]
Address(n) == [status |-> "some", of |-> n]

Init == result = [l \in Lookups |-> Pending]

Return(l) ==
    /\ result[l] = Pending
    /\ \E r \in {NoAddress, Address(NameOf[l])} :
           result' = [result EXCEPT ![l] = r]

Next == \E l \in Lookups : Return(l)

Spec == Init /\ [][Next]_result
=============================================================================
