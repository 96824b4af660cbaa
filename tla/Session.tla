------------------------------ MODULE Session -------------------------------
(***************************************************************************)
(* What the proxy promises about one connection, whatever the request, the *)
(* evasion and the peers do: it is looked up, dialled and answered in that *)
(* order, a client that stays is answered exactly once, with an error only *)
(* if no tunnel was opened, and tunnel data only moves forward, behind the *)
(* decoy probe if there is one.                                            *)
(***************************************************************************)
EXTENDS Integers, Sequences

CONSTANT Up      \* positions in the client's stream

VARIABLES
    phase,       \* see Phases
    client,      \* the client has not closed or reset its side
    answer,      \* status lines written to the client
    up, down     \* how much of either stream was passed on

vars == <<phase, client, answer, up, down>>

Phases   == {"request", "lookup", "dial", "tunnel", "probe", "closed"}
Refusals == {301, 400, 403, 404}

(* Phases the proxy leaves by itself, without a word from either peer.     *)
Busy == {"lookup", "dial", "probe"}

Init ==
    /\ phase = "request" /\ client = TRUE /\ answer = << >>
    /\ up = 0 /\ down = 0

ClientLeaves ==
    /\ client /\ ~client'
    /\ UNCHANGED <<phase, answer, up, down>>

Move(from, to) ==
    /\ phase = from /\ phase' = to
    /\ UNCHANGED <<client, answer, up, down>>

(* The last word to the client: an error or a redirect, and the end.       *)
Refuse(from, statuses) ==
    /\ phase = from /\ phase' = "closed"
    /\ \E s \in statuses : answer' = Append(answer, s)
    /\ UNCHANGED <<client, up, down>>

Established ==
    /\ phase = "dial" /\ phase' = "tunnel"
    /\ answer' = <<200>>
    /\ UNCHANGED <<client, up, down>>

(* The probe precedes every byte of the tunnel.                            *)
Probe == up = 0 /\ down = 0 /\ Move("tunnel", "probe")

Relay ==
    /\ phase = "tunnel"
    /\ up' \in Up /\ up' >= up
    /\ down' \in Nat /\ down' >= down
    /\ UNCHANGED <<phase, client, answer>>

(* Without a word only to a client that left, or after a tunnel.           *)
Drop ==
    /\ phase # "closed" /\ phase # "probe"
    /\ phase # "tunnel" => ~client
    /\ Move(phase, "closed")

Next ==
    \/ ClientLeaves
    \/ Refuse("request", Refusals) \/ Move("request", "lookup")
    \/ Refuse("lookup", {403, 502}) \/ Move("lookup", "dial")
    \/ Refuse("dial", {502}) \/ Established
    \/ Probe \/ Move("probe", "tunnel") \/ Relay \/ Drop

SafeSpec == Init /\ [][Next]_vars

(* No lookup, dial or probe keeps a connection for good.                   *)
NeverStuck == \A p \in Busy : (phase = p) ~> (phase # p)

Spec == SafeSpec /\ NeverStuck
=============================================================================
