---------------------------- MODULE DnsResolver ----------------------------
(***************************************************************************)
(* DnsResolver::resolve and query_udp, for lookups that run concurrently   *)
(* (one per connection, on every worker).  Each query_udp call binds a     *)
(* socket of its own to a port the kernel picks; datagrams may be lost,    *)
(* duplicated, reordered and late.  Every query has transaction id 1, and  *)
(* neither the id, the question nor the sender of a reply is looked at:    *)
(* what ties a reply to a lookup is the port it is sent to.                *)
(***************************************************************************)
EXTENDS Integers

CONSTANTS
    Lookups,      \* calls of resolve
    Names,        \* domains
    NameOf,       \* the domain a lookup asks for
    KindOf,       \* "literal": an IP address; "long": over 100 bytes; "name"
    DnsAddrs,     \* --dns values, see new
    Ports, NoPort,
    ReusePorts    \* may a late datagram meet a new socket on its old port?

ASSUME DnsAssumption ==
    /\ NameOf \in [Lookups -> Names]
    /\ KindOf \in [Names -> {"literal", "long", "name"}]
    /\ DnsAddrs \subseteq {"", "ip", "ip:port", "ipv6", "[ipv6]:port", "name",
                           "name:port"}
    /\ NoPort \notin Ports
    /\ ReusePorts \in BOOLEAN

MAX_ATTEMPTS == 2

VARIABLES
    dns_addr,
    stage,        \* "idle", "bind", "send", "recv", "system", "done"
    attempt,      \* sends tried by query_udp
    port,         \* port of the lookup's socket
    used,         \* ports that were ever bound
    queries,      \* datagrams on their way to the server
    replies,      \* datagrams on their way back
    result

vars == <<dns_addr, stage, attempt, port, used, queries, replies, result>>

Pending    == [status |-> "pending"]
NoAddress  == [status |-> "none"]
Address(n) == [status |-> "some", of |-> n]

(* DnsResolver::new: the default, and ":53" for what has no colon.  A bare *)
(* IPv6 address and a name stay what they are: no socket address.          *)
new(addr) == IF addr \in {"", "ip"} THEN "ip:port"
             ELSE IF addr = "name" THEN "name:port" ELSE addr

Parses(addr) == addr \in {"ip:port", "[ipv6]:port"}

Init ==
    /\ \E a \in DnsAddrs : dns_addr = new(a)
    /\ stage = [l \in Lookups |-> "idle"]
    /\ attempt = [l \in Lookups |-> 0]
    /\ port = [l \in Lookups |-> NoPort]
    /\ used = {} /\ queries = {} /\ replies = {}
    /\ result = [l \in Lookups |-> Pending]

Goto(l, s)   == stage' = [stage EXCEPT ![l] = s]

(* Mutant: an answer over UDP does not keep resolve from asking the system.*)
ReturnFallsThrough(l, r) ==
    /\ Goto(l, IF stage[l] = "recv" THEN "system" ELSE "done")
    /\ result' = [result EXCEPT ![l] = r]

Return(l, r) == Goto(l, "done") /\ result' = [result EXCEPT ![l] = r]

(* resolve, up to the call of query_udp: an address is returned as it is,  *)
(* a name build_dns_query cannot hold is given up.                         *)
Resolve(l) ==
    /\ stage[l] = "idle"
    /\ \/ KindOf[NameOf[l]] = "literal" /\ Return(l, Address(NameOf[l]))
       \/ KindOf[NameOf[l]] = "long" /\ Return(l, NoAddress)
       \/ KindOf[NameOf[l]] = "name" /\ Goto(l, "bind") /\ UNCHANGED result
    /\ UNCHANGED <<dns_addr, attempt, port, used, queries, replies>>

(* Kernel: a port no open socket holds.                                    *)
FreePorts == Ports \ (IF ReusePorts THEN {port[l] : l \in Lookups} ELSE used)

Bind(l) ==
    /\ stage[l] = "bind" /\ Parses(dns_addr)
    /\ \E p \in FreePorts :
         /\ port' = [port EXCEPT ![l] = p]
         /\ used' = used \cup {p}
    /\ Goto(l, "send")
    /\ UNCHANGED <<dns_addr, attempt, queries, replies, result>>

(* No socket, or dns_addr is no socket address.                            *)
BindFails(l) ==
    /\ stage[l] = "bind"
    /\ Goto(l, "system")
    /\ UNCHANGED <<dns_addr, attempt, port, used, queries, replies, result>>

(* Mutant: a query that could not be sent does not count as an attempt.    *)
SendFailsFree(l) ==
    /\ stage[l] = "send" /\ attempt[l] < MAX_ATTEMPTS
    /\ attempt' = [attempt EXCEPT ![l] = (@ + 1) % MAX_ATTEMPTS]
    /\ UNCHANGED <<dns_addr, stage, port, used, queries, replies, result>>

SendFails(l) ==
    /\ stage[l] = "send" /\ attempt[l] < MAX_ATTEMPTS
    /\ attempt' = [attempt EXCEPT ![l] = @ + 1]
    /\ UNCHANGED <<dns_addr, stage, port, used, queries, replies, result>>

(* Mutant: one query too many.                                             *)
SendThrice(l) ==
    /\ stage[l] = "send" /\ attempt[l] <= MAX_ATTEMPTS
    /\ dns_addr = "ip:port"
    /\ attempt' = [attempt EXCEPT ![l] = @ + 1]
    /\ queries' = queries \cup {[port |-> port[l], name |-> NameOf[l]]}
    /\ Goto(l, "recv")
    /\ UNCHANGED <<dns_addr, port, used, replies, result>>

(* The socket is bound to 0.0.0.0, so nothing can be sent to an IPv6 peer. *)
SendTo(l) ==
    /\ stage[l] = "send" /\ attempt[l] < MAX_ATTEMPTS
    /\ dns_addr = "ip:port"
    /\ attempt' = [attempt EXCEPT ![l] = @ + 1]
    /\ queries' = queries \cup {[port |-> port[l], name |-> NameOf[l]]}
    /\ Goto(l, "recv")
    /\ UNCHANGED <<dns_addr, port, used, replies, result>>

(* Mutant: a socket shared by all lookups takes any reply.                 *)
AnyReply(l) == replies

(* Datagrams the lookup's socket can receive.                              *)
Deliverable(l) == {r \in replies : r.port = port[l]}

(* parse_dns_response: a usable A record, or None and the next attempt.    *)
Receive(l) ==
    /\ stage[l] = "recv"
    /\ \E r \in Deliverable(l) :
         /\ replies' = replies \ {r}
         /\ \/ /\ r.usable /\ Return(l, Address(r.name))
               /\ port' = [port EXCEPT ![l] = NoPort]
            \/ ~r.usable /\ Goto(l, "send") /\ UNCHANGED <<port, result>>
    /\ UNCHANGED <<dns_addr, attempt, used, queries>>

(* 2.5 s passed, or recv_from failed.                                      *)
TimesOut(l) ==
    /\ stage[l] = "recv"
    /\ Goto(l, "send")
    /\ UNCHANGED <<dns_addr, attempt, port, used, queries, replies, result>>

(* query_udp returns None and drops its socket.                            *)
GivesUp(l) ==
    /\ stage[l] = "send" /\ attempt[l] = MAX_ATTEMPTS
    /\ Goto(l, "system")
    /\ port' = [port EXCEPT ![l] = NoPort]
    /\ UNCHANGED <<dns_addr, attempt, used, queries, replies, result>>

(* tokio::net::lookup_host: an address of the domain, or none.             *)
SystemLookup(l) ==
    /\ stage[l] = "system"
    /\ Return(l, Address(NameOf[l])) \/ Return(l, NoAddress)
    /\ UNCHANGED <<dns_addr, attempt, port, used, queries, replies>>

Task(l) ==
    \/ Resolve(l) \/ Bind(l) \/ BindFails(l) \/ SendFails(l) \/ SendTo(l)
    \/ Receive(l) \/ TimesOut(l) \/ GivesUp(l) \/ SystemLookup(l)

(* The network and the server: a query may be answered many times.         *)
ServerAnswers ==
    /\ \E q \in queries, usable \in BOOLEAN :
         replies' = replies \cup {[port |-> q.port, name |-> q.name, usable |-> usable]}
    /\ UNCHANGED <<dns_addr, stage, attempt, port, used, queries, result>>

Lost ==
    /\ \/ \E q \in queries : queries' = queries \ {q} /\ UNCHANGED replies
       \/ \E r \in replies : replies' = replies \ {r} /\ UNCHANGED queries
    /\ UNCHANGED <<dns_addr, stage, attempt, port, used, result>>

AllDone == \A l \in Lookups : stage[l] = "done"

Ended == AllDone /\ UNCHANGED vars

Next ==
    \/ \E l \in Lookups : Task(l)
    \/ ServerAnswers \/ Lost
    \/ Ended

(* The resolver's steps never wait for good: the wait for a reply has a    *)
(* timeout, and the system's lookup gives up by itself.                    *)
Spec == Init /\ [][Next]_vars /\ \A l \in Lookups : WF_vars(Task(l))

-----------------------------------------------------------------------------
(* Properties.                                                             *)

Query == [port : Ports, name : Names]
Reply == [port : Ports, name : Names, usable : BOOLEAN]
Results == {Pending, NoAddress} \cup {Address(n) : n \in Names}

(* Type invariant; attempt bounds the queries of one lookup to two.        *)
TypeOK ==
    /\ dns_addr \in {"ip:port", "ipv6", "[ipv6]:port", "name:port"}
    /\ stage \in [Lookups -> {"idle", "bind", "send", "recv", "system", "done"}]
    /\ attempt \in [Lookups -> 0 .. MAX_ATTEMPTS]
    /\ port \in [Lookups -> Ports \cup {NoPort}]
    /\ used \subseteq Ports
    /\ queries \subseteq Query /\ replies \subseteq Reply
    /\ result \in [Lookups -> Results]

(* A lookup that returns an address returns one of the domain it was asked *)
(* for, whatever other lookups, lost, late or repeated replies there were. *)
AnswerForName ==
    \A l \in Lookups : result[l].status = "some" => result[l].of = NameOf[l]

(* The resolver keeps the promise of Lookup.                               *)
L == INSTANCE Lookup WITH Lookups <- Lookups, NameOf <- NameOf, result <- result
KeepsPromise == L!Spec

(* Every lookup ends, also if no datagram ever arrives.                    *)
LookupEnds == \A l \in Lookups : stage[l] # "idle" ~> stage[l] = "done"

(* Why the answer is right: a datagram's port was bound by a lookup, and   *)
(* if a lookup holds that port now, the datagram carries its name.         *)
DatagramsMatch ==
    \A d \in queries \cup replies :
        /\ d.port \in used
        /\ \A l \in Lookups : port[l] = d.port => d.name = NameOf[l]

(* query_udp alone holds a socket, and two sockets never share a port.     *)
Sockets ==
    /\ \A l \in Lookups : port[l] # NoPort => stage[l] \in {"send", "recv"}
                                             /\ port[l] \in used
    /\ \A l \in Lookups : stage[l] \in {"send", "recv"} => port[l] # NoPort
    /\ \A l, m \in Lookups : port[l] = port[m] /\ port[l] # NoPort => l = m

ResultAtEnd == \A l \in Lookups : result[l] = Pending <=> stage[l] # "done"

IInv ==
    TypeOK /\ AnswerForName /\ DatagramsMatch /\ Sockets /\ ResultAtEnd
=============================================================================
