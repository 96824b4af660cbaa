---------------------------- MODULE MCConnection ----------------------------
(* Values for the constants of Connection.                                 *)
EXTENDS Connection

Host(class, meta, www, dot) ==
    [class |-> class, meta |-> meta, www |-> www, dot |-> dot]

Plain    == Host("domain", FALSE, FALSE, FALSE)
WwwHost  == Host("domain", FALSE, TRUE, FALSE)
MetaHost == Host("domain", TRUE, FALSE, FALSE)

(* ClientHello whose record announces payload bytes, with a host name.     *)
Hello(payload, offset, length) ==
    [hello |-> TRUE, payload_len |-> payload, sni |-> TRUE,
     hostname_offset |-> offset, hostname_length |-> length]
NoSni(payload) ==
    [hello |-> TRUE, payload_len |-> payload, sni |-> FALSE,
     hostname_offset |-> 0, hostname_length |-> 0]
NotTls == [NoSni(0) EXCEPT !.hello = FALSE]

HeadEnd == 60      \* CONNECT line and a Host header

(* Requests sent in one segment, the tunnel data in segments that end at   *)
(* the given offsets after it.                                             *)
Connect(target, flight, ends) ==
    [method |-> "CONNECT", target |-> target, method_end |-> 7, line_end |-> 32,
     head_end |-> HeadEnd, cuts |-> {HeadEnd} \cup {HeadEnd + e : e \in ends},
     pipelines |-> FALSE, flight |-> flight]

AllConfigs == [trailing_dot : BOOLEAN, fake : BOOLEAN]
DefaultConfig == {[trailing_dot |-> TRUE, fake |-> FALSE]}

(* Every kind of target, resolution and refusal; one ClientHello.          *)
LookupRequests ==
    {Connect(t, Hello(200, 127, 11), {205}) : t \in Target}
    \cup {[Connect(Plain, NotTls, {}) EXCEPT !.method = m, !.cuts = {3, 60}]
            : m \in {"PLAIN", "OTHER"}}

(* The client sends tunnel data with its request or behind a part of it.   *)
PipelinedRequests ==
    {[Connect(Plain, f, {100, 205, 300}) EXCEPT
        !.cuts = @ \cup {20, 45}, !.pipelines = TRUE] :
        f \in {Hello(200, 127, 11), NoSni(200)}}

(* Every shape of first flight: the record whole, cut before and after the *)
(* name, with trailing data, without or with a short name, not TLS, more   *)
(* than one buffer; read boundaries at 6 bytes and around the record's end.*)
FlightRequests ==
    {Connect(h, f, ends) :
        h \in {Plain, WwwHost, MetaHost},
        f \in {Hello(200, 127, 11), Hello(200, 127, 7), Hello(200, 127, 4),
               Hello(5000, 127, 11), NoSni(200), NotTls},
        ends \in {{5, 6, 137, 138, 205}, {204, 206, 300}, {4097, 5005, 9000}}}
    \cup PipelinedRequests

(* Requests whose segments end anywhere: inside the method, inside the     *)
(* request line, inside the header, or after some tunnel data.             *)
SegmentedRequests ==
    {[Connect(Plain, Hello(200, 127, 11), {205, 300}) EXCEPT
        !.cuts = @ \cup {4, 20, 45}, !.pipelines = p] : p \in BOOLEAN}

AllRequests == LookupRequests \cup SegmentedRequests

MetaRequests == {Connect(MetaHost, Hello(200, 127, 13), {205})}
NoSniRequests == {Connect(Plain, NoSni(200), {205, 300, 400})}
ShortRequests == {Connect(Plain, Hello(200, 127, 11), {138, 205})}
=============================================================================
