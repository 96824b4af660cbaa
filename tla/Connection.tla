----------------------------- MODULE Connection -----------------------------
(***************************************************************************)
(* One client connection, from accept to the end of its task: handle_client*)
(* and everything it calls in proxy.rs.  The client, the network and the   *)
(* remote server are the environment.                                      *)
(*                                                                         *)
(* The client's uplink is one byte stream: offsets [0, head_end) are the   *)
(* request, the rest is tunnel data.  upSent is how much has arrived in the*)
(* proxy's socket, upRead how much the task has read.                      *)
(***************************************************************************)
EXTENDS TlsSplit

CONSTANTS
    Requests,     \* what clients may ask for, see Request
    Configs,      \* command-line settings, see Config
    ChunkSizes,   \* sizes split_and_write may draw, 80..256 in the code
    MaxDown       \* bound: units of data a remote sends

CLIENT_BUF_SIZE       == 2048
CLIENT_HELLO_BUF_SIZE == 4096

(* A CONNECT target as far as the code tells targets apart; class "none":  *)
(* no target could be parsed.  dot: the name ends with a dot, or is empty. *)
Target ==
    {t \in [class : {"none", "domain", "literal", "loopback"},
            meta : BOOLEAN, www : BOOLEAN, dot : BOOLEAN] :
        /\ t.class # "domain" => ~t.meta /\ ~t.www
        /\ t.class = "none" => ~t.dot}

NoTarget == [class |-> "none", meta |-> FALSE, www |-> FALSE, dot |-> FALSE]

(* cuts: the offsets at which a TCP segment of the uplink may end.         *)
(* pipelines: the client sends tunnel data before it has seen the 200.     *)
Request == [method : {"CONNECT", "PLAIN", "OTHER"}, target : Target,
            method_end : Nat, line_end : Nat, head_end : Nat,
            cuts : SUBSET Nat, pipelines : BOOLEAN, flight : Flight]

(* fake: fake_ttl > 0 and a non-empty fake_sni.                            *)
Config == [trailing_dot : BOOLEAN, fake : BOOLEAN]

ASSUME ConnectionAssumption ==
    /\ Requests \subseteq Request
    /\ Configs \subseteq Config
    /\ ChunkSizes \subseteq Nat \ {0}
    /\ ChunkSizes # {}
    /\ MaxDown \in Nat
    /\ \A r \in Requests :
           /\ r.flight.sni => r.flight.hostname_offset > TLS_RECORD_HEADER_SIZE
           /\ r.flight.hello => r.flight.payload_len > 0

VARIABLES
    cfg, req,          \* chosen once
    stage,             \* where the task stands
    host, ip,          \* target after ensure_trailing_dot; class of remote_ip
    resp,              \* status lines written to the client
    upSent, upRead,    \* uplink arrived / read
    cstate,            \* client's sending half: open, fin, reset
    rstate,            \* remote: none, open, fin, reset
    buf,               \* interval of the uplink in client_hello_buf
    done,              \* bytes of raw_ch already written by split_and_write
    split,             \* cut chosen for the TLS record, 0 if none
    wire,              \* what was written to the remote
    probe, delayed,    \* fake probe outcome; inter-record pause taken
    downSent, downFwd, \* downlink sent by the remote / written to the client
    upDone, downDone   \* directions copy_bidirectional has shut down

inputs  == <<cfg, req>>
client  == <<upSent, cstate>>
remote  == <<rstate, downSent>>
lookup  == <<host, ip>>
evasion == <<buf, done, split, probe, delayed>>
tunnel  == <<downFwd, upDone, downDone>>
vars    == <<inputs, stage, lookup, resp, client, upRead, remote, evasion,
             wire, tunnel>>

Stages == {"accepted", "resolve", "system", "dial", "connected", "hello",
           "probe", "send", "fallback", "delay", "record2", "tunnel",
           "done", "failed"}
Over   == stage \in {"done", "failed"}

Init ==
    /\ cfg \in Configs
    /\ req \in Requests
    /\ stage = "accepted"
    /\ host = NoTarget /\ ip = "none" /\ resp = << >>
    /\ upSent = 0 /\ upRead = 0 /\ cstate = "open"
    /\ rstate = "none" /\ downSent = 0 /\ downFwd = 0
    /\ buf = [from |-> 0, to |-> 0] /\ done = 0 /\ split = 0
    /\ wire = << >> /\ probe = "no" /\ delayed = FALSE
    /\ upDone = FALSE /\ downDone = FALSE

-----------------------------------------------------------------------------
(* Environment.                                                            *)

ClientSends ==
    /\ cstate = "open"
    /\ \E c \in req.cuts :
           /\ c > upSent
           /\ c <= req.head_end \/ req.pipelines \/ resp = <<200>>
           /\ upSent' = c
    /\ UNCHANGED <<inputs, stage, lookup, resp, cstate, upRead, remote,
                   evasion, wire, tunnel>>

ClientHalfCloses ==
    /\ cstate = "open"
    /\ cstate' = "fin"
    /\ UNCHANGED <<inputs, stage, lookup, resp, upSent, upRead, remote,
                   evasion, wire, tunnel>>

ClientResets ==
    /\ cstate # "reset"
    /\ cstate' = "reset"
    /\ UNCHANGED <<inputs, stage, lookup, resp, upSent, upRead, remote,
                   evasion, wire, tunnel>>

RemoteSends ==
    /\ rstate = "open" /\ downSent < MaxDown
    /\ downSent' = downSent + 1
    /\ UNCHANGED <<inputs, stage, lookup, resp, client, upRead, rstate,
                   evasion, wire, tunnel>>

RemoteHalfCloses ==
    /\ rstate = "open"
    /\ rstate' = "fin"
    /\ UNCHANGED <<inputs, stage, lookup, resp, client, upRead, downSent,
                   evasion, wire, tunnel>>

RemoteResets ==
    /\ rstate \in {"open", "fin"}
    /\ rstate' = "reset"
    /\ UNCHANGED <<inputs, stage, lookup, resp, client, upRead, downSent,
                   evasion, wire, tunnel>>

Environment ==
    /\ ~Over
    /\ \/ ClientSends \/ ClientHalfCloses \/ ClientResets
       \/ RemoteSends \/ RemoteHalfCloses \/ RemoteResets

-----------------------------------------------------------------------------
(* handle_client: one read, then dispatch on what that read returned.      *)

FirstRead == Smaller(upSent, CLIENT_BUF_SIZE)

(* Mutant: a request read only in part is waited for.                      *)
SeenWhenComplete(n) ==
    IF n < req.line_end THEN {} ELSE {[method |-> req.method, target |-> req.target]}

(* What is_http_connect, the "GET "/"POST " tests and parse_connect_target *)
(* make of the first n bytes.  A buffer that ends inside the request line  *)
(* can yield any target, or none.                                          *)
Seen(n) ==
    IF n < req.method_end THEN {[method |-> "OTHER", target |-> NoTarget]}
    ELSE IF req.method = "CONNECT" /\ n < req.line_end
    THEN [method : {"CONNECT"}, target : Target]
    ELSE {[method |-> req.method, target |-> req.target]}

(* Mutant: a failed dial or lookup returns without a response.             *)
AnswerOnlyRefusals(status) ==
    /\ stage' = "done"
    /\ resp' = IF status = 502 THEN resp ELSE Append(resp, status)

(* Answering is a write_all to the client followed by a return; a task that*)
(* returns drops both sockets.                                             *)
Answer(status) ==
    \/ cstate # "reset" /\ resp' = Append(resp, status) /\ stage' = "done"
    \/ cstate = "reset" /\ stage' = "failed" /\ UNCHANGED resp

ReadsRequest ==
    /\ stage = "accepted" /\ cstate # "reset" /\ upSent > 0
    /\ upRead' = FirstRead
    /\ UNCHANGED <<inputs, client, ip, remote, evasion, wire, tunnel>>

ActiveProbeDefense ==
    /\ ReadsRequest
    /\ \E s \in Seen(FirstRead) : s.method = "OTHER"
    /\ Answer(404)
    /\ UNCHANGED host

PlaintextRedirect ==
    /\ ReadsRequest
    /\ \E s \in Seen(FirstRead) : s.method = "PLAIN"
    /\ Answer(301)
    /\ UNCHANGED host

ensure_trailing_dot(t) ==
    IF t.class = "literal" \/ t.dot THEN t ELSE [t EXCEPT !.dot = TRUE]

(* handle_connect_tunnel up to the resolver call.                          *)
ConnectRequest ==
    /\ ReadsRequest
    /\ \E s \in Seen(FirstRead) :
         /\ s.method = "CONNECT"
         /\ \/ s.target.class = "none" /\ Answer(400) /\ UNCHANGED host
            \/ s.target.class = "loopback" /\ Answer(403) /\ UNCHANGED host
            \/ /\ s.target.class \in {"domain", "literal"}
               /\ host' = IF cfg.trailing_dot
                          THEN ensure_trailing_dot(s.target) ELSE s.target
               /\ stage' = "resolve"
               /\ UNCHANGED resp

(* read() returned 0 before the first request byte.                        *)
ClientLeft ==
    /\ stage = "accepted" /\ cstate = "fin" /\ upSent = 0
    /\ stage' = "done"
    /\ UNCHANGED <<inputs, lookup, resp, client, upRead, remote, evasion,
                   wire, tunnel>>

is_meta == host.meta /\ ~host.dot      \* is_padding_incompatible_domain(host)

-----------------------------------------------------------------------------
(* handle_connect_tunnel: resolution, dialling, 200.                       *)

(* What a lookup may bring.  "loopback": an address is_loopback() or       *)
(* is_unspecified() recognises; "mapped": such an IPv4 address written as  *)
(* an IPv6 one (::ffff:127.0.0.1), for which both tests are false.         *)
Address == {"public", "loopback", "mapped", "none"}
Dialled == {"public", "mapped"}

(* Mutant: the guard on the resolved address is missing.                   *)
NoGuard(addr) ==
    addr # "none" /\ ip' = addr /\ stage' = "dial" /\ UNCHANGED resp

GuardRemoteIp(addr) ==
    \/ addr = "loopback" /\ Answer(403) /\ UNCHANGED ip
    \/ addr \in Dialled /\ ip' = addr /\ stage' = "dial" /\ UNCHANGED resp

(* resolver.resolve: an address literal is returned as it is.              *)
Resolve ==
    /\ stage = "resolve"
    /\ \E addr \in Address :
         /\ host.class = "literal" => addr = "public"
         /\ \/ GuardRemoteIp(addr)
            \/ addr = "none" /\ stage' = "system" /\ UNCHANGED <<ip, resp>>
    /\ UNCHANGED <<inputs, host, client, upRead, remote, evasion, wire, tunnel>>

(* tokio::net::lookup_host: error and empty answer both end in 502.        *)
SystemLookup ==
    /\ stage = "system"
    /\ \E addr \in Address :
         \/ GuardRemoteIp(addr)
         \/ addr = "none" /\ Answer(502) /\ UNCHANGED ip
    /\ UNCHANGED <<inputs, host, client, upRead, remote, evasion, wire, tunnel>>

(* Mutant: the 200 is written before the connect is tried.                 *)
DialAfterAnswer ==
    /\ stage = "dial"
    /\ resp' = Append(resp, 200)
    /\ rstate' \in {"open", "none"} /\ stage' = "connected"
    /\ UNCHANGED <<inputs, lookup, client, upRead, downSent, evasion, wire,
                   tunnel>>

(* connect_remote_socket: only creating the socket and connect() can fail. *)
Dial ==
    /\ stage = "dial"
    /\ \/ rstate' = "open" /\ stage' = "connected" /\ UNCHANGED resp
       \/ Answer(502) /\ UNCHANGED rstate
    /\ UNCHANGED <<inputs, lookup, client, upRead, downSent, evasion, wire,
                   tunnel>>

Established ==
    /\ stage = "connected" /\ cstate # "reset"
    /\ resp' = Append(resp, 200)
    /\ stage' = "hello"
    /\ UNCHANGED <<inputs, lookup, client, upRead, remote, evasion, wire,
                   tunnel>>

-----------------------------------------------------------------------------
(* handle_connect_tunnel: the first flight.                                *)

(* A buffer that starts at offset from opens with the flight's first byte  *)
(* only if the request read stopped exactly at the end of the request.     *)
FlightAt(from) == [req.flight EXCEPT !.hello = @ /\ from = req.head_end]

(* Mutant: the probe is sent for Meta hosts instead of all others.         *)
ProbeForMeta(n) == cfg.fake /\ is_meta /\ is_client_hello(FlightAt(upRead), n)

ProbeDue(n) == cfg.fake /\ ~is_meta /\ is_client_hello(FlightAt(upRead), n)

ReadHello ==
    /\ stage = "hello" /\ cstate # "reset"
    /\ \/ /\ upRead < upSent
          /\ upRead' = Smaller(upSent, upRead + CLIENT_HELLO_BUF_SIZE)
          /\ buf' = [from |-> upRead, to |-> upRead']
          /\ stage' = IF ProbeDue(upRead' - upRead) THEN "probe" ELSE "send"
       \/ /\ upRead = upSent /\ cstate = "fin"
          /\ stage' = "tunnel"
          /\ UNCHANGED <<upRead, buf>>
    /\ UNCHANGED <<inputs, lookup, resp, client, remote, done, split, probe,
                   delayed, wire, tunnel>>

(* inject_fake_ttl_probe: awaited; every failure is ignored.               *)
InjectFakeTtlProbe ==
    /\ stage = "probe"
    /\ probe' \in {"sent", "failed"}
    /\ stage' = "send"
    /\ UNCHANGED <<inputs, lookup, resp, client, upRead, remote, buf, done,
                   split, delayed, wire, tunnel>>

HelloLen   == buf.to - buf.from
SeenFlight == FlightAt(buf.from)
RawLen     == extract_first_tls_record(SeenFlight, HelloLen)   \* raw_ch.len()
(* Mutant: the bytes after the first record are forgotten.                 *)
TrailingForgotten == Bytes(buf.to, buf.to)

Trailing   == Bytes(buf.from + RawLen, buf.to)                 \* trailing_data

CanCut ==
    /\ find_sni_info(SeenFlight, RawLen)
    /\ req.flight.hostname_length > 4

SplitPoints ==
    {req.flight.hostname_offset + cut :
        cut \in calculate_sni_cut_offset(req.flight.hostname_length, host.www)}

SplitFits(point) == point > TLS_RECORD_HEADER_SIZE /\ point < RawLen

Records(point) == fragment_at_offset(buf.from, RawLen, point)

(* transmit_tls_records, first half: record 1 and flush.                   *)
SendRecord1 ==
    /\ stage = "send" /\ rstate # "reset" /\ CanCut
    /\ \E point \in SplitPoints :
         /\ SplitFits(point)
         /\ split' = point
         /\ wire' = Put(Put(wire, Records(point)[1][1]), Records(point)[1][2])
    /\ stage' = IF is_meta THEN "record2" ELSE "delay"      \* !is_meta: pause
    /\ UNCHANGED <<inputs, lookup, resp, client, upRead, remote, buf, done,
                   probe, delayed, tunnel>>

RandomDelay ==
    /\ stage = "delay"
    /\ delayed' = TRUE
    /\ stage' = "record2"
    /\ UNCHANGED <<inputs, lookup, resp, client, upRead, remote, buf, done,
                   split, probe, wire, tunnel>>

(* transmit_tls_records, second half: record 2, trailing data, flush.      *)
SendRecord2 ==
    /\ stage = "record2" /\ rstate # "reset"
    /\ LET recs == Records(split)
           w    == IF Len(recs) = 2
                   THEN Put(Put(wire, recs[2][1]), recs[2][2]) ELSE wire
       IN  wire' = IF Trailing.len > 0 THEN Put(w, Trailing) ELSE w
    /\ stage' = "tunnel"
    /\ UNCHANGED <<inputs, lookup, resp, client, upRead, remote, evasion,
                   tunnel>>

(* Mutant: the last chunk is not clipped to what is left.                  *)
UnclippedChunk(draw) == draw

chunk_size(draw) == Smaller(draw, RawLen - done)

(* split_and_write(raw_ch): one iteration of its loop.                     *)
SplitAndWrite ==
    /\ \/ stage = "fallback"
       \/ stage = "send" /\ ~(CanCut /\ \A point \in SplitPoints : SplitFits(point))
    /\ rstate # "reset"
    /\ \E draw \in ChunkSizes :
         /\ done' = done + chunk_size(draw)
         /\ wire' = Put(wire, Bytes(buf.from + done, buf.from + done'))
         /\ stage' = IF done' < RawLen THEN "fallback" ELSE "tunnel"
    /\ UNCHANGED <<inputs, lookup, resp, client, upRead, remote, buf, split,
                   probe, delayed, tunnel>>

-----------------------------------------------------------------------------
(* tunnel_bidirectional: tokio's copy_bidirectional.                       *)

CopyUp ==
    /\ stage = "tunnel" /\ cstate # "reset" /\ rstate # "reset"
    /\ upRead < upSent
    /\ upRead' = upSent
    /\ wire' = Put(wire, Bytes(upRead, upSent))
    /\ UNCHANGED <<inputs, stage, lookup, resp, client, remote, evasion, tunnel>>

(* Mutant: the downlink is no longer read once the client has finished.    *)
CopyDownUntilShutdown ==
    /\ stage = "tunnel" /\ cstate # "reset" /\ rstate # "reset"
    /\ downFwd < downSent /\ ~upDone
    /\ downFwd' = downSent
    /\ UNCHANGED <<inputs, stage, lookup, resp, client, upRead, remote,
                   evasion, wire, upDone, downDone>>

CopyDown ==
    /\ stage = "tunnel" /\ cstate # "reset" /\ rstate # "reset"
    /\ downFwd < downSent
    /\ downFwd' = downSent
    /\ UNCHANGED <<inputs, stage, lookup, resp, client, upRead, remote,
                   evasion, wire, upDone, downDone>>

(* Mutant: the end of stream overtakes data not yet relayed.               *)
ShutdownUpEarly ==
    /\ stage = "tunnel" /\ cstate = "fin" /\ rstate # "reset" /\ ~upDone
    /\ upDone' = TRUE
    /\ stage' = IF downDone THEN "done" ELSE stage
    /\ UNCHANGED <<inputs, lookup, resp, client, upRead, remote, evasion, wire,
                   downFwd, downDone>>

(* End of one direction: shut down the writing half of the other socket.   *)
ShutdownUp ==
    /\ stage = "tunnel" /\ cstate = "fin" /\ rstate # "reset"
    /\ upRead = upSent /\ ~upDone
    /\ upDone' = TRUE
    /\ stage' = IF downDone THEN "done" ELSE stage
    /\ UNCHANGED <<inputs, lookup, resp, client, upRead, remote, evasion, wire,
                   downFwd, downDone>>

ShutdownDown ==
    /\ stage = "tunnel" /\ rstate = "fin" /\ cstate # "reset"
    /\ downFwd = downSent /\ ~downDone
    /\ downDone' = TRUE
    /\ stage' = IF upDone THEN "done" ELSE stage
    /\ UNCHANGED <<inputs, lookup, resp, client, upRead, remote, evasion, wire,
                   downFwd, upDone>>

(* Mutant: an error in the relay is swallowed.                             *)
IoErrorBeforeTunnel ==
    /\ \/ cstate = "reset" /\ stage \in {"accepted", "connected", "hello"}
       \/ rstate = "reset" /\ stage \in {"send", "fallback", "record2"}
    /\ stage' = "failed"
    /\ UNCHANGED <<inputs, lookup, resp, client, upRead, remote, evasion, wire,
                   tunnel>>

(* The error returns: a read from or write to a socket that was reset.     *)
IoError ==
    /\ \/ cstate = "reset" /\ stage \in {"accepted", "connected", "hello", "tunnel"}
       \/ rstate = "reset" /\ stage \in {"send", "fallback", "record2", "tunnel"}
    /\ stage' = "failed"
    /\ UNCHANGED <<inputs, lookup, resp, client, upRead, remote, evasion, wire,
                   tunnel>>

Task ==
    \/ ActiveProbeDefense \/ PlaintextRedirect \/ ConnectRequest \/ ClientLeft
    \/ Resolve \/ SystemLookup \/ Dial \/ Established
    \/ ReadHello \/ InjectFakeTtlProbe
    \/ SendRecord1 \/ RandomDelay \/ SendRecord2 \/ SplitAndWrite
    \/ CopyUp \/ CopyDown \/ ShutdownUp \/ ShutdownDown \/ IoError

Ended == Over /\ UNCHANGED vars

Next == Environment \/ Task \/ Ended

(* Every await of the task ends by itself: the DNS query has a timeout, the*)
(* kernel gives up a connect, timers fire, and the little data a run sends *)
(* fits the socket buffers.  Nothing obliges the peers.                    *)
Spec == Init /\ [][Next]_vars /\ WF_vars(Task)

-----------------------------------------------------------------------------
(* Properties.                                                             *)

Interval == [from : Nat, to : Nat]

(* Type invariant: every field of the task's state stays in its domain, so *)
(* no length computed from buf, done and split is ever negative.           *)
TypeOK ==
    /\ cfg \in Configs /\ req \in Requests
    /\ stage \in Stages
    /\ host \in Target /\ ip \in {"none"} \cup Dialled
    /\ resp \in Seq({200, 301, 400, 403, 404, 502})
    /\ upSent \in Nat /\ upRead \in 0 .. upSent
    /\ cstate \in {"open", "fin", "reset"}
    /\ rstate \in {"none", "open", "fin", "reset"}
    /\ buf \in Interval /\ buf.from <= buf.to /\ buf.to <= upRead
    /\ done \in 0 .. HelloLen /\ split \in Nat
    /\ wire \in Seq(Segment)
    /\ probe \in {"no", "sent", "failed"} /\ delayed \in BOOLEAN
    /\ downSent \in Nat /\ downFwd \in 0 .. downSent
    /\ upDone \in BOOLEAN /\ downDone \in BOOLEAN

(* The client sees at most one status line; it is 200 exactly when the     *)
(* remote was dialled and the tunnel entered, and an error status means    *)
(* that nothing ever flowed: handle_connect_tunnel must not answer twice   *)
(* or promise a tunnel before connect_remote_socket succeeded.             *)
ResponseMatchesOutcome ==
    /\ Len(resp) <= 1
    /\ resp = <<200>> => rstate # "none" /\ ip \in Dialled
    /\ resp # <<200>> => wire = << >> /\ downFwd = 0 /\ probe = "no"
    /\ resp \notin {<< >>, <<200>>} => rstate = "none"

(* The loopback guard (proxy.rs:209, 253): whatever way the address came,  *)
(* literal, resolver or system lookup, no socket is opened to an address   *)
(* its tests recognise, neither for the tunnel nor for the fake probe.  A  *)
(* "mapped" loopback address they do not recognise, and it is dialled.     *)
GuardedDial ==
    rstate # "none" \/ probe # "no" =>
        ip \in Dialled /\ host.class \in {"domain", "literal"}

InFallback == wire # << >> /\ split = 0

(* What the remote receives is the client's tunnel stream: from its first  *)
(* byte if the request read stopped at the end of the request, without a   *)
(* gap unless split_and_write left trailing data behind, and in records    *)
(* that announce together exactly what the client's record announced if    *)
(* the ClientHello read held that record whole.                            *)
TunnelFaithful ==
    /\ buf.from = req.head_end => StartsAt(wire, req.head_end)
    /\ ~(InFallback /\ Trailing.len > 0) => Unbroken(wire)
    /\ /\ Len(wire) >= 3 /\ wire[1].kind = "header"
       /\ TLS_RECORD_HEADER_SIZE + req.flight.payload_len <= HelloLen
       => /\ wire[3].kind = "header" /\ wire[1].to = wire[3].from
          /\ wire[1].len + wire[3].len = req.flight.payload_len

(* Once a cut is chosen, both records carry a part of the server name.     *)
NameIsCut ==
    split # 0 => /\ split > req.flight.hostname_offset
                 /\ split < req.flight.hostname_offset + req.flight.hostname_length

(* The second record leaves after a pause, except for hosts the code takes *)
(* for Meta's, and no byte of the ClientHello leaves before a probe that   *)
(* is due has been tried.                                                  *)
EvasionOrder ==
    /\ stage = "record2" \/ (Len(wire) >= 3 /\ split # 0) =>
           delayed = ~is_meta
    /\ wire # << >> /\ cfg.fake /\ ~is_meta /\ is_client_hello(SeenFlight, HelloLen)
           => probe # "no"

(* Where the read of the request stopped.                                  *)
RequestRead == IF buf.to = 0 THEN upRead ELSE buf.from

(* The segments w carry the client's bytes [from, to) and no others.       *)
Carried(w, from, to) ==
    IF w = << >> THEN from = to
    ELSE StartsAt(w, from) /\ Unbroken(w) /\ After(w[Len(w)]) = to

(* What a tunnel that ends without error has and has not carried: all of   *)
(* the remote's data, and of the client's all but the bytes read together  *)
(* with the request (proxy.rs:173) and, when split_and_write sent the first*)
(* record, those read behind it (proxy.rs:332).  A client that waits for   *)
(* the 200 loses nothing to the request's read.                            *)
CleanEndAccounted ==
    stage = "done" /\ resp = <<200>> =>
        /\ upRead = upSent /\ downFwd = downSent
        /\ IF InFallback /\ Trailing.len > 0
           THEN /\ Carried(<<wire[1]>>, RequestRead, Trailing.from)
                /\ Carried(Tail(wire), Trailing.to, upSent)
           ELSE Carried(wire, RequestRead, upSent)
        /\ RequestRead <= req.head_end \/ req.pipelines

(* Half-close: after the client's end of stream was passed on, nothing more*)
(* is written to the remote; after the remote's, nothing to the client.    *)
NothingAfterShutdown ==
    [][(upDone => wire' = wire) /\ (downDone => downFwd' = downFwd)]_vars

(* A request that arrived whole is answered, unless the client leaves.     *)
RequestIsAnswered ==
    (stage = "accepted" /\ upSent >= 1) ~> (resp # << >> \/ cstate = "reset")

(* A client that resets, or two peers that both finished, leave no task    *)
(* behind.                                                                 *)
TaskEnds ==
    /\ cstate = "reset" ~> Over
    /\ <>[](cstate # "open" /\ rstate # "open") => <>Over

(* Tunnel data that reached the proxy is forwarded although the remote may *)
(* stay silent; what the remote sent before the client's first tunnel byte *)
(* waits in the socket and is delivered once the client has spoken.  A     *)
(* client that waits for the remote's greeting waits for good.             *)
RelayProgress ==
    /\ (stage = "tunnel" /\ upRead < upSent) ~> (upRead = upSent \/ Over)
    /\ (resp = <<200>> /\ upRead < upSent /\ downFwd < downSent)
           ~> (downFwd = downSent \/ Over)

Phase ==
    CASE stage = "accepted"             -> "request"
      [] stage \in {"resolve", "system"} -> "lookup"
      [] stage \in {"dial", "connected"} -> "dial"
      [] stage = "probe"                -> "probe"
      [] Over                           -> "closed"
      [] OTHER                          -> "tunnel"

(* How far into the client's stream the remote's goes.                     *)
Position == IF wire = << >> THEN 0 ELSE After(wire[Len(wire)])

(* A connection keeps the promises of Session: order of the phases, one    *)
(* answer, no silent end, nothing relayed before the 200 or during the     *)
(* probe, no byte of the client's sent twice, no phase of the proxy's own  *)
(* without end.                                                            *)
Se == INSTANCE Session WITH Up <- Nat, phase <- Phase, client <- cstate = "open",
          answer <- resp, up <- Position, down <- downFwd
KeepsSession == Se!Spec

-----------------------------------------------------------------------------
(* The inductive invariant: what each stage knows, and the exact content of*)
(* the remote's stream.                                                    *)

Early   == stage \in {"accepted", "resolve", "system", "dial", "connected"}
Late    == stage \in {"hello", "probe", "send", "fallback", "delay",
                      "record2", "tunnel"}
Holding == stage \in {"probe", "send", "fallback", "delay", "record2"}

ControlInv ==
    /\ Early => /\ resp = << >> /\ wire = << >> /\ downFwd = 0 /\ probe = "no"
                /\ stage # "connected" => rstate = "none"
    /\ Late \/ stage = "connected" => rstate # "none"
    /\ Late => resp = <<200>>
    /\ Late \/ stage \in {"connected", "dial"} => ip \in Dialled
    /\ ~(Over \/ stage = "accepted") => host.class \in {"domain", "literal"}
    /\ ResponseMatchesOutcome
    /\ GuardedDial

(* A cut was chosen because the record in the buffer holds the whole name. *)
CutChosen ==
    /\ CanCut /\ split \in SplitPoints /\ SplitFits(split)

Header1 == build_tls_header(buf.from + TLS_RECORD_HEADER_SIZE, buf.from + split)
Part1   == Bytes(buf.from + TLS_RECORD_HEADER_SIZE, buf.from + split)
Header2 == build_tls_header(buf.from + split, buf.from + RawLen)

(* The only contents the remote's stream can have.                         *)
NothingSent == wire = << >> /\ done = 0 /\ split = 0
Falling     == /\ wire = <<Bytes(buf.from, buf.from + done)>> /\ split = 0
               /\ done \in 1 .. RawLen
Followed    == /\ done = RawLen /\ split = 0
               /\ wire = IF Trailing.len = 0
                         THEN <<Bytes(buf.from, upRead)>>
                         ELSE <<Bytes(buf.from, buf.from + RawLen), Bytes(buf.to, upRead)>>
HalfCut     == wire = <<Header1, Part1>> /\ CutChosen /\ done = 0
FullCut     == /\ wire = <<Header1, Part1, Header2, Bytes(buf.from + split, upRead)>>
               /\ CutChosen /\ done = 0

WireInv ==
    /\ HelloLen <= CLIENT_HELLO_BUF_SIZE
    /\ Early \/ stage = "hello" => NothingSent /\ buf.to = 0
    /\ stage \in {"probe", "send"} => NothingSent
    /\ Holding => buf.from < buf.to /\ buf.to = upRead
    /\ stage = "fallback" => Falling /\ done < RawLen
    /\ stage \in {"delay", "record2"} => HalfCut
    /\ stage = "tunnel" =>
           \/ NothingSent /\ buf.to = 0 /\ upRead = upSent /\ cstate # "open"
           \/ Falling /\ done = RawLen /\ upRead = buf.to
           \/ Followed /\ upRead > buf.to
           \/ FullCut
    /\ Over => NothingSent \/ Falling \/ Followed \/ HalfCut \/ FullCut

IInv == TypeOK /\ ControlInv /\ WireInv

-----------------------------------------------------------------------------
(* Claims of the repository that the code does not meet.                   *)

(* README: inter-fragment delay is skipped for Meta's domains.             *)
MetaSkipsDelay == req.target.meta => ~delayed

(* proxy.rs: trailing data is separated from the first record and sent     *)
(* after it; no byte of the tunnel stream is left out.                     *)
StreamUnbroken == Unbroken(wire)

(* fragmenter.rs: a cut yields two valid TLS records; together they hold   *)
(* the payload the client's record announced.                              *)
RecordsValid ==
    Len(wire) >= 3 /\ wire[1].kind = "header" =>
        wire[1].len + wire[3].len = req.flight.payload_len
=============================================================================
