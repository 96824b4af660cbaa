-------------------------- MODULE ConnectionProofs --------------------------
(* Proofs about one connection, for every set of requests and every        *)
(* configuration.                                                          *)
EXTENDS Connection, TLAPS

(* calculate_sni_cut_offset: for a name of more than four bytes the cut    *)
(* leaves at least two bytes of the name in each record.                   *)
LEMMA CutInside ==
    ASSUME NEW n \in Nat, n > 4, NEW www \in BOOLEAN,
           NEW cut \in calculate_sni_cut_offset(n, www)
    PROVE  cut \in 2 .. n - 2
  <1> DEFINE start == IF www THEN 4 ELSE 0
             dom   == SatSub(n, start)
             mid   == start + dom \div 2
             lo    == Larger(SatSub(mid, 1), start + 2)
             hi    == Smaller(mid + 1, n - 2)
  <1>1. CASE n > 6 /\ lo <= hi
    <2>1. cut \in lo .. hi
      BY <1>1 DEF calculate_sni_cut_offset
    <2>2. start \in {0, 4}
      OBVIOUS
    <2>3. dom \in Nat
      BY <2>2 DEF SatSub
    <2>4. dom \div 2 \in Nat
      BY <2>3
    <2>5. lo \in Int /\ lo >= 2
      BY <2>2, <2>4 DEF Larger, SatSub
    <2>6. hi \in Int /\ hi <= n - 2
      BY <2>2, <2>4 DEF Smaller
    <2>7. QED
      BY <2>1, <2>5, <2>6
  <1>2. CASE ~(n > 6 /\ lo <= hi)
    <2>1. cut = n \div 2
      BY <1>2 DEF calculate_sni_cut_offset
    <2>2. QED
      BY <2>1
  <1>3. QED
    BY <1>1, <1>2

-----------------------------------------------------------------------------
(* What Put does to the streams that occur.                                *)

(* Two sequences of the same length with the same elements are equal.      *)
LEMMA SeqExtensional ==
    ASSUME NEW S, NEW s \in Seq(S), NEW t \in Seq(S), Len(s) = Len(t),
           \A i \in 1 .. Len(s) : s[i] = t[i]
    PROVE  s = t
  OBVIOUS

(* Append, spelled out for the short streams WireInv speaks of.            *)
LEMMA AppendSecond ==
    ASSUME NEW S, NEW a \in S, NEW b \in S
    PROVE  Append(<<a>>, b) = <<a, b>>
  <1> DEFINE s == Append(<<a>>, b)
  <1>1. s \in Seq(S) /\ Len(s) = 2 OBVIOUS
  <1>2. s[1] = a /\ s[2] = b OBVIOUS
  <1>3. <<a, b>> \in Seq(S) /\ Len(<<a, b>>) = 2 OBVIOUS
  <1>4. \A i \in 1 .. 2 : s[i] = <<a, b>>[i] BY <1>2
  <1> HIDE DEF s
  <1>5. s = <<a, b>> BY <1>1, <1>3, <1>4, SeqExtensional
  <1>6. QED BY <1>5 DEF s

(* A third element.                                                        *)
LEMMA AppendThird ==
    ASSUME NEW S, NEW a \in S, NEW b \in S, NEW c \in S
    PROVE  Append(<<a, b>>, c) = <<a, b, c>>
  <1> DEFINE s == Append(<<a, b>>, c)
  <1>1. s \in Seq(S) /\ Len(s) = 3 OBVIOUS
  <1>2. s[1] = a /\ s[2] = b /\ s[3] = c OBVIOUS
  <1>3. <<a, b, c>> \in Seq(S) /\ Len(<<a, b, c>>) = 3 OBVIOUS
  <1>4. \A i \in 1 .. 3 : s[i] = <<a, b, c>>[i] BY <1>2
  <1> HIDE DEF s
  <1>5. s = <<a, b, c>> BY <1>1, <1>3, <1>4, SeqExtensional
  <1>6. QED BY <1>5 DEF s

(* A fourth element.                                                       *)
LEMMA AppendFourth ==
    ASSUME NEW S, NEW a \in S, NEW b \in S, NEW c \in S, NEW d \in S
    PROVE  Append(<<a, b, c>>, d) = <<a, b, c, d>>
  <1> DEFINE s == Append(<<a, b, c>>, d)
  <1>1. s \in Seq(S) /\ Len(s) = 4 OBVIOUS
  <1>2. s[1] = a /\ s[2] = b /\ s[3] = c /\ s[4] = d OBVIOUS
  <1>3. <<a, b, c, d>> \in Seq(S) /\ Len(<<a, b, c, d>>) = 4 OBVIOUS
  <1>4. \A i \in 1 .. 4 : s[i] = <<a, b, c, d>>[i] BY <1>2
  <1> HIDE DEF s
  <1>5. s = <<a, b, c, d>> BY <1>1, <1>3, <1>4, SeqExtensional
  <1>6. QED BY <1>5 DEF s

(* An interval and the header made for it are segments.                    *)
LEMMA SegmentTypes ==
    ASSUME NEW a \in Nat, NEW b \in Nat, a <= b
    PROVE  /\ Bytes(a, b) \in Segment
           /\ build_tls_header(a, b) \in Segment
           /\ Bytes(a, b).kind = "bytes"
           /\ build_tls_header(a, b).kind = "header"
  BY DEF Bytes, build_tls_header, Segment, U16

(* The first thing written is the whole stream.                            *)
LEMMA PutFirst == ASSUME NEW s PROVE Put(<< >>, s) = <<s>>
  BY DEF Put

(* What follows a header never merges with it.                             *)
LEMMA PutAfterHeader ==
    ASSUME NEW h \in Segment, NEW s \in Segment, h.kind = "header"
    PROVE  Put(<<h>>, s) = <<h, s>>
  <1>1. Put(<<h>>, s) = Append(<<h>>, s) BY DEF Put
  <1>2. QED BY <1>1, AppendSecond

(* Bytes that continue the stream extend its only interval.                *)
LEMMA PutExtends ==
    ASSUME NEW a \in Nat, NEW b \in Nat, NEW c \in Nat
    PROVE  Put(<<Bytes(a, b)>>, Bytes(b, c)) = <<Bytes(a, c)>>
  BY DEF Put, Bytes

(* Bytes after a gap open a second interval.                               *)
LEMMA PutGap ==
    ASSUME NEW a \in Nat, NEW b \in Nat, NEW c \in Nat, NEW d \in Nat,
           a <= b, b < c, c <= d
    PROVE  Put(<<Bytes(a, b)>>, Bytes(c, d)) = <<Bytes(a, b), Bytes(c, d)>>
  <1>1. Put(<<Bytes(a, b)>>, Bytes(c, d)) = Append(<<Bytes(a, b)>>, Bytes(c, d))
    BY DEF Put, Bytes
  <1>2. QED BY <1>1, AppendSecond, SegmentTypes

(* The interval after a header or a gap is extended in place.              *)
LEMMA PutExtendsSecond ==
    ASSUME NEW s, NEW a \in Nat, NEW b \in Nat, NEW c \in Nat
    PROVE  Put(<<s, Bytes(a, b)>>, Bytes(b, c)) = <<s, Bytes(a, c)>>
  BY DEF Put, Bytes

(* The second record's header is never merged.                             *)
LEMMA PutSecondHeader ==
    ASSUME NEW g \in Segment, NEW s \in Segment, NEW h \in Segment,
           h.kind = "header"
    PROVE  Put(<<g, s>>, h) = <<g, s, h>>
  <1>1. Put(<<g, s>>, h) = Append(<<g, s>>, h) BY DEF Put
  <1>2. QED BY <1>1, AppendThird

(* Nor is the payload behind it.                                           *)
LEMMA PutAfterSecondHeader ==
    ASSUME NEW g \in Segment, NEW s \in Segment, NEW h \in Segment,
           NEW t \in Segment, h.kind = "header"
    PROVE  Put(<<g, s, h>>, t) = <<g, s, h, t>>
  <1>1. Put(<<g, s, h>>, t) = Append(<<g, s, h>>, t) BY DEF Put
  <1>2. QED BY <1>1, AppendFourth

(* After both records the stream grows at its end only.                    *)
LEMMA PutExtendsFourth ==
    ASSUME NEW g, NEW s, NEW h, NEW a \in Nat, NEW b \in Nat, NEW c \in Nat
    PROVE  Put(<<g, s, h, Bytes(a, b)>>, Bytes(b, c)) = <<g, s, h, Bytes(a, c)>>
  BY DEF Put, Bytes

-----------------------------------------------------------------------------
(* The definitions that describe the buffer and the remote's stream depend *)
(* on these variables only.                                                *)

(* What is computed from the buffer stays while the buffer does.           *)
LEMMA Frame ==
    ASSUME UNCHANGED <<req, host, buf, done, split, wire>>
    PROVE  /\ HelloLen' = HelloLen /\ RawLen' = RawLen /\ Trailing' = Trailing
           /\ CutChosen' = CutChosen
           /\ NothingSent' = NothingSent /\ Falling' = Falling
           /\ HalfCut' = HalfCut
           /\ upRead' = upRead => Followed' = Followed /\ FullCut' = FullCut
  <1>1. HelloLen' = HelloLen BY DEF HelloLen
  <1>2. SeenFlight' = SeenFlight BY DEF SeenFlight, FlightAt
  <1>3. RawLen' = RawLen BY <1>1, <1>2 DEF RawLen
  <1>4. Trailing' = Trailing BY <1>3 DEF Trailing
  <1>5. CutChosen' = CutChosen
    BY <1>2, <1>3 DEF CutChosen, CanCut, SplitPoints, SplitFits
  <1>6. NothingSent' = NothingSent /\ Falling' = Falling
    BY <1>3 DEF NothingSent, Falling
  <1>7. Header1' = Header1 /\ Part1' = Part1 /\ Header2' = Header2
    BY <1>3 DEF Header1, Part1, Header2
  <1>8. HalfCut' = HalfCut BY <1>5, <1>7 DEF HalfCut
  <1>9. ASSUME upRead' = upRead
        PROVE  Followed' = Followed /\ FullCut' = FullCut
    BY <1>3, <1>4, <1>5, <1>7, <1>9 DEF Followed, FullCut
  <1>10. QED BY <1>1, <1>3, <1>4, <1>5, <1>6, <1>8, <1>9

(* An accepted connection satisfies the invariant.                         *)
LEMMA InitInv == Init => IInv
  <1> SUFFICES ASSUME Init PROVE IInv OBVIOUS
  <1>1. TypeOK
    <2>1. NoTarget \in Target BY DEF NoTarget, Target
    <2>2. buf \in Interval /\ buf.from = 0 /\ buf.to = 0 BY DEF Init, Interval
    <2>3. wire \in Seq(Segment) /\ resp \in Seq({200, 301, 400, 403, 404, 502})
      BY DEF Init
    <2>4. delayed \in BOOLEAN /\ upDone \in BOOLEAN /\ downDone \in BOOLEAN
      BY DEF Init
    <2>5. done \in 0 .. HelloLen /\ split \in Nat BY <2>2 DEF Init, HelloLen
    <2>6. QED BY <2>1, <2>2, <2>3, <2>4, <2>5 DEF Init, TypeOK, Stages
  <1>2. ControlInv
    BY DEF Init, ControlInv, Early, Late, Over, ResponseMatchesOutcome,
           GuardedDial
  <1>3. WireInv
    BY DEF Init, WireInv, Early, Holding, Over, NothingSent, HelloLen,
           CLIENT_HELLO_BUF_SIZE
  <1>4. QED BY <1>1, <1>2, <1>3 DEF IInv

(* What the environment does never touches the task's own state.           *)
LEMMA EnvironmentInv == IInv /\ Environment => IInv'
  <1> SUFFICES ASSUME IInv, Environment PROVE IInv' OBVIOUS
  <1> USE DEF inputs, lookup, client, remote, evasion, tunnel
  <1>1. /\ UNCHANGED <<inputs, stage, lookup, resp, upRead, evasion, wire, tunnel>>
        /\ rstate = "none" <=> rstate' = "none"
        /\ upSent' \in Nat /\ upSent' >= upSent
        /\ cstate' \in {"open", "fin", "reset"}
        /\ rstate' \in {"none", "open", "fin", "reset"}
        /\ downSent' \in Nat /\ downSent' >= downSent
        /\ cstate # "open" => cstate' # "open" /\ upSent' = upSent
    <2>1. /\ upSent \in Nat /\ downSent \in Nat
          /\ cstate \in {"open", "fin", "reset"}
          /\ rstate \in {"none", "open", "fin", "reset"}
      BY DEF IInv, TypeOK
    <2>2. CASE ClientSends
      <3>1. req.cuts \subseteq Nat BY ConnectionAssumption DEF IInv, TypeOK, Request
      <3>2. /\ upSent' \in Nat /\ upSent' >= upSent /\ cstate = "open"
        BY <2>1, <2>2, <3>1 DEF ClientSends
      <3>3. QED BY <2>1, <2>2, <3>2 DEF ClientSends
    <2>3. CASE ClientHalfCloses BY <2>1, <2>3 DEF ClientHalfCloses
    <2>4. CASE ClientResets BY <2>1, <2>4 DEF ClientResets
    <2>5. CASE RemoteSends BY <2>1, <2>5 DEF RemoteSends
    <2>6. CASE RemoteHalfCloses BY <2>1, <2>6 DEF RemoteHalfCloses
    <2>7. CASE RemoteResets BY <2>1, <2>7 DEF RemoteResets
    <2>8. QED BY <2>2, <2>3, <2>4, <2>5, <2>6, <2>7 DEF Environment
  <1>2. TypeOK'
    BY <1>1 DEF IInv, TypeOK, HelloLen
  <1>3. ControlInv'
    BY <1>1 DEF IInv, ControlInv, Early, Late, Over, ResponseMatchesOutcome,
           GuardedDial
  <1>4. WireInv'
    BY <1>1, Frame DEF IInv, WireInv, Early, Holding, Over
  <1>5. QED BY <1>2, <1>3, <1>4 DEF IInv

(* A request that is refused or answered without a tunnel: the task is over*)
(* and nothing was dialled.                                                *)
LEMMA AnswerEffect ==
    ASSUME resp = << >>, NEW status \in {301, 400, 403, 404, 502}, Answer(status)
    PROVE  stage' \in {"done", "failed"} /\ resp' \in {<< >>, <<status>>}
  BY DEF Answer

(* A task that ends before it dialled leaves nothing behind.               *)
LEMMA RefusedInv ==
    ASSUME IInv, Early, stage # "connected",
           stage' \in {"done", "failed"},
           NEW status \in {301, 400, 403, 404, 502}, resp' \in {<< >>, <<status>>},
           upRead' \in 0 .. upSent,
           UNCHANGED <<inputs, lookup, client, remote, evasion, wire, tunnel>>
    PROVE  IInv'
  <1> USE DEF inputs, lookup, client, remote, evasion, tunnel
  <1>0. <<status>> # <<200>> /\ <<status>> # << >> /\ Len(<<status>>) = 1
        /\ Len(<< >>) = 0 /\ << >> # <<200>>
    OBVIOUS
  <1>1. TypeOK'
    <2>1. resp' \in Seq({200, 301, 400, 403, 404, 502})
      <3>1. << >> \in Seq({200, 301, 400, 403, 404, 502}) OBVIOUS
      <3>2. <<status>> \in Seq({200, 301, 400, 403, 404, 502}) OBVIOUS
      <3>3. CASE resp' = << >> BY <3>1, <3>3
      <3>4. CASE resp' = <<status>> BY <3>2, <3>4
      <3>5. QED BY <3>3, <3>4, Zenon
    <2>2. stage' \in Stages BY DEF Stages
    <2>3. buf.to = 0 BY DEF IInv, WireInv
    <2>4. HelloLen' = HelloLen BY DEF HelloLen
    <2>5. QED BY <2>1, <2>2, <2>3, <2>4 DEF IInv, TypeOK
  <1>2. ControlInv'
    <2>1. /\ wire' = << >> /\ downFwd' = 0 /\ probe' = "no" /\ rstate' = "none"
      BY DEF IInv, ControlInv, Early
    <2>2. Len(resp') <= 1 /\ resp' # <<200>>
      <3>1. CASE resp' = << >> BY <1>0, <3>1
      <3>2. CASE resp' = <<status>> BY <1>0, <3>2
      <3>3. QED BY <3>1, <3>2
    <2>3. ResponseMatchesOutcome' /\ GuardedDial'
      BY <2>1, <2>2 DEF ResponseMatchesOutcome, GuardedDial
    <2>4. QED
      BY <2>3 DEF ControlInv, Early, Late, Over
  <1>3. WireInv'
    BY Frame DEF IInv, WireInv, Early, Holding, Over
  <1>4. QED BY <1>1, <1>2, <1>3 DEF IInv

(* The task moves on towards the remote; only host or ip is settled.       *)
LEMMA AdvanceInv ==
    ASSUME IInv, Early, stage # "connected",
           \/ stage' \in {"resolve", "system"} /\ ip' = ip
           \/ stage' = "dial" /\ ip' \in Dialled,
           host' \in Target, host'.class \in {"domain", "literal"},
           upRead' \in 0 .. upSent,
           UNCHANGED <<inputs, resp, client, remote, evasion, wire, tunnel>>
    PROVE  IInv'
  <1> USE DEF inputs, client, remote, evasion, tunnel
  <1>1. TypeOK'
    <2>1. stage' \in Stages BY DEF Stages
    <2>2. buf.to = 0 BY DEF IInv, WireInv
    <2>3. HelloLen' = HelloLen BY DEF HelloLen
    <2>4. QED BY <2>1, <2>2, <2>3 DEF IInv, TypeOK
  <1>2. ControlInv'
    BY DEF IInv, ControlInv, Early, Late, Over, ResponseMatchesOutcome,
           GuardedDial
  <1>3. WireInv'
    BY DEF IInv, WireInv, Early, Holding, Over, NothingSent, HelloLen
  <1>4. QED BY <1>1, <1>2, <1>3 DEF IInv

(* What the first read of handle_client leaves settled.                    *)
LEMMA FirstReadBounds ==
    ASSUME IInv, ReadsRequest
    PROVE  /\ Early /\ stage # "connected" /\ resp = << >>
           /\ upRead' \in 0 .. upSent
           /\ UNCHANGED <<inputs, client, ip, remote, evasion, wire, tunnel>>
  BY DEF IInv, TypeOK, ReadsRequest, FirstRead, Smaller, CLIENT_BUF_SIZE,
     ControlInv, Early

(* However much of the request was read, a target is a target.             *)
LEMMA SeenTargets ==
    ASSUME TypeOK, NEW n \in Nat, NEW s \in Seen(n)
    PROVE  s.target \in Target
  <1>1. NoTarget \in Target BY DEF NoTarget, Target
  <1>2. req.target \in Target BY ConnectionAssumption DEF TypeOK, Request
  <1>3. QED BY <1>1, <1>2 DEF Seen

(* ensure_trailing_dot changes nothing but the dot.                        *)
LEMMA DotKeepsTarget ==
    ASSUME NEW t \in Target, t.class # "none"
    PROVE  ensure_trailing_dot(t) \in Target /\ ensure_trailing_dot(t).class = t.class
  BY DEF ensure_trailing_dot, Target

(* The outcomes of handle_client's first read.                             *)
LEMMA DispatchInv ==
    IInv /\ (ActiveProbeDefense \/ PlaintextRedirect \/ ConnectRequest \/ ClientLeft)
        => IInv'
  <1> SUFFICES ASSUME IInv, ActiveProbeDefense \/ PlaintextRedirect
                            \/ ConnectRequest \/ ClientLeft
               PROVE  IInv'
    OBVIOUS
  <1> USE DEF lookup
  <1>1. CASE ActiveProbeDefense
    <2>1. ReadsRequest /\ Answer(404) /\ UNCHANGED host
      BY <1>1 DEF ActiveProbeDefense
    <2>2. QED BY <2>1, FirstReadBounds, AnswerEffect, RefusedInv
  <1>2. CASE PlaintextRedirect
    <2>1. ReadsRequest /\ Answer(301) /\ UNCHANGED host
      BY <1>2 DEF PlaintextRedirect
    <2>2. QED BY <2>1, FirstReadBounds, AnswerEffect, RefusedInv
  <1>3. CASE ConnectRequest
    <2>1. ReadsRequest BY <1>3 DEF ConnectRequest
    <2>2. FirstRead \in Nat
      BY DEF FirstRead, Smaller, IInv, TypeOK, CLIENT_BUF_SIZE
    <2>3. PICK s \in Seen(FirstRead) :
            \/ Answer(400) /\ UNCHANGED host
            \/ Answer(403) /\ UNCHANGED host
            \/ /\ s.target.class \in {"domain", "literal"}
               /\ host' = IF cfg.trailing_dot
                          THEN ensure_trailing_dot(s.target) ELSE s.target
               /\ stage' = "resolve"
               /\ UNCHANGED resp
      BY <1>3 DEF ConnectRequest
    <2>4. CASE Answer(400) /\ UNCHANGED host
      BY <2>1, <2>4, FirstReadBounds, AnswerEffect, RefusedInv
    <2>5. CASE Answer(403) /\ UNCHANGED host
      BY <2>1, <2>5, FirstReadBounds, AnswerEffect, RefusedInv
    <2>6. CASE /\ s.target.class \in {"domain", "literal"}
               /\ host' = IF cfg.trailing_dot
                          THEN ensure_trailing_dot(s.target) ELSE s.target
               /\ stage' = "resolve"
               /\ UNCHANGED resp
      <3>1. s.target \in Target BY <2>2, SeenTargets DEF IInv
      <3>2. host' \in Target /\ host'.class \in {"domain", "literal"}
        BY <2>6, <3>1, DotKeepsTarget
      <3>3. QED BY <2>1, <2>6, <3>2, FirstReadBounds, AdvanceInv
    <2>7. QED BY <2>3, <2>4, <2>5, <2>6
  <1>4. CASE ClientLeft
    <2>1. Early /\ stage # "connected" /\ resp' = << >> /\ upRead' \in 0 .. upSent
      BY <1>4 DEF ClientLeft, Early, IInv, ControlInv, TypeOK
    <2>2. QED BY <1>4, <2>1, RefusedInv DEF ClientLeft
  <1>5. QED BY <1>1, <1>2, <1>3, <1>4

(* Either lookup: a recognised address is refused, any other is dialled.   *)
LEMMA LookupInv == IInv /\ (Resolve \/ SystemLookup) => IInv'
  <1> SUFFICES ASSUME IInv, Resolve \/ SystemLookup PROVE IInv' OBVIOUS
  <1>1. /\ stage \in {"resolve", "system"}
        /\ UNCHANGED <<inputs, host, client, upRead, remote, evasion, wire, tunnel>>
        /\ \/ \E addr : GuardRemoteIp(addr)
           \/ stage' = "system" /\ UNCHANGED <<ip, resp>>
           \/ Answer(502) /\ UNCHANGED ip
    BY DEF Resolve, SystemLookup
  <1>2. /\ Early /\ stage # "connected" /\ resp = << >> /\ upRead' \in 0 .. upSent
        /\ host' \in Target /\ host'.class \in {"domain", "literal"}
    BY <1>1 DEF Early, IInv, ControlInv, TypeOK, Over
  <1>3. CASE Answer(502) /\ UNCHANGED ip
    BY <1>1, <1>2, <1>3, AnswerEffect, RefusedInv DEF lookup
  <1>4. CASE stage' = "system" /\ UNCHANGED <<ip, resp>>
    BY <1>1, <1>2, <1>4, AdvanceInv
  <1>5. CASE \E addr : GuardRemoteIp(addr)
    <2>1. CASE Answer(403) /\ UNCHANGED ip
      BY <1>1, <1>2, <2>1, AnswerEffect, RefusedInv DEF lookup
    <2>2. CASE ip' \in Dialled /\ stage' = "dial" /\ UNCHANGED resp
      BY <1>1, <1>2, <2>2, AdvanceInv
    <2>3. QED BY <1>5, <2>1, <2>2 DEF GuardRemoteIp
  <1>6. QED BY <1>1, <1>3, <1>4, <1>5

(* connect_remote_socket, successful or not.                               *)
LEMMA DialInv == IInv /\ Dial => IInv'
  <1> SUFFICES ASSUME IInv, Dial PROVE IInv' OBVIOUS
  <1>0. stage = "dial" /\ Early /\ resp = << >> /\ upRead' \in 0 .. upSent
    BY DEF Dial, Early, IInv, ControlInv, TypeOK
  <1>1. CASE Answer(502) /\ UNCHANGED rstate
    BY <1>0, <1>1, AnswerEffect, RefusedInv DEF Dial, remote
  <1>2. CASE rstate' = "open" /\ stage' = "connected" /\ UNCHANGED resp
    <2> USE DEF inputs, lookup, client, evasion, tunnel
    <2>1. UNCHANGED <<inputs, lookup, client, upRead, downSent, evasion, wire,
                      tunnel, resp>>
      BY <1>2 DEF Dial
    <2>2. TypeOK'
      BY <1>2, <2>1 DEF IInv, TypeOK, HelloLen, Stages
    <2>3. ControlInv'
      BY <1>0, <1>2, <2>1 DEF IInv, ControlInv, Early, Late, Over,
         ResponseMatchesOutcome, GuardedDial
    <2>4. WireInv'
      BY <1>0, <1>2, <2>1, Frame DEF IInv, WireInv, Early, Holding, Over
    <2>5. QED BY <2>2, <2>3, <2>4 DEF IInv
  <1>3. QED BY <1>1, <1>2 DEF Dial

(* The 200 is written after the dial, and once.                            *)
LEMMA EstablishedInv == IInv /\ Established => IInv'
  <1> SUFFICES ASSUME IInv, Established PROVE IInv' OBVIOUS
  <1> USE DEF inputs, lookup, client, remote, evasion, tunnel
  <1>1. /\ stage = "connected" /\ stage' = "hello"
        /\ UNCHANGED <<inputs, lookup, client, upRead, remote, evasion, wire, tunnel>>
    BY DEF Established
  <1>2. resp = << >> /\ resp' = <<200>>
    BY <1>1 DEF Established, IInv, ControlInv, Early
  <1>3. <<200>> \in Seq({200, 301, 400, 403, 404, 502}) /\ Len(<<200>>) = 1
    OBVIOUS
  <1>4. TypeOK'
    BY <1>1, <1>2, <1>3 DEF IInv, TypeOK, HelloLen, Stages
  <1>5. ControlInv'
    BY <1>1, <1>2, <1>3 DEF IInv, ControlInv, Early, Late, Over,
       ResponseMatchesOutcome, GuardedDial
  <1>6. WireInv'
    BY <1>1, Frame DEF IInv, WireInv, Early, Holding, Over
  <1>7. QED BY <1>4, <1>5, <1>6 DEF IInv

-----------------------------------------------------------------------------
(* After the 200.                                                          *)

(* Once the tunnel stands, only the stage moves.                           *)
LEMMA LateControl ==
    ASSUME ControlInv, Late, Late' \/ Over', UNCHANGED <<resp, rstate, lookup>>
    PROVE  ControlInv'
  BY DEF ControlInv, Early, Late, Over, ResponseMatchesOutcome, GuardedDial,
     lookup

(* A length of 16 bits survives the cast in build_tls_header.              *)
LEMMA ModSmall == ASSUME NEW x \in Nat, x < U16 PROVE x % U16 = x
  BY DEF U16

(* Announced lengths are natural numbers.                                  *)
LEMMA U16Nat == \A x \in 0 .. U16 - 1 : x \in Nat
  <1>1. U16 - 1 \in Int BY DEF U16
  <1>2. QED BY <1>1

(* extract_first_tls_record returns a prefix of the buffer, and a non-empty*)
(* one of a non-empty buffer.                                              *)
LEMMA RawLenBounds ==
    ASSUME TypeOK
    PROVE  /\ HelloLen \in Nat /\ RawLen \in 0 .. HelloLen
           /\ buf.from < buf.to => RawLen > 0
           /\ req.flight.payload_len \in Nat
  <1>1. req.flight.payload_len \in 0 .. U16 - 1 /\ req.flight \in Flight
    BY ConnectionAssumption DEF TypeOK, Request, Flight
  <1>2. SeenFlight.payload_len = req.flight.payload_len
    BY <1>1 DEF SeenFlight, FlightAt, Flight
  <1>3. HelloLen \in Nat /\ (buf.from < buf.to => HelloLen > 0)
    BY DEF TypeOK, Interval, HelloLen
  <1> DEFINE rec_len == TLS_RECORD_HEADER_SIZE + req.flight.payload_len
  <1>7. req.flight.payload_len \in Nat BY <1>1, U16Nat
  <1>4. rec_len \in Nat BY <1>7 DEF TLS_RECORD_HEADER_SIZE
  <1>5. \/ RawLen = HelloLen
        \/ RawLen = rec_len /\ rec_len > TLS_RECORD_HEADER_SIZE /\ HelloLen > rec_len
    BY <1>2 DEF RawLen, extract_first_tls_record
  <1> HIDE DEF rec_len
  <1>6. RawLen \in 0 .. HelloLen /\ (buf.from < buf.to => RawLen > 0)
    BY <1>3, <1>4, <1>5 DEF TLS_RECORD_HEADER_SIZE
  <1>8. QED BY <1>3, <1>6, <1>7

(* The read of the ClientHello fills the buffer, or finds the end.         *)
LEMMA ReadHelloInv == IInv /\ ReadHello => IInv'
  <1> SUFFICES ASSUME IInv, ReadHello PROVE IInv' OBVIOUS
  <1> USE DEF inputs, lookup, client, remote, evasion, tunnel
  <1>1. /\ stage = "hello" /\ cstate # "reset"
        /\ UNCHANGED <<inputs, lookup, resp, client, remote, done, split,
                       probe, delayed, wire, tunnel>>
    BY DEF ReadHello
  <1>2. Late /\ NothingSent /\ buf.to = 0 /\ buf.from = 0
    BY <1>1 DEF IInv, WireInv, Late, TypeOK, Interval
  <1>3. CASE /\ upRead < upSent
             /\ upRead' = Smaller(upSent, upRead + CLIENT_HELLO_BUF_SIZE)
             /\ buf' = [from |-> upRead, to |-> upRead']
             /\ stage' \in {"probe", "send"}
    <2>1. /\ upRead' \in 0 .. upSent /\ upRead < upRead'
          /\ upRead' - upRead <= CLIENT_HELLO_BUF_SIZE
          /\ upRead \in Nat
      BY <1>3 DEF IInv, TypeOK, Smaller, CLIENT_HELLO_BUF_SIZE
    <2>2. /\ buf' \in Interval /\ buf'.from = upRead /\ buf'.to = upRead'
          /\ HelloLen' = upRead' - upRead
      BY <1>3, <2>1 DEF Interval, HelloLen
    <2>3. TypeOK'
      BY <1>1, <1>2, <1>3, <2>1, <2>2 DEF IInv, TypeOK, Stages, NothingSent
    <2>4. ControlInv'
      BY <1>1, <1>2, <1>3, LateControl DEF IInv, Late
    <2>5. WireInv'
      BY <1>1, <1>2, <1>3, <2>1, <2>2
         DEF WireInv, Early, Holding, Over, NothingSent
    <2>6. QED BY <2>3, <2>4, <2>5 DEF IInv
  <1>4. CASE /\ upRead = upSent /\ cstate = "fin"
             /\ stage' = "tunnel" /\ UNCHANGED <<upRead, buf>>
    <2>1. TypeOK'
      BY <1>1, <1>4 DEF IInv, TypeOK, Stages, HelloLen
    <2>2. ControlInv'
      BY <1>1, <1>2, <1>4, LateControl DEF IInv, Late
    <2>3. WireInv'
      BY <1>1, <1>2, <1>4, Frame DEF IInv, WireInv, Early, Holding, Over
    <2>4. QED BY <2>1, <2>2, <2>3 DEF IInv
  <1>5. QED BY <1>3, <1>4 DEF ReadHello

(* The probe touches neither the buffer nor the stream.                    *)
LEMMA ProbeInv == IInv /\ InjectFakeTtlProbe => IInv'
  <1> SUFFICES ASSUME IInv, InjectFakeTtlProbe PROVE IInv' OBVIOUS
  <1> USE DEF inputs, lookup, client, remote, evasion, tunnel
  <1>1. /\ stage = "probe" /\ stage' = "send" /\ probe' \in {"sent", "failed"}
        /\ UNCHANGED <<inputs, lookup, resp, client, upRead, remote, buf, done,
                       split, delayed, wire, tunnel>>
    BY DEF InjectFakeTtlProbe
  <1>2. TypeOK' BY <1>1 DEF IInv, TypeOK, Stages, HelloLen
  <1>3. ControlInv' BY <1>1, LateControl DEF IInv, Late
  <1>4. WireInv' BY <1>1, Frame DEF IInv, WireInv, Early, Holding, Over
  <1>5. QED BY <1>2, <1>3, <1>4 DEF IInv

(* The pause between the records touches nothing.                          *)
LEMMA DelayInv == IInv /\ RandomDelay => IInv'
  <1> SUFFICES ASSUME IInv, RandomDelay PROVE IInv' OBVIOUS
  <1> USE DEF inputs, lookup, client, remote, evasion, tunnel
  <1>1. /\ stage = "delay" /\ stage' = "record2" /\ delayed' = TRUE
        /\ UNCHANGED <<inputs, lookup, resp, client, upRead, remote, buf, done,
                       split, probe, wire, tunnel>>
    BY DEF RandomDelay
  <1>2. TypeOK' BY <1>1 DEF IInv, TypeOK, Stages, HelloLen
  <1>3. ControlInv' BY <1>1, LateControl DEF IInv, Late
  <1>4. WireInv' BY <1>1, Frame DEF IInv, WireInv, Early, Holding, Over
  <1>5. QED BY <1>2, <1>3, <1>4 DEF IInv

(* An error return keeps what was written so far.                          *)
LEMMA IoErrorInv == IInv /\ IoError => IInv'
  <1> SUFFICES ASSUME IInv, IoError PROVE IInv' OBVIOUS
  <1> USE DEF inputs, lookup, client, remote, evasion, tunnel
  <1>1. /\ stage \in {"accepted", "connected", "hello", "tunnel", "send",
                      "fallback", "record2"}
        /\ stage' = "failed"
        /\ UNCHANGED <<inputs, lookup, resp, client, upRead, remote, evasion,
                       wire, tunnel>>
    BY DEF IoError
  <1>2. TypeOK' BY <1>1 DEF IInv, TypeOK, Stages, HelloLen
  <1>3. ControlInv'
    BY <1>1 DEF IInv, ControlInv, Early, Late, Over, ResponseMatchesOutcome,
       GuardedDial
  <1>4. WireInv' BY <1>1, Frame DEF IInv, WireInv, Early, Holding, Over
  <1>5. QED BY <1>2, <1>3, <1>4 DEF IInv

(* Every cut that may be drawn lies inside the name.                       *)
LEMMA SplitPointNat ==
    ASSUME TypeOK, CanCut, NEW point \in SplitPoints
    PROVE  /\ point \in Nat
           /\ point > req.flight.hostname_offset
           /\ point < req.flight.hostname_offset + req.flight.hostname_length
  <1>1. req.flight \in Flight /\ host.www \in BOOLEAN
    BY ConnectionAssumption DEF TypeOK, Request, Target
  <1>2. req.flight.hostname_length \in Nat /\ req.flight.hostname_offset \in Nat
    BY <1>1, U16Nat DEF Flight
  <1>3. PICK cut \in calculate_sni_cut_offset(req.flight.hostname_length, host.www) :
           point = req.flight.hostname_offset + cut
    BY DEF SplitPoints
  <1>4. req.flight.hostname_length > 4 BY DEF CanCut
  <1>5. cut \in 2 .. req.flight.hostname_length - 2
    BY <1>1, <1>2, <1>3, <1>4, CutInside
  <1>6. QED BY <1>2, <1>3, <1>5

(* A cut that fits makes two records: from the end of the header to the    *)
(* cut, and from the cut to the end of the raw record.                     *)
LEMMA RecordsShape ==
    ASSUME TypeOK, NEW point \in Nat, SplitFits(point)
    PROVE  Records(point) = <<TlsRecordSlice(buf.from + TLS_RECORD_HEADER_SIZE,
                                             buf.from + point),
                              TlsRecordSlice(buf.from + point, buf.from + RawLen)>>
  <1>1. RawLen \in Nat /\ HelloLen \in Nat BY RawLenBounds
  <1>2. ~(RawLen <= TLS_RECORD_HEADER_SIZE \/ point <= TLS_RECORD_HEADER_SIZE
          \/ point >= RawLen)
    BY <1>1 DEF SplitFits, TLS_RECORD_HEADER_SIZE
  <1>3. QED BY <1>2 DEF Records, fragment_at_offset

(* After record 1 the stream is a header and the bytes up to the cut.      *)
LEMMA SendRecord1Inv == IInv /\ SendRecord1 => IInv'
  <1> SUFFICES ASSUME IInv, SendRecord1 PROVE IInv' OBVIOUS
  <1> USE DEF inputs, lookup, client, remote, evasion, tunnel
  <1>1. /\ stage = "send" /\ CanCut /\ stage' \in {"delay", "record2"}
        /\ UNCHANGED <<inputs, lookup, resp, client, upRead, remote, buf, done,
                       probe, delayed, tunnel>>
    BY DEF SendRecord1
  <1>2. PICK point \in SplitPoints :
          /\ SplitFits(point) /\ split' = point
          /\ wire' = Put(Put(wire, Records(point)[1][1]), Records(point)[1][2])
    BY DEF SendRecord1
  <1>3. /\ TypeOK /\ NothingSent
        /\ buf.from < buf.to /\ buf.to = upRead
        /\ HelloLen <= CLIENT_HELLO_BUF_SIZE
    BY <1>1 DEF IInv, WireInv, Holding
  <1>4. point \in Nat BY <1>1, <1>2, <1>3, SplitPointNat
  <1> DEFINE a == buf.from + TLS_RECORD_HEADER_SIZE
             b == buf.from + point
  <1>5. buf.from \in Nat BY <1>3 DEF TypeOK, Interval
  <1>6. a \in Nat /\ b \in Nat /\ a <= b
    BY <1>2, <1>4, <1>5 DEF SplitFits, TLS_RECORD_HEADER_SIZE
  <1>7. Records(point)[1] = <<build_tls_header(a, b), Bytes(a, b)>>
    BY <1>2, <1>3, <1>4, RecordsShape DEF TlsRecordSlice
  <1>8. /\ Bytes(a, b) \in Segment /\ build_tls_header(a, b) \in Segment
        /\ build_tls_header(a, b).kind = "header"
    BY <1>6, SegmentTypes
  <1>9. wire' = <<build_tls_header(a, b), Bytes(a, b)>>
    <2>1. wire' = Put(Put(<< >>, build_tls_header(a, b)), Bytes(a, b))
      BY <1>2, <1>3, <1>7 DEF NothingSent
    <2>2. QED BY <2>1, <1>8, PutFirst, PutAfterHeader
  <1>10. HelloLen' = HelloLen /\ RawLen' = RawLen
    BY <1>1 DEF HelloLen, RawLen, SeenFlight, FlightAt
  <1>11. CutChosen'
    <2>1. CanCut' BY <1>1, <1>10 DEF CanCut, SeenFlight, FlightAt
    <2>2. SplitPoints' = SplitPoints BY <1>1 DEF SplitPoints
    <2>3. SplitFits(point)' BY <1>2, <1>10 DEF SplitFits
    <2>4. QED BY <1>2, <1>10, <2>1, <2>2, <2>3 DEF CutChosen, SplitFits
  <1>12. HalfCut'
    BY <1>1, <1>2, <1>3, <1>9, <1>11 DEF HalfCut, Header1, Part1, NothingSent
  <1>13. TypeOK'
    <2>1. wire' \in Seq(Segment) BY <1>8, <1>9
    <2>2. split' \in Nat BY <1>2, <1>4
    <2>3. QED BY <1>1, <1>10, <2>1, <2>2 DEF IInv, TypeOK, Stages
  <1>14. ControlInv' BY <1>1, LateControl DEF IInv, Late
  <1>15. WireInv'
    BY <1>1, <1>3, <1>10, <1>12 DEF WireInv, Early, Holding, Over
  <1>16. QED BY <1>13, <1>14, <1>15 DEF IInv

(* The raw record and the trailing data make up the buffer.                *)
LEMMA TrailingLen ==
    ASSUME TypeOK
    PROVE  /\ buf.from \in Nat /\ buf.to \in Nat /\ RawLen \in Nat
           /\ buf.from + RawLen <= buf.to
           /\ Trailing = Bytes(buf.from + RawLen, buf.to)
           /\ Trailing.len = buf.to - (buf.from + RawLen)
  BY RawLenBounds DEF TypeOK, Interval, HelloLen, Trailing, Bytes

(* After record 2 and the trailing data the whole buffer is sent.          *)
LEMMA SendRecord2Inv == IInv /\ SendRecord2 => IInv'
  <1> SUFFICES ASSUME IInv, SendRecord2 PROVE IInv' OBVIOUS
  <1> USE DEF inputs, lookup, client, remote, evasion, tunnel
  <1>1. /\ stage = "record2" /\ stage' = "tunnel"
        /\ UNCHANGED <<inputs, lookup, resp, client, upRead, remote, evasion,
                       tunnel>>
    BY DEF SendRecord2
  <1>2. /\ TypeOK /\ HalfCut /\ buf.to = upRead
        /\ HelloLen <= CLIENT_HELLO_BUF_SIZE
    BY <1>1 DEF IInv, WireInv, Holding
  <1>3. split \in Nat /\ SplitFits(split) /\ CutChosen /\ done = 0
    BY <1>2 DEF HalfCut, CutChosen, TypeOK
  <1> DEFINE a == buf.from + TLS_RECORD_HEADER_SIZE
             b == buf.from + split
             c == buf.from + RawLen
  <1>4. a \in Nat /\ b \in Nat /\ c \in Nat /\ a <= b /\ b <= c /\ c <= buf.to
        /\ buf.to \in Nat
    BY <1>2, <1>3, TrailingLen DEF SplitFits, TLS_RECORD_HEADER_SIZE
  <1>5. /\ Header1 \in Segment /\ Part1 \in Segment
        /\ Header2 = build_tls_header(b, c) /\ Header2 \in Segment
        /\ Header2.kind = "header"
        /\ Bytes(b, c) \in Segment /\ Bytes(b, buf.to) \in Segment
    BY <1>4, SegmentTypes DEF Header1, Part1, Header2
  <1>6. Records(split)[2] = <<Header2, Bytes(b, c)>> /\ Len(Records(split)) = 2
    BY <1>2, <1>3, <1>5, RecordsShape DEF TlsRecordSlice
  <1> DEFINE w == Put(Put(wire, Header2), Bytes(b, c))
  <1>7. w = <<Header1, Part1, Header2, Bytes(b, c)>>
    BY <1>2, <1>5, PutSecondHeader, PutAfterSecondHeader DEF HalfCut
  <1>8. wire' = IF Trailing.len > 0 THEN Put(w, Trailing) ELSE w
    BY <1>6 DEF SendRecord2
  <1> HIDE DEF w
  <1>9. wire' = <<Header1, Part1, Header2, Bytes(b, buf.to)>>
    <2>1. CASE Trailing.len > 0
      <3>1. wire' = Put(<<Header1, Part1, Header2, Bytes(b, c)>>, Bytes(c, buf.to))
        BY <1>2, <1>7, <1>8, <2>1, TrailingLen
      <3>2. Put(<<Header1, Part1, Header2, Bytes(b, c)>>, Bytes(c, buf.to))
              = <<Header1, Part1, Header2, Bytes(b, buf.to)>>
        BY <1>4, PutExtendsFourth
      <3>3. QED BY <3>1, <3>2
    <2>2. CASE ~(Trailing.len > 0)
      <3>1. c = buf.to BY <1>2, <1>4, <2>2, TrailingLen
      <3>2. QED BY <1>7, <1>8, <2>2, <3>1
    <2>3. QED BY <2>1, <2>2
  <1>10. HelloLen' = HelloLen /\ RawLen' = RawLen
    BY <1>1 DEF HelloLen, RawLen, SeenFlight, FlightAt
  <1>11. CutChosen'
    BY <1>1, <1>3, <1>10 DEF CutChosen, CanCut, SplitPoints, SplitFits,
       SeenFlight, FlightAt
  <1>12. FullCut'
    BY <1>1, <1>2, <1>3, <1>9, <1>10, <1>11 DEF FullCut, Header1, Part1, Header2
  <1>13. TypeOK'
    <2>1. wire' \in Seq(Segment) BY <1>5, <1>9
    <2>2. QED BY <1>1, <1>10, <2>1 DEF IInv, TypeOK, Stages
  <1>14. ControlInv' BY <1>1, LateControl DEF IInv, Late
  <1>15. WireInv'
    BY <1>1, <1>2, <1>10, <1>12 DEF WireInv, Early, Holding, Over
  <1>16. QED BY <1>13, <1>14, <1>15 DEF IInv

(* Each chunk of split_and_write continues the one before it.              *)
LEMMA SplitAndWriteInv == IInv /\ SplitAndWrite => IInv'
  <1> SUFFICES ASSUME IInv, SplitAndWrite PROVE IInv' OBVIOUS
  <1> USE DEF inputs, lookup, client, remote, evasion, tunnel
  <1>1. /\ stage \in {"send", "fallback"}
        /\ UNCHANGED <<inputs, lookup, resp, client, upRead, remote, buf, split,
                       probe, delayed, tunnel>>
    BY DEF SplitAndWrite
  <1>2. PICK draw \in ChunkSizes :
          /\ done' = done + chunk_size(draw)
          /\ wire' = Put(wire, Bytes(buf.from + done, buf.from + done'))
          /\ stage' = IF done' < RawLen THEN "fallback" ELSE "tunnel"
    BY DEF SplitAndWrite
  <1>3. /\ TypeOK /\ buf.from < buf.to /\ buf.to = upRead /\ split = 0
        /\ HelloLen <= CLIENT_HELLO_BUF_SIZE
        /\ NothingSent \/ (Falling /\ done < RawLen)
    BY <1>1 DEF IInv, WireInv, Holding, NothingSent, Falling
  <1>4. done \in Nat /\ RawLen \in 0 .. HelloLen /\ done < RawLen
        /\ HelloLen \in Nat /\ buf.from \in Nat
    BY <1>3, RawLenBounds DEF TypeOK, NothingSent, Interval
  <1>5. draw \in Nat \ {0} BY ConnectionAssumption
  <1>6. done' \in 1 .. RawLen /\ done' > done
    BY <1>2, <1>4, <1>5 DEF chunk_size, Smaller
  <1>7. wire' = <<Bytes(buf.from, buf.from + done')>>
    <2>1. CASE NothingSent
      BY <1>2, <1>4, <2>1, PutFirst DEF NothingSent
    <2>2. CASE Falling
      BY <1>2, <1>4, <1>6, <2>2, PutExtends DEF Falling
    <2>3. QED BY <1>3, <2>1, <2>2
  <1>8. HelloLen' = HelloLen /\ RawLen' = RawLen
    BY <1>1 DEF HelloLen, RawLen, SeenFlight, FlightAt
  <1>9. Falling'
    BY <1>1, <1>3, <1>6, <1>7, <1>8 DEF Falling
  <1>10. TypeOK'
    <2>1. Bytes(buf.from, buf.from + done') \in Segment
      BY <1>4, <1>6, SegmentTypes
    <2>2. wire' \in Seq(Segment) BY <1>7, <2>1
    <2>3. done' \in 0 .. HelloLen' BY <1>4, <1>6, <1>8
    <2>4. stage' \in Stages BY <1>2 DEF Stages
    <2>5. QED BY <1>1, <2>2, <2>3, <2>4 DEF IInv, TypeOK
  <1>11. ControlInv' BY <1>1, <1>2, LateControl DEF IInv, Late
  <1>12. WireInv'
    <2>1. CASE done' < RawLen
      BY <1>1, <1>2, <1>3, <1>8, <1>9, <2>1 DEF WireInv, Early, Holding, Over
    <2>2. CASE done' = RawLen
      <3>1. RawLen' = done' /\ upRead' = buf'.to BY <1>1, <1>3, <1>8, <2>2
      <3>2. stage' = "tunnel" BY <1>2, <1>4, <2>2
      <3>3. QED
        BY <1>3, <1>8, <1>9, <3>1, <3>2 DEF WireInv, Early, Holding, Over
    <2>3. QED BY <1>4, <1>6, <2>1, <2>2
  <1>13. QED BY <1>10, <1>11, <1>12 DEF IInv

(* The relay continues the stream where the first flight ended.            *)
LEMMA CopyUpInv == IInv /\ CopyUp => IInv'
  <1> SUFFICES ASSUME IInv, CopyUp PROVE IInv' OBVIOUS
  <1> USE DEF inputs, lookup, client, remote, evasion, tunnel
  <1>1. /\ stage = "tunnel" /\ upRead < upSent /\ upRead' = upSent
        /\ wire' = Put(wire, Bytes(upRead, upSent))
        /\ UNCHANGED <<inputs, stage, lookup, resp, client, remote, evasion, tunnel>>
    BY DEF CopyUp
  <1>2. /\ TypeOK /\ HelloLen <= CLIENT_HELLO_BUF_SIZE
        /\ \/ Falling /\ done = RawLen /\ upRead = buf.to
           \/ Followed /\ upRead > buf.to
           \/ FullCut
    BY <1>1 DEF IInv, WireInv, TypeOK
  <1>3. /\ upRead \in Nat /\ upSent \in Nat /\ upRead < upSent /\ buf.to <= upRead
        /\ split \in Nat
    BY <1>1, <1>2 DEF TypeOK
  <1>4. HelloLen' = HelloLen /\ RawLen' = RawLen /\ Trailing' = Trailing
    BY <1>1 DEF HelloLen, RawLen, SeenFlight, FlightAt, Trailing
  <1> DEFINE c == buf.from + RawLen
  <1>5. buf.from \in Nat /\ buf.to \in Nat /\ RawLen \in Nat /\ c \in Nat
        /\ buf.from <= c /\ c <= buf.to /\ Trailing.len = buf.to - c
    BY <1>2, TrailingLen
  <1>6. ASSUME Falling /\ done = RawLen /\ upRead = buf.to
        PROVE  Followed' \/ FullCut'
    <2>1. wire' = Put(<<Bytes(buf.from, c)>>, Bytes(buf.to, upSent))
      BY <1>1, <1>6 DEF Falling
    <2>2. CASE Trailing.len = 0
      <3>1. c = buf.to BY <1>5, <2>2
      <3>2. wire' = <<Bytes(buf.from, upSent)>>
        BY <1>3, <1>5, <2>1, <3>1, PutExtends
      <3>3. Followed' BY <1>1, <1>4, <1>6, <2>2, <3>2 DEF Followed, Falling
      <3>4. Bytes(buf.from, upSent) \in Segment
        BY <1>3, <1>5, SegmentTypes
      <3>5. QED BY <3>2, <3>3, <3>4
    <2>3. CASE Trailing.len # 0
      <3>1. c < buf.to BY <1>5, <2>3
      <3>2. wire' = <<Bytes(buf.from, c), Bytes(buf.to, upSent)>>
        BY <1>3, <1>5, <1>6, <2>1, <3>1, PutGap
      <3>3. Followed' BY <1>1, <1>4, <1>6, <2>3, <3>2 DEF Followed, Falling
      <3>4. Bytes(buf.from, c) \in Segment /\ Bytes(buf.to, upSent) \in Segment
        BY <1>3, <1>5, <1>6, SegmentTypes
      <3>5. QED BY <3>2, <3>3, <3>4
    <2>4. QED BY <2>2, <2>3
  <1>7. ASSUME Followed /\ upRead > buf.to
        PROVE  Followed' \/ FullCut'
    <2>1. CASE Trailing.len = 0
      <3>1. wire' = Put(<<Bytes(buf.from, upRead)>>, Bytes(upRead, upSent))
        BY <1>1, <1>7, <2>1 DEF Followed
      <3>2. wire' = <<Bytes(buf.from, upSent)>>
        BY <1>3, <1>5, <3>1, PutExtends
      <3>3. Followed' BY <1>1, <1>4, <1>7, <2>1, <3>2 DEF Followed
      <3>4. QED BY <3>3
    <2>2. CASE Trailing.len # 0
      <3>1. wire' = Put(<<Bytes(buf.from, c), Bytes(buf.to, upRead)>>,
                        Bytes(upRead, upSent))
        BY <1>1, <1>7, <2>2 DEF Followed
      <3>2. wire' = <<Bytes(buf.from, c), Bytes(buf.to, upSent)>>
        <4>0. buf.to \in Nat /\ upRead \in Nat /\ upSent \in Nat BY <1>3, <1>5
        <4>1. Put(<<Bytes(buf.from, c), Bytes(buf.to, upRead)>>, Bytes(upRead, upSent))
                = <<Bytes(buf.from, c), Bytes(buf.to, upSent)>>
          BY <4>0, PutExtendsSecond, Zenon
        <4>2. QED BY <3>1, <4>1
      <3>3. Followed' BY <1>1, <1>4, <1>7, <2>2, <3>2 DEF Followed
      <3>4. QED BY <3>3
    <2>3. QED BY <2>1, <2>2
  <1>8. ASSUME FullCut
        PROVE  Followed' \/ FullCut'
    <2>1. wire' = Put(<<Header1, Part1, Header2, Bytes(buf.from + split, upRead)>>,
                      Bytes(upRead, upSent))
      BY <1>1, <1>8 DEF FullCut
    <2>2. buf.from + split \in Nat BY <1>3, <1>5
    <2>3. wire' = <<Header1, Part1, Header2, Bytes(buf.from + split, upSent)>>
      BY <1>3, <2>1, <2>2, PutExtendsFourth
    <2>4. CutChosen'
      BY <1>1, <1>4, <1>8 DEF FullCut, CutChosen, CanCut, SplitPoints, SplitFits,
         SeenFlight, FlightAt
    <2>5. QED
      BY <1>1, <1>4, <1>8, <2>3, <2>4 DEF FullCut, Header1, Part1, Header2
  <1>9. Followed' \/ FullCut' BY <1>2, <1>6, <1>7, <1>8
  <1>10. wire' \in Seq(Segment)
    <2>1. CASE Followed'
      <3>1. CASE Trailing'.len = 0
        <4>1. wire' = <<Bytes(buf.from, upSent)>>
          BY <1>1, <2>1, <3>1 DEF Followed
        <4>2. Bytes(buf.from, upSent) \in Segment
          BY <1>3, <1>5, SegmentTypes
        <4>3. QED BY <4>1, <4>2
      <3>2. CASE Trailing'.len # 0
        <4>1. wire' = <<Bytes(buf.from, c), Bytes(buf.to, upSent)>>
          BY <1>1, <1>4, <2>1, <3>2 DEF Followed
        <4>2. Bytes(buf.from, c) \in Segment /\ Bytes(buf.to, upSent) \in Segment
          BY <1>3, <1>5, SegmentTypes
        <4>3. QED BY <4>1, <4>2
      <3>3. QED BY <3>1, <3>2
    <2>2. CASE FullCut'
      <3>1. SplitFits(split) BY <1>1, <1>4, <2>2 DEF FullCut, CutChosen, SplitFits
      <3> DEFINE a == buf.from + TLS_RECORD_HEADER_SIZE
                 b == buf.from + split
      <3>2. a \in Nat /\ b \in Nat /\ a <= b /\ b <= c /\ b <= upSent
        BY <1>3, <1>5, <3>1 DEF SplitFits, TLS_RECORD_HEADER_SIZE
      <3>3. wire' = <<build_tls_header(a, b), Bytes(a, b), build_tls_header(b, c),
                      Bytes(b, upSent)>>
        BY <1>1, <1>4, <2>2 DEF FullCut, Header1, Part1, Header2
      <3>4. /\ build_tls_header(a, b) \in Segment /\ Bytes(a, b) \in Segment
            /\ build_tls_header(b, c) \in Segment /\ Bytes(b, upSent) \in Segment
        BY <1>3, <1>5, <3>2, SegmentTypes
      <3>5. QED BY <3>3, <3>4
    <2>3. QED BY <1>9, <2>1, <2>2
  <1>11. TypeOK'
    <2>1. upRead' \in 0 .. upSent' /\ buf'.to <= upRead' BY <1>1, <1>3, <1>5
    <2>2. QED BY <1>1, <1>2, <1>4, <1>10, <2>1 DEF TypeOK
  <1>12. ControlInv' BY <1>1, LateControl DEF IInv, Late
  <1>13. WireInv'
    <2>1. upRead' > buf'.to BY <1>1, <1>3, <1>5
    <2>2. QED BY <1>1, <1>2, <1>4, <1>9, <2>1 DEF WireInv, Early, Holding, Over
  <1>14. QED BY <1>11, <1>12, <1>13 DEF IInv

(* The downlink and the shutdowns leave the uplink alone.                  *)
LEMMA RelayInv == IInv /\ (CopyDown \/ ShutdownUp \/ ShutdownDown) => IInv'
  <1> SUFFICES ASSUME IInv, CopyDown \/ ShutdownUp \/ ShutdownDown PROVE IInv'
    OBVIOUS
  <1> USE DEF inputs, lookup, client, remote, evasion, tunnel
  <1>1. /\ stage = "tunnel" /\ stage' \in {"tunnel", "done"}
        /\ UNCHANGED <<inputs, lookup, resp, client, upRead, remote, evasion, wire>>
        /\ downFwd' \in {downFwd, downSent}
        /\ upDone' \in {upDone, TRUE} /\ downDone' \in {downDone, TRUE}
    BY DEF CopyDown, ShutdownUp, ShutdownDown
  <1>2. TypeOK'
    <2>1. upDone' \in BOOLEAN /\ downDone' \in BOOLEAN
      BY <1>1, Zenon DEF IInv, TypeOK
    <2>2. downFwd' \in 0 .. downSent' BY <1>1 DEF IInv, TypeOK
    <2>3. stage' \in Stages /\ HelloLen' = HelloLen
      BY <1>1 DEF Stages, HelloLen
    <2>4. QED BY <1>1, <2>1, <2>2, <2>3 DEF IInv, TypeOK
  <1>3. ControlInv' BY <1>1, LateControl DEF IInv, Late, Over
  <1>4. WireInv' BY <1>1, Frame DEF IInv, WireInv, Early, Holding, Over
  <1>5. QED BY <1>2, <1>3, <1>4 DEF IInv

-----------------------------------------------------------------------------

(* Every step of task and environment keeps the invariant.                 *)
LEMMA NextInv == IInv /\ [Next]_vars => IInv'
  <1> SUFFICES ASSUME IInv, [Next]_vars PROVE IInv' OBVIOUS
  <1>1. CASE Task
    BY <1>1, DispatchInv, LookupInv, DialInv, EstablishedInv, ReadHelloInv,
       ProbeInv, SendRecord1Inv, DelayInv, SendRecord2Inv, SplitAndWriteInv,
       CopyUpInv, RelayInv, IoErrorInv DEF Task
  <1>2. CASE UNCHANGED vars
    <2> USE DEF vars, inputs, lookup, client, remote, evasion, tunnel
    <2>1. TypeOK' BY <1>2 DEF IInv, TypeOK, HelloLen
    <2>2. ControlInv'
      BY <1>2 DEF IInv, ControlInv, Early, Late, Over, ResponseMatchesOutcome,
         GuardedDial
    <2>3. WireInv'
      BY <1>2, Frame DEF IInv, WireInv, Early, Holding, Over
    <2>4. QED BY <2>1, <2>2, <2>3 DEF IInv
  <1>3. QED BY <1>1, <1>2, EnvironmentInv DEF Next, Ended

(* The inductive invariant holds in every reachable state, whatever the    *)
(* clients ask for and however their bytes arrive.                         *)
THEOREM Inductive == Spec => []IInv
  <1>1. QED BY InitInv, NextInv, PTL DEF Spec

(* Every length and offset handle_connect_tunnel computes stays in range.  *)
THEOREM TypeCorrect == Spec => []TypeOK
  <1>1. IInv => TypeOK BY DEF IInv
  <1>2. QED BY Inductive, <1>1, PTL

(* One status line per client, a 200 only after a successful dial, and no  *)
(* tunnel, probe or dialled socket behind an error status.                 *)
THEOREM ResponsesMatch == Spec => []ResponseMatchesOutcome
  <1>1. IInv => ResponseMatchesOutcome BY DEF IInv, ControlInv
  <1>2. QED BY Inductive, <1>1, PTL

(* The two loopback guards of handle_connect_tunnel cover every path: no   *)
(* lookup leads to a socket on an address that their tests recognise.  Of  *)
(* IPv4 loopback addresses written as IPv6 ones this says nothing: those   *)
(* the tests take for public ones, and they are dialled.                   *)
THEOREM RecognisedNeverDialled == Spec => []GuardedDial
  <1>1. IInv => GuardedDial BY DEF IInv, ControlInv
  <1>2. QED BY Inductive, <1>1, PTL

(* Every cut transmit_tls_records is given falls strictly inside the name. *)
THEOREM NameAlwaysCut == Spec => []NameIsCut
  <1>1. IInv => NameIsCut
    <2> SUFFICES ASSUME IInv, split # 0 PROVE NameIsCut BY DEF NameIsCut
    <2>1. CutChosen
      BY DEF IInv, WireInv, TypeOK, Stages, Early, Over, NothingSent, Falling,
         Followed, HalfCut, FullCut
    <2>2. QED BY <2>1, SplitPointNat DEF CutChosen, NameIsCut, IInv
  <1>2. QED BY Inductive, <1>1, PTL

-----------------------------------------------------------------------------

(* In every stage the remote's stream has one of five shapes.              *)
LEMMA StreamShapes ==
    ASSUME IInv
    PROVE  NothingSent \/ Falling \/ Followed \/ HalfCut \/ FullCut
  BY DEF IInv, WireInv, TypeOK, Stages, Early, Over

(* The two synthesised headers announce together what the client's own     *)
(* header announced, if the buffer held that record whole.                 *)
LEMMA AnnouncedLengths ==
    ASSUME IInv, CutChosen,
           TLS_RECORD_HEADER_SIZE + req.flight.payload_len <= HelloLen
    PROVE  Header1.len + Header2.len = req.flight.payload_len
  <1>1. TypeOK /\ HelloLen <= CLIENT_HELLO_BUF_SIZE BY DEF IInv, WireInv
  <1>2. req.flight.payload_len \in Nat /\ RawLen \in 0 .. HelloLen
        /\ HelloLen \in Nat /\ buf.from \in Nat
    BY <1>1, RawLenBounds, TrailingLen
  <1>3. req.flight \in Flight /\ req \in Requests
    BY ConnectionAssumption DEF IInv, TypeOK, Request
  <1>4. /\ SeenFlight.payload_len = req.flight.payload_len
        /\ SeenFlight.hello => req.flight.hello
    BY <1>3 DEF SeenFlight, FlightAt, Flight
  <1>5. SeenFlight.hello /\ RawLen >= 6
    BY DEF CutChosen, CanCut, find_sni_info, is_client_hello
  <1>6. req.flight.payload_len > 0
    BY <1>3, <1>4, <1>5, ConnectionAssumption
  <1>7. RawLen = TLS_RECORD_HEADER_SIZE + req.flight.payload_len
    <2> DEFINE rec_len == TLS_RECORD_HEADER_SIZE + req.flight.payload_len
    <2>1. rec_len \in Nat /\ rec_len > TLS_RECORD_HEADER_SIZE /\ rec_len <= HelloLen
      BY <1>2, <1>6 DEF TLS_RECORD_HEADER_SIZE
    <2>2. CASE HelloLen > rec_len
      <3>1. is_client_hello(SeenFlight, HelloLen)
        BY <1>2, <1>5 DEF is_client_hello
      <3>2. QED
        BY <1>4, <2>1, <2>2, <3>1 DEF RawLen, extract_first_tls_record
    <2>3. CASE HelloLen = rec_len
      <3>1. ~(HelloLen > rec_len) BY <2>1, <2>3
      <3>2. RawLen = HelloLen
        BY <1>4, <3>1 DEF RawLen, extract_first_tls_record
      <3>3. QED BY <2>3, <3>2
    <2>4. QED BY <1>2, <2>1, <2>2, <2>3
  <1>8. split \in Nat /\ split > TLS_RECORD_HEADER_SIZE /\ split < RawLen
    BY <1>1 DEF CutChosen, SplitFits, TypeOK
  <1>12. split < CLIENT_HELLO_BUF_SIZE
    BY <1>1, <1>2, <1>8 DEF CLIENT_HELLO_BUF_SIZE
  <1>9. Header1.len = split - TLS_RECORD_HEADER_SIZE
    <2>1. Header1.len = ((buf.from + split) - (buf.from + TLS_RECORD_HEADER_SIZE)) % U16
      BY DEF Header1, build_tls_header
    <2>2. (buf.from + split) - (buf.from + TLS_RECORD_HEADER_SIZE)
            = split - TLS_RECORD_HEADER_SIZE
      BY <1>2, <1>8 DEF TLS_RECORD_HEADER_SIZE
    <2>3. split - TLS_RECORD_HEADER_SIZE \in Nat
          /\ split - TLS_RECORD_HEADER_SIZE < U16
      BY <1>8, <1>12 DEF TLS_RECORD_HEADER_SIZE, U16, CLIENT_HELLO_BUF_SIZE
    <2>4. QED BY <2>1, <2>2, <2>3, ModSmall
  <1>10. Header2.len = RawLen - split
    <2>1. Header2.len = ((buf.from + RawLen) - (buf.from + split)) % U16
      BY DEF Header2, build_tls_header
    <2>2. (buf.from + RawLen) - (buf.from + split) = RawLen - split
      BY <1>2, <1>8
    <2>3. RawLen - split \in Nat /\ RawLen - split < U16
      BY <1>1, <1>2, <1>8 DEF TLS_RECORD_HEADER_SIZE, U16, CLIENT_HELLO_BUF_SIZE
    <2>4. QED BY <2>1, <2>2, <2>3, ModSmall
  <1>11. QED
    BY <1>2, <1>7, <1>8, <1>9, <1>10 DEF TLS_RECORD_HEADER_SIZE

(* The remote's stream is the client's tunnel stream: it starts at its     *)
(* first byte, has no gap but the trailing data split_and_write leaves out,*)
(* and re-framed records announce exactly what the client's record did.    *)
THEOREM StreamFaithful == Spec => []TunnelFaithful
  <1>1. IInv => TunnelFaithful
    <2> SUFFICES ASSUME IInv PROVE TunnelFaithful OBVIOUS
    <2> USE DEF TunnelFaithful, StartsAt, Unbroken, After
    <2>0. TypeOK BY DEF IInv
    <2>1. CASE NothingSent
      BY <2>1 DEF NothingSent
    <2>2. CASE wire = <<Bytes(buf.from, buf.from + done)>>
      BY <2>2 DEF Bytes
    <2>3. CASE Followed
      <3>1. CASE Trailing.len = 0
        BY <2>3, <3>1 DEF Followed, Bytes
      <3>2. CASE Trailing.len # 0
        <4>1. wire = <<Bytes(buf.from, buf.from + RawLen), Bytes(buf.to, upRead)>>
          BY <2>3, <3>2 DEF Followed
        <4>2. Trailing.len > 0 BY <2>0, <3>2, TrailingLen
        <4>3. InFallback BY <2>3, <4>1 DEF InFallback, Followed
        <4>4. QED BY <4>1, <4>2, <4>3 DEF Bytes
      <3>3. QED BY <3>1, <3>2
    <2>4. CASE HalfCut
      BY <2>4 DEF HalfCut, Header1, Part1, build_tls_header, Bytes
    <2>5. CASE FullCut
      <3> DEFINE last == Bytes(buf.from + split, upRead)
      <3>1. wire = <<Header1, Part1, Header2, last>> /\ CutChosen
        BY <2>5 DEF FullCut
      <3>2. /\ Header1.kind = "header" /\ Header2.kind = "header"
            /\ Header1.from = buf.from + TLS_RECORD_HEADER_SIZE
            /\ Header1.to = buf.from + split
            /\ Part1.kind = "bytes" /\ Part1.from = Header1.from
            /\ Part1.to = buf.from + split
            /\ Header2.from = buf.from + split
            /\ last.from = buf.from + split
        BY DEF Header1, Part1, Header2, build_tls_header, Bytes
      <3> HIDE DEF last
      <3>3. /\ Len(wire) = 4 /\ wire # << >>
            /\ wire[1] = Header1 /\ wire[2] = Part1 /\ wire[3] = Header2
            /\ wire[4] = last
        BY <3>1
      <3>4. buf.from = req.head_end => StartsAt(wire, req.head_end)
        BY <3>2, <3>3
      <3>5. Unbroken(wire)
        <4>1. \A i \in 1 .. 3 : i = 1 \/ i = 2 \/ i = 3 OBVIOUS
        <4>2. wire[2].from = After(wire[1]) /\ wire[3].from = After(wire[2])
              /\ wire[4].from = After(wire[3])
          BY <3>2, <3>3
        <4>3. QED BY <3>3, <4>1, <4>2
      <3>6. QED BY <3>1, <3>2, <3>3, <3>4, <3>5, AnnouncedLengths
    <2>6. QED BY <2>1, <2>2, <2>3, <2>4, <2>5, StreamShapes DEF Falling
  <1>2. QED BY Inductive, <1>1, PTL
=============================================================================
