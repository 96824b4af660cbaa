--------------------------- MODULE SessionProofs ----------------------------
(* What a connection promises from outside, for every set of requests and  *)
(* every configuration: it keeps the safety part of Session; its relay     *)
(* half-closes in order and ends cleanly only when all went through; and   *)
(* its evasion of the first flight keeps its order.                        *)
EXTENDS ConnectionProofs

(* Nothing of the remote's is passed on before the relay starts.           *)
QuietInv == stage \notin {"tunnel", "done", "failed"} => downFwd = 0

(* The relay is entered once, and only the relay writes to the client.     *)
LEMMA QuietStep == QuietInv /\ [Next]_vars => QuietInv'
  <1> SUFFICES ASSUME QuietInv, [Next]_vars PROVE QuietInv' OBVIOUS
  <1> USE DEF QuietInv, tunnel
  <1>1. CASE Environment
    BY <1>1 DEF Environment, ClientSends, ClientHalfCloses, ClientResets,
                RemoteSends, RemoteHalfCloses, RemoteResets
  <1>2. CASE ActiveProbeDefense \/ PlaintextRedirect \/ ConnectRequest
    BY <1>2 DEF ActiveProbeDefense, PlaintextRedirect, ConnectRequest, ReadsRequest
  <1>3. CASE ClientLeft \/ Resolve \/ SystemLookup
    BY <1>3 DEF ClientLeft, Resolve, SystemLookup
  <1>4. CASE Dial \/ Established
    BY <1>4 DEF Dial, Established
  <1>5. CASE ReadHello \/ InjectFakeTtlProbe \/ RandomDelay
    BY <1>5 DEF ReadHello, InjectFakeTtlProbe, RandomDelay
  <1>6. CASE SendRecord1 \/ SendRecord2
    BY <1>6 DEF SendRecord1, SendRecord2
  <1>7. CASE SplitAndWrite
    BY <1>7 DEF SplitAndWrite
  <1>8. CASE CopyUp \/ CopyDown
    BY <1>8 DEF CopyUp, CopyDown
  <1>9. CASE ShutdownUp \/ ShutdownDown \/ IoError
    BY <1>9 DEF ShutdownUp, ShutdownDown, IoError
  <1>10. CASE UNCHANGED vars
    BY <1>10 DEF vars
  <1>11. QED
    BY <1>1, <1>2, <1>3, <1>4, <1>5, <1>6, <1>7, <1>8, <1>9, <1>10
       DEF Next, Task, Ended

-----------------------------------------------------------------------------
(* How far the remote's stream reaches, for each shape it can have.        *)

(* A position is an offset in the client's stream.                         *)
LEMMA PositionNat == TypeOK => Position \in Nat
  <1> SUFFICES ASSUME TypeOK PROVE Position \in Nat OBVIOUS
  <1>1. CASE wire = << >> BY <1>1 DEF Position
  <1>2. CASE wire # << >>
    <2>1. wire \in Seq(Segment) BY DEF TypeOK
    <2>2. Len(wire) \in 1 .. Len(wire) BY <1>2, <2>1
    <2>3. wire[Len(wire)] \in Segment BY <2>1, <2>2
    <2>4. QED BY <1>2, <2>3 DEF Position, After, Segment
  <1>3. QED BY <1>1, <1>2

(* split_and_write has written done bytes of the buffer.                   *)
LEMMA PositionFalling == ASSUME Falling PROVE Position = buf.from + done
  <1>1. wire # << >> /\ Len(wire) = 1 /\ wire[1] = Bytes(buf.from, buf.from + done)
    BY DEF Falling
  <1>2. QED BY <1>1 DEF Position, After, Bytes

(* Record 1 reaches to the cut.                                            *)
LEMMA PositionHalf == ASSUME HalfCut PROVE Position = buf.from + split
  <1>1. wire # << >> /\ Len(wire) = 2 /\ wire[2] = Part1 BY DEF HalfCut
  <1>2. QED BY <1>1 DEF Position, After, Part1, Bytes

(* After both records, or after the fallback, the stream has all that was  *)
(* read.                                                                   *)
LEMMA PositionRelay == Followed \/ FullCut => Position = upRead
  <1>1. CASE FullCut
    <2>1. wire # << >> /\ Len(wire) = 4 /\ wire[4] = Bytes(buf.from + split, upRead)
      BY <1>1 DEF FullCut
    <2>2. QED BY <2>1 DEF Position, After, Bytes
  <1>2. CASE Followed
    <2>1. CASE Trailing.len = 0
      <3>1. wire # << >> /\ Len(wire) = 1 /\ wire[1] = Bytes(buf.from, upRead)
        BY <1>2, <2>1 DEF Followed
      <3>2. QED BY <3>1 DEF Position, After, Bytes
    <2>2. CASE Trailing.len # 0
      <3>1. wire # << >> /\ Len(wire) = 2 /\ wire[2] = Bytes(buf.to, upRead)
        BY <1>2, <2>2 DEF Followed
      <3>2. QED BY <3>1 DEF Position, After, Bytes
    <2>3. QED BY <2>1, <2>2
  <1>3. QED BY <1>1, <1>2

(* The two facts above hold after a step as well.                          *)
LEMMA PositionNext ==
    /\ TypeOK' => Position' \in Nat
    /\ Followed' \/ FullCut' => Position' = upRead'
  <1>1. (TypeOK => Position \in Nat)' BY PositionNat, PTL
  <1>2. (Followed \/ FullCut => Position = upRead)' BY PositionRelay, PTL
  <1>3. QED BY <1>1, <1>2

(* Writing never leaves the stream empty.                                  *)
LEMMA PutSome ==
    ASSUME NEW w \in Seq(Segment), NEW s \in Segment
    PROVE  Put(w, s) # << >>
  <1>1. CASE w = << >> BY <1>1 DEF Put
  <1>2. CASE w # << >>
    <2> DEFINE n == Len(w)
               grown == [w EXCEPT ![n] = Bytes(w[n].from, s.to)]
    <2>1. Len(Append(w, s)) # 0 BY <1>2
    <2>2. n \in DOMAIN w BY <1>2
    <2>3. n \in DOMAIN grown BY <2>2
    <2>4. DOMAIN << >> = {} OBVIOUS
    <2>5. grown # << >> BY <2>3, <2>4
    <2>6. QED BY <2>1, <2>5 DEF Put
  <1>3. QED BY <1>1, <1>2

(* In the relay nothing beyond what was read has been written.             *)
LEMMA PositionInTunnel ==
    ASSUME IInv, stage = "tunnel"
    PROVE  Position \in Nat /\ Position <= upRead
  <1>0. TypeOK /\ Position \in Nat BY PositionNat DEF IInv
  <1>1. CASE NothingSent
    BY <1>0, <1>1 DEF NothingSent, Position, TypeOK
  <1>2. CASE Falling /\ done = RawLen /\ upRead = buf.to
    BY <1>0, <1>2, PositionFalling, TrailingLen
  <1>3. CASE Followed \/ FullCut
    BY <1>0, <1>3, PositionRelay DEF TypeOK
  <1>4. QED BY <1>0, <1>1, <1>2, <1>3 DEF IInv, WireInv

-----------------------------------------------------------------------------
(* Every step of the connection is a step of Session or leaves it as it is.*)

(* The phase of each stage.                                                *)
LEMMA PhaseOf ==
    /\ stage = "accepted" => Phase = "request"
    /\ stage \in {"resolve", "system"} => Phase = "lookup"
    /\ stage \in {"dial", "connected"} => Phase = "dial"
    /\ stage = "probe" => Phase = "probe"
    /\ Over => Phase = "closed"
    /\ stage \in {"hello", "send", "fallback", "delay", "record2", "tunnel"}
           => Phase = "tunnel"
  BY DEF Phase, Over

(* The phase of each stage, after the step.                                *)
LEMMA PhaseOfNext ==
    /\ stage' = "accepted" => Phase' = "request"
    /\ stage' \in {"resolve", "system"} => Phase' = "lookup"
    /\ stage' \in {"dial", "connected"} => Phase' = "dial"
    /\ stage' = "probe" => Phase' = "probe"
    /\ Over' => Phase' = "closed"
    /\ stage' \in {"hello", "send", "fallback", "delay", "record2", "tunnel"}
           => Phase' = "tunnel"
  BY DEF Phase, Over

(* The peers change the phase, the answer and the relayed data of nobody.  *)
LEMMA EnvironmentSession == Environment => [Se!Next]_(Se!vars)
  <1> SUFFICES ASSUME Environment PROVE [Se!Next]_(Se!vars) OBVIOUS
  <1>1. UNCHANGED <<stage, resp, wire, downFwd>>
    BY DEF Environment, ClientSends, ClientHalfCloses, ClientResets, RemoteSends,
           RemoteHalfCloses, RemoteResets, tunnel
  <1>2. UNCHANGED <<Phase, Position>> BY <1>1 DEF Phase, Over, Position
  <1>3. cstate' = cstate \/ cstate' # "open"
    BY DEF Environment, ClientSends, ClientHalfCloses, ClientResets, RemoteSends,
           RemoteHalfCloses, RemoteResets, client
  <1>4. CASE cstate = "open" /\ cstate' # "open"
    BY <1>1, <1>2, <1>4 DEF Se!Next, Se!ClientLeaves
  <1>5. CASE ~(cstate = "open" /\ cstate' # "open")
    <2>1. (cstate' = "open") = (cstate = "open") BY <1>3, <1>5
    <2>2. QED BY <1>1, <1>2, <2>1 DEF Se!vars
  <1>6. QED BY <1>4, <1>5

(* A refusal, if the client is still there to read it.                     *)
LEMMA AnswerSession ==
    ASSUME NEW from \in {"request", "lookup", "dial"}, Phase = from,
           NEW statuses, NEW status \in statuses, Answer(status),
           UNCHANGED <<cstate, wire, downFwd>>
    PROVE  Se!Refuse(from, statuses) \/ Se!Drop
  <1>1. Phase' = "closed" BY PhaseOfNext DEF Answer, Over
  <1>2. Position' = Position BY DEF Position
  <1>3. CASE cstate # "reset"
    BY <1>1, <1>2, <1>3 DEF Answer, Se!Refuse
  <1>4. CASE cstate = "reset"
    BY <1>1, <1>2, <1>4 DEF Answer, Se!Drop, Se!Move
  <1>5. QED BY <1>3, <1>4

(* The request is refused or looked up, or the client had left.            *)
LEMMA DispatchSession ==
    ActiveProbeDefense \/ PlaintextRedirect \/ ConnectRequest \/ ClientLeft
        => [Se!Next]_(Se!vars)
  <1> SUFFICES ASSUME ActiveProbeDefense \/ PlaintextRedirect
                          \/ ConnectRequest \/ ClientLeft
               PROVE  [Se!Next]_(Se!vars)
    OBVIOUS
  <1>1. /\ stage = "accepted" /\ Phase = "request"
        /\ UNCHANGED <<cstate, wire, downFwd>>
    BY PhaseOf DEF ActiveProbeDefense, PlaintextRedirect, ConnectRequest,
                   ClientLeft, ReadsRequest, client, tunnel
  <1>2. Position' = Position BY <1>1 DEF Position
  <1>3. ASSUME NEW status \in Se!Refusals, Answer(status)
        PROVE  [Se!Next]_(Se!vars)
    BY <1>1, <1>3, AnswerSession DEF Se!Next
  <1>4. CASE ActiveProbeDefense \/ PlaintextRedirect
    BY <1>3, <1>4 DEF ActiveProbeDefense, PlaintextRedirect, Se!Refusals
  <1>5. CASE ConnectRequest
    <2>1. \/ Answer(400) \/ Answer(403)
          \/ stage' = "resolve" /\ UNCHANGED resp
      BY <1>5 DEF ConnectRequest
    <2>2. CASE stage' = "resolve" /\ UNCHANGED resp
      BY <1>1, <1>2, <2>2, PhaseOfNext DEF Se!Next, Se!Move
    <2>3. QED BY <1>3, <2>1, <2>2 DEF Se!Refusals
  <1>6. CASE ClientLeft
    BY <1>1, <1>2, <1>6, PhaseOfNext DEF ClientLeft, Over, Se!Next, Se!Drop, Se!Move
  <1>7. QED BY <1>4, <1>5, <1>6

(* Look-ups and the dial end in a refusal or lead on.                      *)
LEMMA DialSession ==
    ASSUME IInv
    PROVE  Resolve \/ SystemLookup \/ Dial \/ Established => [Se!Next]_(Se!vars)
  <1> SUFFICES ASSUME Resolve \/ SystemLookup \/ Dial \/ Established
               PROVE  [Se!Next]_(Se!vars)
    OBVIOUS
  <1>1. UNCHANGED <<cstate, wire, downFwd>>
    BY DEF Resolve, SystemLookup, Dial, Established, client, tunnel
  <1>2. Position' = Position BY <1>1 DEF Position
  <1>3. CASE Resolve \/ SystemLookup
    <2>1. stage \in {"resolve", "system"} /\ Phase = "lookup"
      BY <1>3, PhaseOf DEF Resolve, SystemLookup
    <2>2. \/ Answer(403) \/ Answer(502)
          \/ stage' = "dial" /\ UNCHANGED resp
          \/ stage' = "system" /\ UNCHANGED resp
      BY <1>3 DEF Resolve, SystemLookup, GuardRemoteIp
    <2>3. ASSUME NEW status \in {403, 502}, Answer(status) PROVE [Se!Next]_(Se!vars)
      BY <1>1, <2>1, <2>3, AnswerSession DEF Se!Next
    <2>4. CASE stage' = "dial" /\ UNCHANGED resp
      BY <1>1, <1>2, <2>1, <2>4, PhaseOfNext DEF Se!Next, Se!Move
    <2>5. CASE stage' = "system" /\ UNCHANGED resp
      BY <1>1, <1>2, <2>1, <2>5, PhaseOfNext DEF Se!vars
    <2>6. QED BY <2>2, <2>3, <2>4, <2>5
  <1>4. CASE Dial
    <2>1. stage = "dial" /\ Phase = "dial" BY <1>4, PhaseOf DEF Dial
    <2>2. Answer(502) \/ (stage' = "connected" /\ UNCHANGED resp)
      BY <1>4 DEF Dial
    <2>3. CASE Answer(502)
      BY <1>1, <2>1, <2>3, AnswerSession DEF Se!Next
    <2>4. CASE stage' = "connected" /\ UNCHANGED resp
      BY <1>1, <1>2, <2>1, <2>4, PhaseOfNext DEF Se!vars
    <2>5. QED BY <2>2, <2>3, <2>4
  <1>5. CASE Established
    <2>1. stage = "connected" /\ stage' = "hello" /\ resp' = Append(resp, 200)
      BY <1>5 DEF Established
    <2>2. resp = << >> BY <2>1 DEF IInv, ControlInv, Early
    <2>3. resp' = <<200>> BY <2>1, <2>2
    <2>4. Phase = "dial" /\ Phase' = "tunnel" BY <2>1, PhaseOf, PhaseOfNext
    <2>5. QED BY <1>1, <1>2, <2>3, <2>4 DEF Se!Next, Se!Established
  <1>6. QED BY <1>3, <1>4, <1>5

(* The first read after the 200, the probe and the pause write nothing, so *)
(* a probe comes before every byte of the tunnel.                          *)
LEMMA HelloSession ==
    ASSUME IInv, QuietInv
    PROVE  ReadHello \/ InjectFakeTtlProbe \/ RandomDelay => [Se!Next]_(Se!vars)
  <1> SUFFICES ASSUME ReadHello \/ InjectFakeTtlProbe \/ RandomDelay
               PROVE  [Se!Next]_(Se!vars)
    OBVIOUS
  <1>1. UNCHANGED <<cstate, resp, wire, downFwd>>
    BY DEF ReadHello, InjectFakeTtlProbe, RandomDelay, client, tunnel
  <1>2. Position' = Position BY <1>1 DEF Position
  <1>3. CASE ReadHello
    <2>1. stage = "hello" /\ stage' \in {"probe", "send", "tunnel"}
      BY <1>3 DEF ReadHello
    <2>2. Phase = "tunnel" BY <2>1, PhaseOf
    <2>3. Position = 0 /\ downFwd = 0
      BY <2>1 DEF IInv, WireInv, NothingSent, QuietInv, Position
    <2>4. CASE stage' = "probe"
      BY <1>1, <1>2, <2>2, <2>3, <2>4, PhaseOfNext DEF Se!Next, Se!Probe, Se!Move
    <2>5. CASE stage' \in {"send", "tunnel"}
      BY <1>1, <1>2, <2>2, <2>5, PhaseOfNext DEF Se!vars
    <2>6. QED BY <2>1, <2>4, <2>5
  <1>4. CASE InjectFakeTtlProbe
    <2>1. Phase = "probe" /\ Phase' = "tunnel"
      BY <1>4, PhaseOf, PhaseOfNext DEF InjectFakeTtlProbe
    <2>2. QED BY <1>1, <1>2, <2>1 DEF Se!Next, Se!Move
  <1>5. CASE RandomDelay
    <2>1. Phase = "tunnel" /\ Phase' = "tunnel"
      BY <1>5, PhaseOf, PhaseOfNext DEF RandomDelay
    <2>2. QED BY <1>1, <1>2, <2>1 DEF Se!vars
  <1>6. QED BY <1>3, <1>4, <1>5

(* Writing to the remote only ever moves its stream forward in the         *)
(* client's, whichever of the two ways the ClientHello takes.              *)
LEMMA FlightForward ==
    ASSUME IInv, IInv', SendRecord1 \/ SendRecord2 \/ SplitAndWrite
    PROVE  Position' >= Position
  <1>1. TypeOK /\ Position \in Nat BY PositionNat DEF IInv
  <1>2. TypeOK' BY DEF IInv
  <1>3. Position' \in Nat BY <1>2, PositionNext
  <1>4. ASSUME NothingSent PROVE Position' >= Position
    BY <1>3, <1>4 DEF NothingSent, Position
  <1>5. CASE SendRecord1
    BY <1>4, <1>5 DEF SendRecord1, IInv, WireInv
  <1>6. CASE SendRecord2
    <2>1. HalfCut /\ buf.to = upRead /\ upRead' = upRead
      BY <1>6 DEF SendRecord2, IInv, WireInv, Holding
    <2>2. Position = buf.from + split BY <2>1, PositionHalf
    <2>3. split \in Nat /\ split < RawLen
      BY <1>1, <2>1 DEF HalfCut, CutChosen, SplitFits, TypeOK
    <2>4. buf.from + RawLen <= buf.to /\ buf.from \in Nat /\ buf.to \in Nat
          /\ RawLen \in Nat
      BY <1>1, TrailingLen
    <2>5. Position' = upRead'
      <3>1. stage' = "tunnel" /\ split' = split /\ upRead' = upRead /\ buf' = buf
        BY <1>6 DEF SendRecord2, evasion
      <3>2. split > 0
        BY <2>1, <2>3 DEF HalfCut, CutChosen, SplitFits, TLS_RECORD_HEADER_SIZE
      <3>3. FullCut'
        BY <3>1, <3>2, <2>3 DEF IInv, WireInv, NothingSent, Falling, Followed
      <3>4. QED BY <3>3, PositionNext
    <2>6. QED BY <2>1, <2>2, <2>3, <2>4, <2>5
  <1>7. CASE SplitAndWrite
    <2>1. stage \in {"send", "fallback"} /\ buf' = buf /\ split' = split
      BY <1>7 DEF SplitAndWrite
    <2>2. CASE stage = "send"
      BY <1>4, <2>2 DEF IInv, WireInv
    <2>3. CASE stage = "fallback"
      <3>1. Falling /\ done < RawLen BY <2>3 DEF IInv, WireInv
      <3>2. PICK draw \in ChunkSizes :
              /\ done' = done + chunk_size(draw)
              /\ wire' = Put(wire, Bytes(buf.from + done, buf.from + done'))
        BY <1>7 DEF SplitAndWrite
      <3>3. done \in Nat /\ RawLen \in Nat /\ buf.from \in Nat
        BY <1>1, TrailingLen DEF TypeOK
      <3>4. draw \in Nat \ {0} BY ConnectionAssumption
      <3>5. done' \in Nat /\ done' > done
        BY <3>1, <3>2, <3>3, <3>4 DEF chunk_size, Smaller
      <3>6. wire' = <<Bytes(buf.from, buf.from + done')>>
        BY <3>1, <3>2, <3>3, <3>5, PutExtends DEF Falling
      <3>7. Position' = buf.from + done'
        BY <3>6 DEF Position, After, Bytes
      <3>8. QED BY <3>1, <3>3, <3>5, <3>7, PositionFalling
    <2>4. QED BY <2>1, <2>2, <2>3
  <1>8. QED BY <1>5, <1>6, <1>7

(* A step that only writes onwards is one step of Session's Relay.         *)
LEMMA OnwardSession ==
    ASSUME IInv, IInv', Phase = "tunnel", Phase' = "tunnel",
           UNCHANGED <<cstate, resp>>, Position' >= Position, downFwd' >= downFwd
    PROVE  [Se!Next]_(Se!vars)
  <1>1. TypeOK' BY DEF IInv
  <1>2. Position' \in Nat BY <1>1, PositionNext
  <1>3. downFwd' \in Nat BY <1>1 DEF TypeOK
  <1>4. QED BY <1>2, <1>3 DEF Se!Next, Se!Relay

(* Sending the first flight.                                               *)
LEMMA FlightSession ==
    ASSUME IInv, IInv'
    PROVE  SendRecord1 \/ SendRecord2 \/ SplitAndWrite => [Se!Next]_(Se!vars)
  <1> SUFFICES ASSUME SendRecord1 \/ SendRecord2 \/ SplitAndWrite
               PROVE  [Se!Next]_(Se!vars)
    OBVIOUS
  <1>1. /\ stage \in {"send", "record2", "fallback"}
        /\ stage' \in {"delay", "record2", "fallback", "tunnel"}
        /\ UNCHANGED <<cstate, resp, downFwd>>
    BY DEF SendRecord1, SendRecord2, SplitAndWrite, client, tunnel
  <1>2. Phase = "tunnel" /\ Phase' = "tunnel" BY <1>1, PhaseOf, PhaseOfNext
  <1>3. downFwd' >= downFwd BY <1>1 DEF IInv, TypeOK
  <1>4. QED BY <1>1, <1>2, <1>3, FlightForward, OnwardSession

(* The relay, in both directions.                                          *)
LEMMA CopySession ==
    ASSUME IInv, IInv'
    PROVE  CopyUp \/ CopyDown => [Se!Next]_(Se!vars)
  <1> SUFFICES ASSUME CopyUp \/ CopyDown PROVE [Se!Next]_(Se!vars) OBVIOUS
  <1>1. stage = "tunnel" /\ stage' = "tunnel" /\ UNCHANGED <<cstate, resp>>
    BY DEF CopyUp, CopyDown, client
  <1>2. Phase = "tunnel" /\ Phase' = "tunnel" BY <1>1, PhaseOf, PhaseOfNext
  <1>3. TypeOK /\ Position \in Nat BY PositionNat DEF IInv
  <1>4. CASE CopyUp
    <2>1. upRead' > upRead /\ buf' = buf /\ downFwd' = downFwd
      BY <1>3, <1>4 DEF CopyUp, evasion, tunnel, TypeOK
    <2>2. buf.to <= upRead /\ upRead \in Nat /\ upRead' \in Nat /\ buf.to \in Nat
      BY <1>3, <1>4, TrailingLen DEF TypeOK, CopyUp
    <2>3. upRead' > buf'.to BY <2>1, <2>2
    <2>4. wire' # << >>
      <3>1. Bytes(upRead, upSent) \in Segment
        BY <1>3, <1>4, SegmentTypes DEF CopyUp, TypeOK
      <3>2. QED BY <1>3, <1>4, <3>1, PutSome DEF CopyUp, TypeOK
    <2>5. Followed' \/ FullCut'
      BY <1>1, <2>2, <2>3, <2>4 DEF IInv, WireInv, NothingSent
    <2>6. Position' = upRead' BY <2>5, PositionNext
    <2>7. Position <= upRead BY <1>1, PositionInTunnel
    <2>8. Position' >= Position BY <1>3, <2>1, <2>2, <2>6, <2>7
    <2>9. downFwd' >= downFwd BY <1>3, <2>1 DEF TypeOK
    <2>10. QED BY <1>1, <1>2, <2>8, <2>9, OnwardSession
  <1>5. CASE CopyDown
    <2>1. wire' = wire /\ downFwd' >= downFwd
      BY <1>3, <1>5 DEF CopyDown, TypeOK
    <2>2. Position' >= Position BY <1>3, <2>1 DEF Position
    <2>3. QED BY <1>1, <1>2, <2>1, <2>2, OnwardSession
  <1>6. QED BY <1>4, <1>5

(* A task ends without a word after a tunnel, or when the client has left. *)
LEMMA EndSession ==
    ASSUME IInv
    PROVE  ShutdownUp \/ ShutdownDown \/ IoError => [Se!Next]_(Se!vars)
  <1> SUFFICES ASSUME ShutdownUp \/ ShutdownDown \/ IoError
               PROVE  [Se!Next]_(Se!vars)
    OBVIOUS
  <1>1. UNCHANGED <<cstate, resp, wire, downFwd>>
    BY DEF ShutdownUp, ShutdownDown, IoError, client, tunnel
  <1>2. Position' = Position BY <1>1 DEF Position
  <1>3. ASSUME Phase \in {"request", "dial", "tunnel"}, Phase' = "closed",
               Phase # "tunnel" => cstate # "open"
        PROVE  [Se!Next]_(Se!vars)
    BY <1>1, <1>2, <1>3 DEF Se!Next, Se!Drop, Se!Move
  <1>4. CASE ShutdownUp \/ ShutdownDown
    <2>1. stage = "tunnel" /\ stage' \in {"done", "tunnel"}
      BY <1>4 DEF ShutdownUp, ShutdownDown
    <2>2. Phase = "tunnel" BY <2>1, PhaseOf
    <2>3. CASE stage' = "done" BY <1>3, <2>2, <2>3, PhaseOfNext DEF Over
    <2>4. CASE stage' = "tunnel"
      BY <1>1, <1>2, <2>2, <2>4, PhaseOfNext DEF Se!vars
    <2>5. QED BY <2>1, <2>3, <2>4
  <1>5. CASE IoError
    <2>1. Phase' = "closed" BY <1>5, PhaseOfNext DEF IoError, Over
    <2>2. CASE cstate = "reset" /\ stage \in {"accepted", "connected", "hello", "tunnel"}
      BY <1>3, <2>1, <2>2, PhaseOf
    <2>3. CASE stage \in {"send", "fallback", "record2", "tunnel"}
      BY <1>3, <2>1, <2>3, PhaseOf
    <2>4. QED BY <1>5, <2>2, <2>3 DEF IoError
  <1>6. QED BY <1>4, <1>5

-----------------------------------------------------------------------------
(* The refinement.                                                         *)

(* An accepted connection is a session nobody has spoken in.               *)
LEMMA InitSession == Init => Se!Init
  <1> SUFFICES ASSUME Init PROVE Se!Init OBVIOUS
  <1>1. Phase = "request" BY PhaseOf DEF Init
  <1>2. Position = 0 BY DEF Init, Position
  <1>3. QED BY <1>1, <1>2 DEF Init, Se!Init

(* Each step of a connection keeps the session's rules.                    *)
LEMMA StepSession ==
    IInv /\ IInv' /\ QuietInv /\ [Next]_vars => [Se!Next]_(Se!vars)
  <1> SUFFICES ASSUME IInv, IInv', QuietInv, [Next]_vars
               PROVE  [Se!Next]_(Se!vars)
    OBVIOUS
  <1>1. CASE UNCHANGED vars
    <2>1. UNCHANGED <<stage, cstate, resp, wire, downFwd>>
      BY <1>1 DEF vars, client, tunnel
    <2>2. UNCHANGED <<Phase, Position>> BY <2>1 DEF Phase, Over, Position
    <2>3. QED BY <2>1, <2>2 DEF Se!vars
  <1>2. CASE Environment BY <1>2, EnvironmentSession
  <1>3. CASE Task
    BY <1>3, DispatchSession, DialSession, HelloSession, FlightSession,
       CopySession, EndSession DEF Task
  <1>4. QED BY <1>1, <1>2, <1>3 DEF Next, Ended

(* A connection keeps Session's safety: the request is looked up, dialled  *)
(* and answered in that order and once, nobody who stays is dropped without*)
(* a word, the decoy precedes the tunnel and neither stream runs backwards.*)
THEOREM SessionKept == Spec => Se!SafeSpec
  <1>1. Init => IInv /\ QuietInv /\ Se!Init
    <2>1. Init => QuietInv BY DEF Init, QuietInv
    <2>2. QED BY <2>1, InitInv, InitSession
  <1>2. IInv /\ [Next]_vars => IInv' BY NextInv
  <1>3. QuietInv /\ [Next]_vars => QuietInv' BY QuietStep
  <1>4. IInv /\ IInv' /\ QuietInv /\ [Next]_vars => [Se!Next]_(Se!vars)
    BY StepSession
  <1>5. QED BY <1>1, <1>2, <1>3, <1>4, PTL DEF Spec, Se!SafeSpec

-----------------------------------------------------------------------------
(* How a tunnel begins and ends: half-close in the relay, what a clean end *)
(* means, and the evasion's order on the first flight.                     *)

(* A direction is shut down only when its data is through and its source   *)
(* has finished, and the task ends without error only when both are.       *)
RelayEnds ==
    /\ stage \notin {"tunnel", "done", "failed"} => ~upDone /\ ~downDone
    /\ upDone => upRead = upSent /\ cstate # "open"
    /\ downDone => downFwd = downSent /\ rstate # "open"
    /\ stage = "done" /\ resp = <<200>> =>
          /\ upDone /\ downDone
          /\ \/ NothingSent /\ buf.to = 0
             \/ Falling /\ done = RawLen /\ upRead = buf.to
             \/ Followed \/ FullCut

-----------------------------------------------------------------------------
(* RelayEnds is kept.                                                      *)

(* A peer that has finished sends nothing more.                            *)
LEMMA EnvironmentEnds == RelayEnds /\ Environment => RelayEnds'
  <1> SUFFICES ASSUME RelayEnds, Environment PROVE RelayEnds' OBVIOUS
  <1>1. /\ stage' = stage /\ stage \notin {"done", "failed"}
        /\ UNCHANGED <<upRead, downFwd, upDone, downDone>>
    BY DEF Environment, Over, ClientSends, ClientHalfCloses, ClientResets,
           RemoteSends, RemoteHalfCloses, RemoteResets, tunnel
  <1>2. cstate # "open" => cstate' # "open" /\ upSent' = upSent
    BY DEF Environment, ClientSends, ClientHalfCloses, ClientResets,
           RemoteSends, RemoteHalfCloses, RemoteResets, client
  <1>3. rstate # "open" => rstate' # "open" /\ downSent' = downSent
    BY DEF Environment, ClientSends, ClientHalfCloses, ClientResets,
           RemoteSends, RemoteHalfCloses, RemoteResets, remote
  <1>4. QED BY <1>1, <1>2, <1>3 DEF RelayEnds

(* Before the 200 a task ends only with another answer or with none.       *)
LEMMA RefusalEnds ==
    ASSUME IInv, RelayEnds
    PROVE  \/ ActiveProbeDefense \/ PlaintextRedirect \/ ConnectRequest
           \/ ClientLeft \/ Resolve \/ SystemLookup \/ Dial \/ Established
           => RelayEnds'
  <1> SUFFICES ASSUME \/ ActiveProbeDefense \/ PlaintextRedirect
                      \/ ConnectRequest \/ ClientLeft \/ Resolve
                      \/ SystemLookup \/ Dial \/ Established
               PROVE  RelayEnds'
    OBVIOUS
  <1>1. /\ stage \in {"accepted", "resolve", "system", "dial", "connected"}
        /\ UNCHANGED <<upDone, downDone>>
    BY DEF ActiveProbeDefense, PlaintextRedirect, ConnectRequest, ReadsRequest,
           ClientLeft, Resolve, SystemLookup, Dial, Established, tunnel
  <1>2. resp = << >> BY <1>1 DEF IInv, ControlInv, Early
  <1>3. ~upDone' /\ ~downDone' BY <1>1 DEF RelayEnds
  <1>4. ASSUME NEW status \in {301, 400, 403, 404, 502}, Answer(status)
        PROVE  stage' = "done" => resp' # <<200>>
    <2>1. resp' \in {<< >>, <<status>>} BY <1>2, <1>4, AnswerEffect
    <2>2. <<status>> # <<200>> /\ << >> # <<200>> OBVIOUS
    <2>3. QED BY <2>1, <2>2
  <1>5. << >> # <<200>> OBVIOUS
  <1>6. stage' = "done" => resp' # <<200>>
    <2>1. CASE ActiveProbeDefense BY <1>4, <2>1 DEF ActiveProbeDefense
    <2>2. CASE PlaintextRedirect BY <1>4, <2>2 DEF PlaintextRedirect
    <2>3. CASE ConnectRequest BY <1>4, <2>3 DEF ConnectRequest
    <2>4. CASE ClientLeft BY <1>2, <1>5, <2>4 DEF ClientLeft
    <2>5. CASE Resolve \/ SystemLookup
      BY <1>4, <2>5 DEF Resolve, SystemLookup, GuardRemoteIp
    <2>6. CASE Dial BY <1>4, <2>6 DEF Dial
    <2>7. CASE Established BY <2>7 DEF Established
    <2>8. QED BY <2>1, <2>2, <2>3, <2>4, <2>5, <2>6, <2>7
  <1>7. QED BY <1>3, <1>6 DEF RelayEnds

(* The first flight is sent before either direction can be shut down.      *)
LEMMA FlightEnds ==
    ASSUME RelayEnds
    PROVE  \/ ReadHello \/ InjectFakeTtlProbe \/ RandomDelay
           \/ SendRecord1 \/ SendRecord2 \/ SplitAndWrite
           => RelayEnds'
  <1> SUFFICES ASSUME \/ ReadHello \/ InjectFakeTtlProbe \/ RandomDelay
                      \/ SendRecord1 \/ SendRecord2 \/ SplitAndWrite
               PROVE  RelayEnds'
    OBVIOUS
  <1>1. /\ stage \notin {"tunnel", "done", "failed"} /\ stage' # "done"
        /\ UNCHANGED <<upDone, downDone>>
    BY DEF ReadHello, InjectFakeTtlProbe, RandomDelay, SendRecord1,
           SendRecord2, SplitAndWrite, tunnel
  <1>2. QED BY <1>1 DEF RelayEnds

(* The relay shuts a direction down when it has drained it.                *)
LEMMA RelayStepEnds ==
    ASSUME IInv, RelayEnds
    PROVE  CopyUp \/ CopyDown \/ ShutdownUp \/ ShutdownDown => RelayEnds'
  <1> SUFFICES ASSUME CopyUp \/ CopyDown \/ ShutdownUp \/ ShutdownDown
               PROVE  RelayEnds'
    OBVIOUS
  <1>1. CASE CopyUp
    BY <1>1 DEF CopyUp, RelayEnds, client, remote, tunnel, IInv, TypeOK
  <1>2. CASE CopyDown
    BY <1>2 DEF CopyDown, RelayEnds, client, remote, IInv, TypeOK
  <1>3. CASE ShutdownUp \/ ShutdownDown
    <2>1. /\ stage = "tunnel" /\ stage' \in {"tunnel", "done"}
          /\ UNCHANGED <<req, host, buf, done, split, wire, upRead, upSent,
                         cstate, rstate, downSent, downFwd>>
      BY <1>3 DEF ShutdownUp, ShutdownDown, inputs, lookup, client, remote, evasion
    <2>2. /\ upDone' => upRead = upSent /\ cstate # "open"
          /\ downDone' => downFwd = downSent /\ rstate # "open"
          /\ stage' = "done" => upDone' /\ downDone'
      BY <1>3 DEF ShutdownUp, ShutdownDown, RelayEnds
    <2>3. \/ NothingSent /\ buf.to = 0
          \/ Falling /\ done = RawLen /\ upRead = buf.to
          \/ Followed \/ FullCut
      BY <2>1 DEF IInv, WireInv
    <2>4. \/ NothingSent' /\ buf'.to = 0
          \/ Falling' /\ done' = RawLen' /\ upRead' = buf'.to
          \/ Followed' \/ FullCut'
      BY <2>1, <2>3, Frame
    <2>5. QED BY <2>1, <2>2, <2>4 DEF RelayEnds
  <1>4. QED BY <1>1, <1>2, <1>3

(* RelayEnds is kept by every step.                                        *)
LEMMA RelayEndsStep == IInv /\ RelayEnds /\ [Next]_vars => RelayEnds'
  <1> SUFFICES ASSUME IInv, RelayEnds, [Next]_vars PROVE RelayEnds' OBVIOUS
  <1>1. CASE UNCHANGED vars
    <2>1. UNCHANGED <<req, host, buf, done, split, wire, upRead, upSent, stage,
                      resp, cstate, rstate, downSent, downFwd, upDone, downDone>>
      BY <1>1 DEF vars, inputs, lookup, client, remote, evasion, tunnel
    <2>2. QED BY <2>1, Frame DEF RelayEnds
  <1>2. CASE IoError
    <2>1. /\ stage' = "failed"
          /\ UNCHANGED <<upRead, upSent, cstate, rstate, downSent, tunnel>>
      BY <1>2 DEF IoError, client, remote
    <2>2. QED BY <2>1 DEF RelayEnds, tunnel
  <1>3. QED
    BY <1>1, <1>2, EnvironmentEnds, RefusalEnds, FlightEnds, RelayStepEnds
       DEF Next, Task, Ended

(* A direction that was shut down stays quiet.                             *)
LEMMA ShutdownStep ==
    IInv /\ RelayEnds /\ [Next]_vars
        => (upDone => wire' = wire) /\ (downDone => downFwd' = downFwd)
  <1> SUFFICES ASSUME IInv, RelayEnds, [Next]_vars
               PROVE  (upDone => wire' = wire) /\ (downDone => downFwd' = downFwd)
    OBVIOUS
  <1> USE DEF tunnel
  <1>1. CASE UNCHANGED vars BY <1>1 DEF vars
  <1>2. CASE Environment
    BY <1>2 DEF Environment, ClientSends, ClientHalfCloses, ClientResets,
                RemoteSends, RemoteHalfCloses, RemoteResets
  <1>3. CASE stage \notin {"tunnel", "done", "failed"} BY <1>3 DEF RelayEnds
  <1>4. CASE CopyUp BY <1>4 DEF CopyUp, RelayEnds, IInv, TypeOK
  <1>5. CASE CopyDown BY <1>5 DEF CopyDown, RelayEnds, IInv, TypeOK
  <1>6. CASE ShutdownUp \/ ShutdownDown \/ IoError
    BY <1>6 DEF ShutdownUp, ShutdownDown, IoError
  <1>7. Task => \/ stage \notin {"tunnel", "done", "failed"} \/ CopyUp
                \/ CopyDown \/ ShutdownUp \/ ShutdownDown \/ IoError
    BY DEF Task, ActiveProbeDefense, PlaintextRedirect, ConnectRequest,
           ReadsRequest, ClientLeft, Resolve, SystemLookup, Dial, Established,
           ReadHello, InjectFakeTtlProbe, SendRecord1, RandomDelay,
           SendRecord2, SplitAndWrite
  <1>8. QED
    BY <1>1, <1>2, <1>3, <1>4, <1>5, <1>6, <1>7 DEF Next, Ended

(* RelayEnds holds along every behaviour.                                  *)
LEMMA RelayEndsHold == Spec => []RelayEnds
  <1>1. Init => RelayEnds BY DEF Init, RelayEnds
  <1>2. QED BY <1>1, RelayEndsStep, Inductive, PTL DEF Spec

(* After the client's end of stream was passed on nothing is written to the*)
(* remote, and after the remote's nothing to the client.                   *)
THEOREM ShutdownIsFinal == Spec => NothingAfterShutdown
  BY RelayEndsHold, ShutdownStep, Inductive, PTL DEF Spec, NothingAfterShutdown

-----------------------------------------------------------------------------
(* What the request's read took from the tunnel, and what a clean end      *)
(* leaves out.                                                             *)

(* Nothing is sent that was not read after the 200; a client that waits for*)
(* the 200 has no tunnel data in the proxy's socket before it.             *)
RequestInv ==
    /\ wire # << >> => buf.from < buf.to
    /\ req.pipelines \/ RequestRead <= req.head_end
    /\ req.pipelines \/ resp = <<200>> \/ upSent <= req.head_end

(* Steps that change neither the buffer nor the two ends of the uplink, and*)
(* write to the remote only what was read.                                 *)
LEMMA RequestFrame ==
    ASSUME RequestInv, UNCHANGED <<req, buf, upSent>>,
           upRead' = upRead \/ buf.to # 0,
           resp' = resp \/ resp = << >>,
           wire' = wire \/ buf.from < buf.to
    PROVE  RequestInv'
  <1>1. << >> # <<200>> OBVIOUS
  <1>2. RequestRead' = RequestRead BY DEF RequestRead
  <1>3. QED BY <1>1, <1>2 DEF RequestInv

(* In the relay, data is passed on only after the flight was read.         *)
LEMMA RelayHolds ==
    ASSUME IInv, RequestInv, stage = "tunnel", upRead < upSent
    PROVE  buf.from < buf.to /\ buf.to # 0
  <1>1. TypeOK /\ buf.from \in Nat /\ buf.to \in Nat /\ upRead \in Nat /\ upSent \in Nat
    BY DEF IInv, TypeOK, Interval
  <1>2. Falling \/ Followed \/ FullCut BY <1>1 DEF IInv, WireInv
  <1>3. wire # << >>
    <2>1. CASE Falling
      <3>1. wire = <<Bytes(buf.from, buf.from + done)>> BY <2>1 DEF Falling
      <3>2. QED BY <3>1
    <2>2. CASE FullCut
      <3>1. wire = <<Header1, Part1, Header2, Bytes(buf.from + split, upRead)>>
        BY <2>2 DEF FullCut
      <3>2. QED BY <3>1
    <2>3. CASE Followed
      <3>1. \/ wire = <<Bytes(buf.from, upRead)>>
            \/ wire = <<Bytes(buf.from, buf.from + RawLen), Bytes(buf.to, upRead)>>
        BY <2>3 DEF Followed
      <3>2. QED BY <3>1
    <2>4. QED BY <1>2, <2>1, <2>2, <2>3
  <1>4. QED BY <1>1, <1>3 DEF RequestInv

(* RequestInv is kept by every step.                                       *)
LEMMA RequestStep == IInv /\ RequestInv /\ [Next]_vars => RequestInv'
  <1> SUFFICES ASSUME IInv, RequestInv, [Next]_vars PROVE RequestInv' OBVIOUS
  <1> USE DEF inputs, lookup, client, remote, evasion, tunnel
  <1>0. /\ TypeOK /\ buf.from \in Nat /\ buf.to \in Nat
        /\ upRead \in Nat /\ upSent \in Nat /\ upRead <= upSent
        /\ req.head_end \in Nat
    BY ConnectionAssumption DEF IInv, TypeOK, Interval, Request
  <1>1. CASE UNCHANGED vars BY <1>1, RequestFrame DEF vars
  <1>2. CASE Environment
    <2>1. CASE ClientSends
      <3>1. /\ UNCHANGED <<req, buf, wire, resp, upRead>>
            /\ upSent' <= req.head_end \/ req.pipelines \/ resp = <<200>>
        BY <2>1 DEF ClientSends
      <3>2. RequestRead' = RequestRead BY <3>1 DEF RequestRead
      <3>3. QED BY <3>1, <3>2 DEF RequestInv
    <2>2. CASE \/ ClientHalfCloses \/ ClientResets
               \/ RemoteSends \/ RemoteHalfCloses \/ RemoteResets
      BY <2>2, RequestFrame
         DEF ClientHalfCloses, ClientResets, RemoteSends, RemoteHalfCloses,
             RemoteResets
    <2>3. QED BY <1>2, <2>1, <2>2 DEF Environment
  <1>3. CASE ActiveProbeDefense \/ PlaintextRedirect \/ ConnectRequest
    <2>1. /\ stage = "accepted" /\ upRead' = FirstRead
          /\ UNCHANGED <<req, upSent, buf, wire>>
      BY <1>3 DEF ActiveProbeDefense, PlaintextRedirect, ConnectRequest,
                  ReadsRequest
    <2>2. resp = << >> /\ wire = << >> /\ buf.to = 0
      BY <2>1 DEF IInv, ControlInv, WireInv, Early
    <2>3. resp # <<200>> BY <2>2
    <2>4. upRead' <= upSent BY <1>0, <2>1 DEF FirstRead, Smaller, CLIENT_BUF_SIZE
    <2>5. RequestRead' = upRead' /\ upRead' \in Nat
      BY <1>0, <2>1, <2>2 DEF RequestRead, FirstRead, Smaller, CLIENT_BUF_SIZE
    <2>6. req.pipelines \/ upSent <= req.head_end BY <2>3 DEF RequestInv
    <2>7. QED BY <1>0, <2>1, <2>2, <2>4, <2>5, <2>6 DEF RequestInv
  <1>4. CASE ClientLeft \/ Resolve \/ SystemLookup \/ Dial \/ Established
    <2>1. /\ stage \in {"accepted", "resolve", "system", "dial", "connected"}
          /\ UNCHANGED <<req, upSent, upRead, buf, wire>>
      BY <1>4 DEF ClientLeft, Resolve, SystemLookup, Dial, Established
    <2>2. resp = << >> BY <2>1 DEF IInv, ControlInv, Early
    <2>3. QED BY <2>1, <2>2, RequestFrame
  <1>5. CASE ReadHello
    <2>1. stage = "hello" /\ UNCHANGED <<req, upSent, wire, resp>>
      BY <1>5 DEF ReadHello
    <2>2. wire = << >> /\ buf.to = 0
      BY <2>1 DEF IInv, WireInv, NothingSent
    <2>3. RequestRead = upRead BY <2>2 DEF RequestRead
    <2>4. RequestRead' = upRead
      <3>1. CASE UNCHANGED <<upRead, buf>> BY <2>3, <3>1 DEF RequestRead
      <3>2. CASE /\ upRead < upSent
                 /\ upRead' = Smaller(upSent, upRead + CLIENT_HELLO_BUF_SIZE)
                 /\ buf' = [from |-> upRead, to |-> upRead']
        <4>1. upRead' > upRead
          BY <1>0, <3>2 DEF Smaller, CLIENT_HELLO_BUF_SIZE
        <4>2. buf'.to # 0 /\ buf'.from = upRead BY <1>0, <3>2, <4>1
        <4>3. QED BY <4>2 DEF RequestRead
      <3>3. QED BY <1>5, <3>1, <3>2 DEF ReadHello
    <2>5. QED BY <2>1, <2>2, <2>3, <2>4 DEF RequestInv
  <1>6. CASE \/ InjectFakeTtlProbe \/ SendRecord1 \/ RandomDelay
             \/ SendRecord2 \/ SplitAndWrite
    <2>1. /\ stage \in {"probe", "send", "fallback", "delay", "record2"}
          /\ UNCHANGED <<req, upSent, upRead, buf, resp>>
      BY <1>6 DEF InjectFakeTtlProbe, SendRecord1, RandomDelay, SendRecord2,
                  SplitAndWrite
    <2>2. buf.from < buf.to BY <2>1 DEF IInv, WireInv, Holding
    <2>3. QED BY <2>1, <2>2, RequestFrame
  <1>7. CASE CopyUp
    <2>1. stage = "tunnel" /\ upRead < upSent /\ UNCHANGED <<req, buf, upSent, resp>>
      BY <1>7 DEF CopyUp
    <2>2. buf.from < buf.to /\ buf.to # 0 BY <2>1, RelayHolds
    <2>3. QED BY <2>1, <2>2, RequestFrame
  <1>8. CASE CopyDown \/ ShutdownUp \/ ShutdownDown \/ IoError
    BY <1>8, RequestFrame DEF CopyDown, ShutdownUp, ShutdownDown, IoError
  <1>9. QED
    BY <1>1, <1>2, <1>3, <1>4, <1>5, <1>6, <1>7, <1>8 DEF Next, Task, Ended

(* RequestInv holds along every behaviour.                                 *)
LEMMA RequestInvHolds == Spec => []RequestInv
  <1>1. Init => RequestInv
    <2> SUFFICES ASSUME Init PROVE RequestInv OBVIOUS
    <2>1. req.head_end \in Nat BY ConnectionAssumption DEF Init, Request
    <2>2. wire = << >> /\ upSent = 0 /\ RequestRead = 0 BY DEF Init, RequestRead
    <2>3. QED BY <2>1, <2>2 DEF RequestInv
  <1>2. QED BY <1>1, RequestStep, Inductive, PTL DEF Spec

(* The streams of a relay that was not cut: one interval, or two with the  *)
(* trailing data missing between them.                                     *)
LEMMA CarriedOne ==
    ASSUME NEW a \in Nat, NEW b \in Nat
    PROVE  Carried(<<Bytes(a, b)>>, a, b)
  BY DEF Carried, StartsAt, Unbroken, After, Bytes

(* Two records: every byte of the client's but the header they replace.    *)
LEMMA CarriedRecords ==
    ASSUME IInv, FullCut
    PROVE  Carried(wire, buf.from, upRead)
  <1> DEFINE last == Bytes(buf.from + split, upRead)
  <1>1. wire = <<Header1, Part1, Header2, last>>
    BY DEF FullCut
  <1>2. /\ Header1.kind = "header" /\ Header2.kind = "header"
        /\ Header1.from = buf.from + TLS_RECORD_HEADER_SIZE
        /\ Part1.kind = "bytes" /\ Part1.from = Header1.from
        /\ Part1.to = buf.from + split
        /\ Header2.from = buf.from + split
        /\ last.from = buf.from + split /\ last.kind = "bytes" /\ last.to = upRead
    BY DEF Header1, Part1, Header2, build_tls_header, Bytes
  <1> HIDE DEF last
  <1>3. /\ Len(wire) = 4 /\ wire # << >>
        /\ wire[1] = Header1 /\ wire[2] = Part1 /\ wire[3] = Header2
        /\ wire[4] = last
    BY <1>1
  <1>4. StartsAt(wire, buf.from) BY <1>2, <1>3 DEF StartsAt
  <1>5. /\ wire[2].from = After(wire[1]) /\ wire[3].from = After(wire[2])
        /\ wire[4].from = After(wire[3]) /\ After(wire[4]) = upRead
    BY <1>2, <1>3 DEF After
  <1>6. Unbroken(wire)
    <2>1. \A i \in 1 .. 3 : i = 1 \/ i = 2 \/ i = 3 OBVIOUS
    <2>2. QED BY <1>3, <1>5, <2>1 DEF Unbroken
  <1>7. QED BY <1>3, <1>4, <1>5, <1>6 DEF Carried

(* The accounts of a tunnel that ends without error: all of the remote's   *)
(* data, and of the client's exactly the stream from where the request's   *)
(* read stopped, less what split_and_write leaves behind the first record. *)
THEOREM CleanEnd == Spec => []CleanEndAccounted
  <1>1. IInv /\ RelayEnds /\ RequestInv => CleanEndAccounted
    <2> DEFINE Clean == stage = "done" /\ resp = <<200>>
    <2> SUFFICES ASSUME IInv, RelayEnds, RequestInv, Clean
                 PROVE  /\ upRead = upSent /\ downFwd = downSent
                        /\ IF InFallback /\ Trailing.len > 0
                           THEN /\ Carried(<<wire[1]>>, RequestRead, Trailing.from)
                                /\ Carried(Tail(wire), Trailing.to, upSent)
                           ELSE Carried(wire, RequestRead, upSent)
                        /\ RequestRead <= req.head_end \/ req.pipelines
      BY DEF CleanEndAccounted
    <2>0. /\ TypeOK /\ buf.from \in Nat /\ buf.to \in Nat /\ RawLen \in Nat
          /\ buf.from + RawLen \in Nat /\ upRead \in Nat
          /\ Trailing = Bytes(buf.from + RawLen, buf.to)
          /\ Trailing.len = buf.to - (buf.from + RawLen)
          /\ Trailing.len \in Nat
      BY TrailingLen DEF IInv, TypeOK
    <2>1. /\ upRead = upSent /\ downFwd = downSent
          /\ \/ NothingSent /\ buf.to = 0
             \/ Falling /\ done = RawLen /\ upRead = buf.to
             \/ Followed \/ FullCut
          /\ RequestRead <= req.head_end \/ req.pipelines
      BY DEF RelayEnds, RequestInv
    <2>2. Trailing.from = buf.from + RawLen /\ Trailing.to = buf.to
      BY <2>0 DEF Bytes
    <2>3. ASSUME wire # << >> PROVE RequestRead = buf.from
      BY <2>0, <2>3 DEF RequestInv, RequestRead
    <2>4. ASSUME NEW a, NEW b PROVE Tail(<<a>>) = << >> /\ Tail(<<a, b>>) = <<b>>
      OBVIOUS
    <2>5. CASE NothingSent /\ buf.to = 0
      <3>1. wire = << >> /\ RequestRead = upRead BY <2>5 DEF NothingSent, RequestRead
      <3>2. QED BY <2>1, <3>1 DEF InFallback, Carried
    <2>6. CASE Falling /\ done = RawLen /\ upRead = buf.to
      <3>1. wire = <<Bytes(buf.from, buf.from + RawLen)>> /\ split = 0
        BY <2>6 DEF Falling
      <3>2. wire # << >> /\ wire[1] = Bytes(buf.from, buf.from + RawLen)
            /\ Tail(wire) = << >>
        BY <2>4, <3>1
      <3>3. Carried(wire, buf.from, buf.from + RawLen)
        BY <2>0, <3>1, CarriedOne
      <3>4. Carried(<<wire[1]>>, buf.from, buf.from + RawLen)
        BY <3>1, <3>2, <3>3
      <3>5. Carried(Tail(wire), buf.to, upSent)
        BY <2>1, <2>6, <3>2 DEF Carried
      <3>6. Trailing.len = 0 => buf.from + RawLen = upSent BY <2>0, <2>1, <2>6
      <3>7. QED BY <2>0, <2>1, <2>2, <2>3, <3>1, <3>2, <3>3, <3>4, <3>5, <3>6
                   DEF InFallback
    <2>7. CASE Followed /\ Trailing.len = 0
      <3>1. wire = <<Bytes(buf.from, upRead)>> BY <2>7 DEF Followed
      <3>2. wire # << >> /\ Carried(wire, buf.from, upRead)
        BY <2>0, <3>1, CarriedOne
      <3>3. QED BY <2>1, <2>3, <2>7, <3>2
    <2>8. CASE Followed /\ Trailing.len # 0
      <3>1. wire = <<Bytes(buf.from, buf.from + RawLen), Bytes(buf.to, upRead)>>
            /\ split = 0
        BY <2>8 DEF Followed
      <3>2. wire # << >> /\ wire[1] = Bytes(buf.from, buf.from + RawLen)
        BY <3>1
      <3>3. Tail(wire) = <<Bytes(buf.to, upRead)>> BY <2>4, <3>1
      <3>4. InFallback /\ Trailing.len > 0
        BY <2>0, <2>8, <3>1, <3>2 DEF InFallback
      <3>5. Carried(<<wire[1]>>, buf.from, buf.from + RawLen)
        BY <2>0, <3>2, CarriedOne
      <3>6. Carried(Tail(wire), buf.to, upRead)
        BY <2>0, <3>3, CarriedOne
      <3>7. QED BY <2>1, <2>2, <2>3, <3>2, <3>4, <3>5, <3>6
    <2>9. CASE FullCut
      <3>1. wire # << >> BY <2>9 DEF FullCut
      <3>2. split # 0
        BY <2>9 DEF FullCut, CutChosen, SplitFits, TLS_RECORD_HEADER_SIZE
      <3>3. QED BY <2>1, <2>3, <2>9, <3>1, <3>2, CarriedRecords DEF InFallback
    <2>10. QED BY <2>1, <2>5, <2>6, <2>7, <2>8, <2>9
  <1>2. QED BY <1>1, RelayEndsHold, RequestInvHolds, Inductive, PTL

-----------------------------------------------------------------------------
(* The evasion's order.                                                    *)

Due == cfg.fake /\ ~is_meta /\ is_client_hello(SeenFlight, HelloLen)

(* The pause has been taken exactly by hosts that are not Meta's once the  *)
(* second record may leave, and a probe that is due precedes the first.    *)
EvasionInv ==
    /\ delayed => stage \in {"record2", "tunnel", "done", "failed"}
    /\ stage = "delay" => ~is_meta
    /\ stage = "record2" \/ (Len(wire) >= 3 /\ split # 0) => delayed = ~is_meta
    /\ (wire # << >> \/ stage = "send") /\ Due => probe # "no"

(* Before the first flight there is nothing to order.                      *)
LEMMA EarlyEvasion ==
    ASSUME wire' = << >>, delayed' = delayed,
           EvasionInv, stage \notin {"record2", "tunnel", "done", "failed"},
           stage' \notin {"delay", "record2", "send"}
    PROVE  EvasionInv'
  <1>1. Len(wire') = 0 BY DEF EvasionInv
  <1>2. QED BY <1>1 DEF EvasionInv

(* Steps that leave the evasion's state alone and do not enter its stages. *)
LEMMA LaterEvasion ==
    ASSUME EvasionInv, UNCHANGED <<cfg, req, host, buf, split, wire, probe, delayed>>,
           \/ stage' = stage
           \/ stage' \in {"tunnel", "done", "failed"}
    PROVE  EvasionInv'
  <1>1. is_meta' = is_meta BY DEF is_meta
  <1>2. Due' = Due BY <1>1 DEF Due, SeenFlight, FlightAt, HelloLen
  <1>3. QED BY <1>1, <1>2 DEF EvasionInv

(* Reading the first flight decides whether a probe is due.                *)
LEMMA HelloEvasion ==
    ASSUME IInv, EvasionInv
    PROVE  ReadHello \/ InjectFakeTtlProbe => EvasionInv'
  <1> SUFFICES ASSUME ReadHello \/ InjectFakeTtlProbe PROVE EvasionInv' OBVIOUS
  <1>1. /\ stage \in {"hello", "probe"} /\ stage' \in {"probe", "send", "tunnel"}
        /\ UNCHANGED <<cfg, req, host, wire, split, delayed>>
    BY DEF ReadHello, InjectFakeTtlProbe, inputs, lookup
  <1>2. wire' = << >> /\ Len(wire') = 0
    BY <1>1 DEF IInv, WireInv, Early, NothingSent
  <1>3. ~delayed' BY <1>1 DEF EvasionInv
  <1>4. stage' = "send" /\ Due' => probe' # "no"
    <2>1. CASE InjectFakeTtlProbe BY <2>1 DEF InjectFakeTtlProbe
    <2>2. CASE ReadHello
      <3>1. SUFFICES ASSUME stage' = "send" PROVE ~Due' OBVIOUS
      <3>2. /\ ~ProbeDue(upRead' - upRead)
            /\ buf'.from = upRead /\ buf'.to = upRead'
        BY <2>2, <3>1 DEF ReadHello
      <3>3. HelloLen' = upRead' - upRead /\ SeenFlight' = FlightAt(upRead)
        BY <1>1, <3>2 DEF HelloLen, SeenFlight, FlightAt
      <3>4. is_meta' = is_meta BY <1>1 DEF is_meta
      <3>5. QED BY <1>1, <3>2, <3>3, <3>4 DEF Due, ProbeDue
    <2>3. QED BY <2>1, <2>2
  <1>5. QED BY <1>1, <1>2, <1>3, <1>4 DEF EvasionInv

(* Record 1, the pause, record 2.                                          *)
LEMMA RecordsEvasion ==
    ASSUME IInv, IInv', EvasionInv
    PROVE  SendRecord1 \/ RandomDelay \/ SendRecord2 => EvasionInv'
  <1> SUFFICES ASSUME SendRecord1 \/ RandomDelay \/ SendRecord2
               PROVE  EvasionInv'
    OBVIOUS
  <1>1. UNCHANGED <<cfg, req, host, buf, probe>>
    BY DEF SendRecord1, RandomDelay, SendRecord2, inputs, lookup, evasion
  <1>2. is_meta' = is_meta /\ is_meta \in BOOLEAN BY <1>1 DEF is_meta
  <1>3. Due' = Due BY <1>1, <1>2 DEF Due, SeenFlight, FlightAt, HelloLen
  <1>4. Due' => probe' # "no"
    BY <1>1, <1>3 DEF SendRecord1, RandomDelay, SendRecord2, EvasionInv,
                      IInv, WireInv, HalfCut
  <1>5. ASSUME SendRecord1 \/ RandomDelay PROVE Len(wire') = 2
    BY <1>5 DEF SendRecord1, RandomDelay, IInv, WireInv, HalfCut
  <1>6. CASE SendRecord1
    <2>1. stage = "send" /\ delayed' = delayed
          /\ stage' = IF is_meta THEN "record2" ELSE "delay"
      BY <1>6 DEF SendRecord1
    <2>2. delayed = FALSE BY <2>1 DEF EvasionInv, IInv, TypeOK
    <2>3. stage' = "record2" => is_meta BY <2>1
    <2>4. stage' = "delay" => ~is_meta BY <2>1
    <2>5. stage' = "record2" => delayed' = ~is_meta' BY <1>2, <2>1, <2>2, <2>3
    <2>6. Len(wire') = 2 BY <1>5, <1>6
    <2>7. QED BY <1>2, <1>4, <2>1, <2>2, <2>4, <2>5, <2>6 DEF EvasionInv
  <1>7. CASE RandomDelay
    <2>1. stage = "delay" /\ stage' = "record2" /\ delayed' = TRUE
      BY <1>7 DEF RandomDelay
    <2>2. delayed' = ~is_meta' BY <1>2, <2>1 DEF EvasionInv
    <2>3. QED BY <1>4, <2>1, <2>2 DEF EvasionInv
  <1>8. CASE SendRecord2
    <2>1. stage = "record2" /\ stage' = "tunnel" /\ delayed' = delayed
      BY <1>8 DEF SendRecord2, evasion
    <2>2. delayed' = ~is_meta' BY <1>2, <2>1 DEF EvasionInv
    <2>3. QED BY <1>4, <2>1, <2>2 DEF EvasionInv
  <1>9. QED BY <1>6, <1>7, <1>8

(* Chunks and relayed data never make a stream of records.                 *)
LEMMA StreamEvasion ==
    ASSUME IInv, IInv', EvasionInv
    PROVE  SplitAndWrite \/ CopyUp => EvasionInv'
  <1> SUFFICES ASSUME SplitAndWrite \/ CopyUp PROVE EvasionInv' OBVIOUS
  <1>1. UNCHANGED <<cfg, req, host, buf, probe, delayed, split>>
    BY DEF SplitAndWrite, CopyUp, inputs, lookup, evasion
  <1>2. is_meta' = is_meta BY <1>1 DEF is_meta
  <1>3. Due' = Due BY <1>1, <1>2 DEF Due, SeenFlight, FlightAt, HelloLen
  <1>4. CASE SplitAndWrite
    <2>1. /\ stage \in {"send", "fallback"} /\ stage' \in {"fallback", "tunnel"}
          /\ split = 0
          /\ stage = "fallback" => wire # << >>
      BY <1>4 DEF SplitAndWrite, IInv, WireInv, NothingSent, Falling
    <2>2. Due => probe # "no" BY <2>1 DEF EvasionInv
    <2>3. ~delayed BY <2>1 DEF EvasionInv
    <2>4. QED BY <1>1, <1>3, <2>1, <2>2, <2>3 DEF EvasionInv
  <1>5. CASE CopyUp
    <2>1. stage = "tunnel" /\ stage' = "tunnel" /\ upRead < upSent
      BY <1>5 DEF CopyUp
    <2>2. Falling \/ Followed \/ FullCut
      BY <2>1 DEF IInv, WireInv, TypeOK
    <2>3. wire # << >> BY <2>2 DEF Falling, Followed, FullCut
    <2>4. split # 0 => Len(wire) >= 3
      <3>1. split # 0 => FullCut BY <2>2 DEF Falling, Followed
      <3>2. FullCut => Len(wire) >= 3 BY DEF FullCut
      <3>3. QED BY <3>1, <3>2
    <2>5. split' # 0 => delayed' = ~is_meta'
      BY <1>1, <1>2, <2>4 DEF EvasionInv
    <2>6. Due' => probe' # "no" BY <1>1, <1>3, <2>3 DEF EvasionInv
    <2>7. QED BY <2>1, <2>5, <2>6 DEF EvasionInv
  <1>6. QED BY <1>4, <1>5

(* EvasionInv is kept by every step.                                       *)
LEMMA EvasionStep == IInv /\ IInv' /\ EvasionInv /\ [Next]_vars => EvasionInv'
  <1> SUFFICES ASSUME IInv, IInv', EvasionInv, [Next]_vars PROVE EvasionInv'
    OBVIOUS
  <1> USE DEF inputs, lookup, evasion
  <1>1. CASE UNCHANGED vars BY <1>1, LaterEvasion DEF vars
  <1>2. CASE Environment
    BY <1>2, LaterEvasion
       DEF Environment, ClientSends, ClientHalfCloses, ClientResets,
           RemoteSends, RemoteHalfCloses, RemoteResets
  <1>3. CASE CopyDown \/ ShutdownUp \/ ShutdownDown \/ IoError
    BY <1>3, LaterEvasion DEF CopyDown, ShutdownUp, ShutdownDown, IoError
  <1>4. CASE \/ ActiveProbeDefense \/ PlaintextRedirect \/ ConnectRequest
             \/ ClientLeft \/ Resolve \/ SystemLookup \/ Dial \/ Established
    <2>1. /\ stage \in {"accepted", "resolve", "system", "dial", "connected"}
          /\ stage' \in {"resolve", "system", "dial", "connected", "hello",
                         "done", "failed"}
          /\ UNCHANGED <<wire, delayed>>
      BY <1>4 DEF ActiveProbeDefense, PlaintextRedirect, ConnectRequest,
                  ReadsRequest, ClientLeft, Resolve, SystemLookup, Dial,
                  Established, Answer, GuardRemoteIp
    <2>2. wire = << >> BY <2>1 DEF IInv, ControlInv, Early
    <2>3. QED BY <2>1, <2>2, EarlyEvasion
  <1>5. QED
    BY <1>1, <1>2, <1>3, <1>4, HelloEvasion, RecordsEvasion, StreamEvasion
       DEF Next, Task, Ended

(* A host that is not taken for Meta's gets the pause between its records, *)
(* and no byte of a ClientHello leaves before a probe that is due.         *)
THEOREM EvasionOrdered == Spec => []EvasionOrder
  <1>1. Init => EvasionInv
    <2> SUFFICES ASSUME Init PROVE EvasionInv OBVIOUS
    <2>1. stage = "accepted" /\ wire = << >> /\ delayed = FALSE /\ Len(wire) = 0
      BY DEF Init
    <2>2. QED BY <2>1 DEF EvasionInv
  <1>2. EvasionInv => EvasionOrder BY DEF EvasionInv, EvasionOrder, Due
  <1>3. QED BY <1>1, <1>2, EvasionStep, Inductive, PTL DEF Spec
=============================================================================
