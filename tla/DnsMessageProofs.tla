-------------------------- MODULE DnsMessageProofs --------------------------
(* Proofs about the two cursors, for every name and every datagram.        *)
EXTENDS DnsMessage, TLAPS

(* A string of bytes.                                                      *)
Bytestring(h) == h \in Seq(Byte)

(* Every index into a string of bytes yields a byte, every pair a word.    *)
LEMMA BytesAndWords ==
    ASSUME NEW h, Bytestring(h), NEW i \in Nat
    PROVE  ByteAt(h, i) \in Byte /\ WordAt(h, i) \in Nat
  <1>1. \A j \in Nat : ByteAt(h, j) \in Byte
    <2> TAKE j \in Nat
    <2>1. CASE j < Len(h)
      <3>1. Len(h) \in Nat
        BY DEF Bytestring
      <3>2. j + 1 \in 1 .. Len(h)
        BY <2>1, <3>1
      <3>3. h[j + 1] \in Byte
        BY <3>2 DEF Bytestring
      <3>4. QED
        BY <2>1, <3>3 DEF ByteAt
    <2>2. CASE ~(j < Len(h))
      BY <2>2 DEF ByteAt, Byte
    <2>3. QED
      BY <2>1, <2>2
  <1>2. ByteAt(h, i) \in Nat /\ ByteAt(h, i + 1) \in Nat
    BY <1>1 DEF Byte
  <1>3. WordAt(h, i) \in Nat
    BY <1>2 DEF WordAt
  <1>4. QED
    BY <1>1, <1>3

(* So does every index into a datagram.                                    *)
LEMMA BytesAreBytes ==
    ASSUME reply \in Reply, NEW i \in Nat
    PROVE  At(i) \in Byte /\ At(i) \in Nat /\ Size \in Nat
  <1>1. Bytestring(reply.bytes)
    BY DEF Reply, Bytestring
  <1>2. ByteAt(reply.bytes, i) \in Byte
    BY <1>1, BytesAndWords
  <1>3. Size \in Nat
    BY <1>1 DEF Bytestring, Size
  <1>4. QED
    BY <1>2, <1>3 DEF At, Byte

(* Two bytes of a datagram make a number.                                  *)
LEMMA WordsAreNats ==
    ASSUME reply \in Reply, NEW i \in Nat
    PROVE  U16At(i) \in Nat
  <1>1. Bytestring(reply.bytes)
    BY DEF Reply, Bytestring
  <1>2. WordAt(reply.bytes, i) \in Nat
    BY <1>1, BytesAndWords
  <1>3. QED
    BY <1>2 DEF U16At

(* The bytes that have arrived are the whole message's.                    *)
LEMMA CutAgrees ==
    ASSUME NEW h, Bytestring(h), NEW d, Bytestring(d), Cut(h, d), NEW i \in Nat
    PROVE  /\ i < Len(d) => ByteAt(d, i) = ByteAt(h, i)
           /\ i + 1 < Len(d) => WordAt(d, i) = WordAt(h, i)
  <1>1. \A j \in Nat : j < Len(d) => ByteAt(d, j) = ByteAt(h, j)
    <2> TAKE j \in Nat
    <2> HAVE j < Len(d)
    <2>1. /\ Len(d) <= Len(h) /\ d = SubSeq(h, 1, Len(d))
          /\ Len(d) \in Nat /\ Len(h) \in Nat
      BY DEF Cut, Bytestring
    <2>2. j + 1 \in 1 .. Len(d)
      BY <2>1
    <2>3. SubSeq(h, 1, Len(d))[j + 1] = h[j + 1]
      BY <2>1, <2>2 DEF Bytestring
    <2>4. d[j + 1] = h[j + 1] /\ j < Len(h)
      BY <2>1, <2>3
    <2>5. QED
      BY <2>4 DEF ByteAt
  <1>2. QED
    BY <1>1 DEF WordAt

(* The measure falls when the room does, or when the rank alone does.      *)
LEMMA MeasureFalls ==
    ASSUME NEW a \in Nat, NEW b \in Nat, NEW c \in 0 .. 3, NEW d \in 0 .. 3,
           b < a \/ (b <= a /\ d < c)
    PROVE  4 * b + d < 4 * a + c
  OBVIOUS

(* A cursor that moves on inside the datagram leaves less room.            *)
LEMMA LessRoom ==
    ASSUME NEW n \in Nat, NEW p \in Nat, NEW q \in Nat, p < q, q < n
    PROVE  n - q \in Nat /\ n - p \in Nat /\ n - q < n - p
  OBVIOUS

(* The rank of a program point is at most 3.                               *)
LEMMA RankRange == Rank \in 0 .. 3 /\ Rank' \in 0 .. 3
  BY DEF Rank

(* What a domain's list of offsets looks like.                             *)
LEMMA DomainShape ==
    ASSUME domain \in Domains
    PROVE  /\ domain # NoDomain
           /\ Len(domain) \in Nat /\ Len(domain) >= 2
           /\ \A i \in 1 .. Len(domain) : domain[i] \in Nat
           /\ domain[1] = 0
           /\ \A i, j \in 1 .. Len(domain) : i < j => domain[i] < domain[j]
  <1>1. domain \in Seq(Nat) /\ Len(domain) >= 2 /\ domain[1] = 0
        /\ \A i, j \in 1 .. Len(domain) : i < j => domain[i] < domain[j]
    BY MessagesAssumption
  <1>2. \A i \in 1 .. Len(domain) : domain[i] \in Nat
    BY <1>1
  <1>3. Len(domain) \in Nat
    BY <1>1
  <1>4. domain # NoDomain
    BY <1>1 DEF NoDomain
  <1>5. QED
    BY <1>1, <1>2, <1>3, <1>4

-----------------------------------------------------------------------------

(* Both functions start inside the invariant.                              *)
LEMMA InitInv == Init => IInv
  <1> SUFFICES ASSUME Init PROVE IInv
    OBVIOUS
  <1>1. CASE pc = "build" /\ domain \in Domains /\ reply = NoReply
    <2>1. Building
      BY <1>1, DomainShape DEF Building
    <2>2. TypeOK
      BY <1>1 DEF Init, TypeOK
    <2>3. QED
      BY <1>1, <2>1, <2>2
         DEF Init, IInv, InBounds, QueryNamesDomain, BuildInv, OnTrack, FirstAddress, NoReply
  <1>2. CASE pc = "header" /\ domain = NoDomain /\ reply \in Replies
    <2>1. ~Building
      BY <1>2 DEF Building
    <2>2. TypeOK
      BY <1>2 DEF Init, TypeOK
    <2>3. QED
      BY <1>2, <2>1, <2>2
         DEF Init, IInv, InBounds, QueryNamesDomain, BuildInv, OnTrack, FirstAddress
  <1>3. QED
    BY <1>1, <1>2 DEF Init

(* The steps of build_dns_query.                                           *)
LEMMA BuildStep ==
    ASSUME IInv, BuildHeader \/ WriteLabel \/ WriteTail
    PROVE  IInv'
  <1>1. domain \in Domains /\ reply = NoReply /\ pc \in {"build", "label"}
    <2>1. pc \in {"build", "label"}
      BY DEF BuildHeader, WriteLabel, WriteTail
    <2>2. QED
      BY <2>1 DEF IInv, TypeOK
  <1> DEFINE N == Len(domain)
  <1>2. /\ domain # NoDomain
        /\ N \in Nat /\ N >= 2
        /\ \A i \in 1 .. N : domain[i] \in Nat
        /\ domain[1] = 0
        /\ \A i, j \in 1 .. N : i < j => domain[i] < domain[j]
    BY <1>1, DomainShape
  <1>3. domain' = domain /\ reply' = reply /\ ancount' = ancount
    BY DEF BuildHeader, WriteLabel, WriteTail
  <1>4. Building /\ Building'
    BY <1>2, <1>3 DEF Building
  <1>5. TooLong' = TooLong
    BY <1>3 DEF TooLong, DomainLen
  <1>6. \A i : LabelLen(i)' = LabelLen(i)
    BY <1>3 DEF LabelLen
  <1>7. pos \in Nat /\ left \in Nat /\ ancount \in Nat /\ asked \subseteq Nat /\ result \in Nat
    BY DEF IInv, TypeOK
  <1>8. asked \subseteq 1 .. N - 1
    BY <1>4 DEF IInv, BuildInv
  <1>0. OnTrack' /\ FirstAddress'
    BY <1>1, <1>3 DEF OnTrack, FirstAddress, NoReply
  <1>9. CASE BuildHeader
    <2>1. asked = {} /\ asked' = {}
      BY <1>4, <1>9 DEF IInv, BuildInv, BuildHeader
    <2>2. CASE TooLong
      <3>1. pc' = "done" /\ result' = 0 /\ UNCHANGED <<pos, left, touched>>
        BY <1>9, <2>2 DEF BuildHeader, Return
      <3>2. TypeOK'
        BY <1>1, <1>3, <1>7, <2>1, <3>1 DEF IInv, TypeOK
      <3>3. InBounds'
        BY <1>4, <3>1 DEF IInv, InBounds
      <3>4. QueryNamesDomain'
        BY <1>5, <2>2 DEF QueryNamesDomain
      <3>5. BuildInv'
        BY <2>1, <3>1 DEF BuildInv
      <3>6. QED
        BY <1>0, <3>1, <3>2, <3>3, <3>4, <3>5 DEF IInv
    <2>3. CASE ~TooLong
      <3>1. /\ touched' = 0 .. 11 /\ pos' = 12 /\ left' = N - 1
            /\ pc' = "label" /\ result' = result
        BY <1>9, <2>3 DEF BuildHeader, DNS_HEADER_SIZE
      <3>2. TypeOK'
        BY <1>1, <1>2, <1>3, <1>7, <2>1, <3>1 DEF TypeOK
      <3>3. InBounds'
        BY <1>4, <3>1 DEF InBounds, QUERY_BUF
      <3>4. QueryNamesDomain'
        BY <3>1 DEF QueryNamesDomain
      <3>5. Label' = 1
        BY <1>2, <1>3, <3>1 DEF Label
      <3>6. BuildInv'
        <4>1. left' < Len(domain')
          BY <1>2, <1>3, <3>1
        <4>2. pos' \in DNS_HEADER_SIZE .. DNS_HEADER_SIZE + domain'[Label']
          BY <1>2, <1>3, <3>1, <3>5 DEF DNS_HEADER_SIZE
        <4>3. {i \in 1 .. Label' - 1 : LabelLen(i)' > 0} = {}
          BY <3>5
        <4>4. QED
          BY <1>5, <2>1, <2>3, <3>1, <4>1, <4>2, <4>3 DEF BuildInv
      <3>7. QED
        BY <1>0, <3>1, <3>2, <3>3, <3>4, <3>6 DEF IInv
    <2>4. QED
      BY <2>2, <2>3
  <1>10. CASE pc = "label" /\ (WriteLabel \/ WriteTail)
    <2>1. /\ ~TooLong /\ left < N
          /\ pos \in 12 .. 12 + domain[Label]
          /\ asked = {i \in 1 .. Label - 1 : LabelLen(i) > 0}
      BY <1>4, <1>10 DEF IInv, BuildInv, DNS_HEADER_SIZE
    <2>2. Label \in 1 .. N
      BY <1>2, <1>7, <2>1 DEF Label
    <2>3. domain[Label] \in Nat /\ domain[N] \in Nat
      BY <1>2, <2>2
    <2>4. domain[N] <= 101
      BY <2>1, <2>3 DEF TooLong, DomainLen, MAX_DOMAIN
    <2>0. pos \in Nat /\ pos >= 12 /\ pos <= 12 + domain[Label]
      BY <1>7, <2>1, <2>3
    <2>5. CASE WriteLabel
      <3>1. left > 0 /\ left' = left - 1 /\ pc' = "label" /\ result' = result
        BY <1>10, <2>5 DEF WriteLabel
      <3>2. Label \in 1 .. N - 1 /\ Label' = Label + 1
        BY <1>2, <1>3, <1>7, <2>2, <3>1 DEF Label
      <3>3. /\ domain[Label + 1] \in Nat /\ domain[Label] < domain[Label + 1]
        BY <1>2, <2>2, <3>2
      <3>4. domain[Label + 1] <= domain[N]
        <4>1. CASE Label + 1 = N
          BY <4>1, <2>3
        <4>2. CASE Label + 1 # N
          BY <1>2, <2>3, <3>2, <3>3, <4>2
        <4>3. QED
          BY <4>1, <4>2
      <3> DEFINE len == LabelLen(Label)
      <3>5. len \in Nat /\ len = domain[Label + 1] - domain[Label] - 1
        BY <2>3, <3>3 DEF LabelLen
      <3>6. pos + 1 + len <= 12 + domain[Label + 1]
        BY <2>0, <2>3, <3>3, <3>5
      <3>7. LabelFits(len)
        BY <1>7, <2>4, <2>3, <3>3, <3>4, <3>5, <3>6 DEF LabelFits, LABEL_LIMIT
      <3>8. /\ touched' \subseteq 0 .. 127
            /\ pos' \in 12 .. 12 + domain[Label + 1]
            /\ asked' = {i \in 1 .. Label : LabelLen(i) > 0}
            /\ touched' \subseteq Nat
        <4>1. CASE len > 0
          <5>1. touched' = pos .. pos + len /\ pos' = pos + 1 + len
                /\ asked' = asked \cup {Label}
            BY <2>5, <3>7, <4>1 DEF WriteLabel
          <5>2. pos + len <= 127
            BY <1>7, <2>4, <2>3, <3>3, <3>4, <3>5, <3>6
          <5>3. \A k \in pos .. pos + len : k \in 0 .. 127 /\ k \in Nat
            BY <1>7, <3>5, <5>2
          <5>4. asked' = {i \in 1 .. Label : LabelLen(i) > 0}
            BY <2>1, <3>2, <4>1, <5>1
          <5>5. pos' \in 12 .. 12 + domain[Label + 1]
            <6>1. pos + 1 + len \in Nat /\ 12 <= pos + 1 + len
              BY <2>0, <3>5
            <6>2. pos' = pos + 1 + len /\ domain[Label + 1] \in Nat
              BY <3>3, <5>1
            <6>3. QED
              BY <3>6, <6>1, <6>2
          <5>6. QED
            BY <5>1, <5>3, <5>4, <5>5
        <4>2. CASE ~(len > 0)
          <5>1. touched' = {} /\ pos' = pos /\ asked' = asked
            BY <2>5, <4>2 DEF WriteLabel
          <5>2. asked' = {i \in 1 .. Label : LabelLen(i) > 0}
            BY <2>1, <3>2, <4>2, <5>1
          <5>3. pos' \in 12 .. 12 + domain[Label + 1]
            BY <1>7, <2>1, <2>3, <3>3, <5>1
          <5>4. QED
            BY <5>1, <5>2, <5>3
        <4>3. QED
          BY <4>1, <4>2
      <3>9. asked' \subseteq 1 .. N - 1 /\ asked' \subseteq Nat
        BY <1>2, <3>2, <3>8
      <3>10. TypeOK'
        BY <1>1, <1>3, <1>7, <3>1, <3>8, <3>9, <2>3, <3>3 DEF TypeOK
      <3>11. InBounds'
        BY <1>4, <3>8 DEF InBounds, QUERY_BUF
      <3>12. QueryNamesDomain'
        BY <3>1 DEF QueryNamesDomain
      <3>13. BuildInv'
        <4>1. left' < Len(domain')
          BY <1>2, <1>3, <1>7, <2>1, <3>1
        <4>2. pos' \in DNS_HEADER_SIZE .. DNS_HEADER_SIZE + domain'[Label']
          BY <1>3, <3>2, <3>8 DEF DNS_HEADER_SIZE
        <4>3. Label' - 1 = Label
          BY <2>2, <3>2
        <4>4. asked' = {i \in 1 .. Label' - 1 : LabelLen(i)' > 0}
          BY <1>6, <3>8, <4>3
        <4>5. asked' \subseteq 1 .. Len(domain') - 1
          BY <1>3, <3>9
        <4>6. QED
          BY <1>5, <2>1, <3>1, <4>1, <4>2, <4>4, <4>5 DEF BuildInv
      <3>14. QED
        BY <1>0, <3>1, <3>10, <3>11, <3>12, <3>13 DEF IInv
    <2>6. CASE WriteTail
      <3>1. /\ left = 0 /\ touched' = pos .. pos + 4 /\ pos' = pos + 5
            /\ pc' = "done" /\ result' = pos + 5 /\ left' = left /\ asked' = asked
        BY <2>6 DEF WriteTail, Return
      <3>2. Label = N
        BY <1>2, <3>1 DEF Label
      <3>3. pos \in 12 .. 113
        BY <1>7, <2>1, <2>3, <2>4, <3>2
      <3>4. \A k \in pos .. pos + 4 : k \in 0 .. 127 /\ k \in Nat
        BY <3>3
      <3>5. TypeOK'
        BY <1>1, <1>3, <1>7, <3>1, <3>4 DEF TypeOK
      <3>6. InBounds'
        <4>1. touched' \subseteq 0 .. 127
          BY <3>1, <3>4
        <4>2. QED
          BY <1>4, <4>1 DEF InBounds, QUERY_BUF
      <3>7. result' \in 17 .. QUERY_BUF
        BY <3>1, <3>3 DEF QUERY_BUF
      <3>8. asked' = {i \in 1 .. Len(domain') - 1 : LabelLen(i)' > 0}
        BY <1>3, <1>6, <2>1, <3>1, <3>2
      <3>9. QueryNamesDomain'
        BY <3>7, <3>8 DEF QueryNamesDomain
      <3>10. BuildInv'
        BY <1>3, <1>8, <3>1 DEF BuildInv
      <3>11. QED
        BY <1>0, <3>1, <3>5, <3>6, <3>9, <3>10 DEF IInv
    <2>7. QED
      BY <1>10, <2>5, <2>6
  <1>11. QED
    BY <1>9, <1>10 DEF WriteLabel, WriteTail

(* The steps of parse_dns_response: what they touch and where they lead.   *)
LEMMA ReadFacts ==
    ASSUME IInv, ReadHeader \/ NextRecord \/ SkipName \/ ReadRecord
    PROVE  /\ domain = NoDomain /\ reply \in Replies
           /\ domain' = domain /\ reply' = reply /\ asked' = asked
           /\ pc' \in {"question", "answer", "qname", "aname", "record", "done"}
           /\ pos' \in Nat /\ left' \in Nat /\ ancount' \in Nat /\ result' \in Nat
           /\ touched' \subseteq 0 .. Size - 1
           /\ 4 * Room' + Rank' < 4 * Room + Rank
  <1>1. pc \in {"header", "question", "answer", "qname", "aname", "record"}
    BY DEF ReadHeader, NextRecord, SkipName, ReadRecord
  <1>2. domain = NoDomain /\ reply \in Replies
    BY <1>1 DEF IInv, TypeOK
  <1>3. reply \in Reply
    BY <1>2, MessagesAssumption
  <1>4. domain' = domain /\ reply' = reply /\ asked' = asked
    BY DEF ReadHeader, NextRecord, SkipName, ReadRecord
  <1>5. pos \in Nat /\ left \in Nat /\ ancount \in Nat /\ result \in Nat
    BY DEF IInv, TypeOK
  <1>6. Size \in Nat /\ Size' = Size
    BY <1>3, <1>4, BytesAreBytes DEF Size
  <1>7. \A i \in Nat : U16At(i) \in Nat
    BY <1>3, WordsAreNats
  <1>8. \A i \in Nat : At(i) \in Byte
    BY <1>3, BytesAreBytes
  <1> DEFINE Goal == /\ pc' \in {"question", "answer", "qname", "aname", "record", "done"}
                     /\ pos' \in Nat /\ left' \in Nat /\ ancount' \in Nat /\ result' \in Nat
                     /\ touched' \subseteq 0 .. Size - 1
                     /\ 4 * Room' + Rank' < 4 * Room + Rank
  <1>9. ASSUME ReadHeader PROVE Goal
    <2>0. Rank = 3 /\ pc = "header"
      BY <1>9 DEF ReadHeader, Rank
    <2>1. CASE pc' = "done"
      <3>1. Rank' = 0
        BY <2>1 DEF Rank
      <3>2. result' = 0 /\ UNCHANGED <<pos, left, ancount>>
        BY <1>9, <2>1 DEF ReadHeader, Return
      <3>3. touched' \subseteq 0 .. Size - 1
        <4>1. \/ touched' = {}
              \/ Size >= 12 /\ touched' = 3 .. 7
          BY <1>9 DEF ReadHeader, DNS_HEADER_SIZE
        <4>2. QED
          BY <4>1, <1>6
      <3>4. Room' = Room /\ Room \in Nat
        BY <1>5, <1>6, <3>2 DEF Room
      <3>5. 4 * Room' + Rank' < 4 * Room + Rank
        BY <2>0, <3>1, <3>4, RankRange, MeasureFalls
      <3>6. QED
        BY <1>5, <2>1, <3>2, <3>3, <3>5
    <2>2. CASE pc' # "done"
      <3>1. /\ Size >= 12 /\ touched' = 3 .. 7
            /\ left' = U16At(4) /\ ancount' = U16At(6) /\ pos' = 12
            /\ pc' = "question" /\ result' = result
        BY <1>9, <2>2 DEF ReadHeader, Return, DNS_HEADER_SIZE
      <3>2. Rank' = 3
        BY <3>1 DEF Rank
      <3>3. pos = 0
        BY <2>0 DEF IInv
      <3>4. Room = Size /\ Room' = Size - 12
        BY <1>6, <3>1, <3>3 DEF Room
      <3>5. left' \in Nat /\ ancount' \in Nat
        BY <1>7, <3>1
      <3>6. touched' \subseteq 0 .. Size - 1
        BY <1>6, <3>1
      <3>7. 4 * Room' + Rank' < 4 * Room + Rank
        <4>1. Room \in Nat /\ Room' \in Nat /\ Room' < Room
          BY <1>6, <3>1, <3>4
        <4>2. QED
          BY <4>1, RankRange, MeasureFalls
      <3>8. QED
        BY <1>5, <3>1, <3>5, <3>6, <3>7
    <2>3. QED
      BY <2>1, <2>2
  <1>10. ASSUME NextRecord PROVE Goal
    <2>1. touched' = {} /\ pos' = pos /\ ancount' = ancount
          /\ pc \in {"question", "answer"}
      BY <1>10 DEF NextRecord
    <2>2. Room' = Room /\ Room \in Nat
      BY <1>5, <1>6, <2>1 DEF Room
    <2>3. left' \in Nat /\ result' \in Nat
      BY <1>5, <1>10 DEF NextRecord, Return
    <2>4. \/ pc' \in {"qname", "aname"}
          \/ pc = "question" /\ pc' = "answer"
          \/ pc = "answer" /\ pc' = "done"
      BY <1>10 DEF NextRecord, Return
    <2>5. Rank' < Rank /\ Rank \in Nat /\ Rank' \in Nat
      BY <2>1, <2>4 DEF Rank
    <2>6. pc' \in {"question", "answer", "qname", "aname", "record", "done"}
      BY <2>4
    <2>7. 4 * Room' + Rank' < 4 * Room + Rank
      <3>1. Room' \in Nat /\ Room' <= Room
        BY <2>2
      <3>2. QED
        BY <2>2, <2>5, <3>1, RankRange, MeasureFalls
    <2>8. QED
      BY <1>5, <2>1, <2>3, <2>6, <2>7
  <1>11. ASSUME SkipName PROVE Goal
    <2>1. pc \in {"qname", "aname"} /\ left' = left /\ ancount' = ancount /\ Rank = 1
      BY <1>11 DEF SkipName, Rank
    <2>2. CASE pos >= Size
      <3>1. touched' = {} /\ pc' = "done" /\ result' = 0 /\ pos' = pos
        BY <1>5, <1>6, <1>11, <2>2 DEF SkipName, PastEnd, Return
      <3>2. Room' = Room /\ Room \in Nat /\ Rank' = 0
        BY <1>5, <1>6, <3>1 DEF Room, Rank
      <3>3. 4 * Room' + Rank' < 4 * Room + Rank
        BY <2>1, <3>2, RankRange, MeasureFalls
      <3>4. QED
        BY <1>5, <2>1, <3>1, <3>3
    <2>3. CASE pos < Size
      <3>1. /\ touched' = {pos} /\ result' = result
            /\ pc' \in {"question", "record", "qname", "aname"}
        BY <1>5, <1>6, <1>11, <2>3 DEF SkipName, NameEnds
      <3>2. At(pos) \in Nat
        BY <1>5, <1>8 DEF Byte
      <3>3. pos' \in Nat /\ pos' > pos
        BY <1>5, <1>6, <1>11, <2>3, <3>2 DEF SkipName, NameEnds, AfterPointer
      <3>4. Room' \in Nat /\ Room \in Nat /\ Room' < Room
        <4>1. Room = Size - pos
          BY <2>3 DEF Room
        <4>2. Room' = IF pos' < Size THEN Size - pos' ELSE 0
          BY <1>6 DEF Room
        <4>3. QED
          <5>1. CASE pos' < Size
            <6>1. Room' = Size - pos'
              BY <4>2, <5>1
            <6>2. QED
              BY <1>5, <1>6, <3>3, <4>1, <5>1, <6>1, LessRoom
          <5>2. CASE ~(pos' < Size)
            <6>1. Room' = 0
              BY <4>2, <5>2
            <6>2. Room \in Nat /\ Room > 0
              BY <1>5, <1>6, <2>3, <4>1
            <6>3. QED
              BY <6>1, <6>2
          <5>3. QED
            BY <5>1, <5>2
      <3>5. Rank' \in 0 .. 3
        BY <3>1 DEF Rank
      <3>6. 4 * Room' + Rank' < 4 * Room + Rank
        BY <3>4, RankRange, MeasureFalls
      <3>7. pos \in 0 .. Size - 1
        BY <1>5, <1>6, <2>3
      <3>8. QED
        BY <1>5, <2>1, <3>1, <3>3, <3>6, <3>7
    <2>4. QED
      BY <1>5, <1>6, <2>2, <2>3
  <1>12. ASSUME ReadRecord PROVE Goal
    <2>1. pc = "record" /\ left' = left /\ ancount' = ancount /\ Rank = 1
      BY <1>12 DEF ReadRecord, Rank
    <2>2. RdLen \in Nat /\ RData \in Nat /\ RData = pos + 10
      BY <1>5, <1>7 DEF RdLen, RData, DNS_RR_HEADER_MIN_SIZE
    <2>3. CASE ~HeaderFits
      <3>1. touched' = {} /\ pc' = "done" /\ result' = 0 /\ pos' = pos
        BY <1>12, <2>3 DEF ReadRecord, Return
      <3>2. Room' = Room /\ Room \in Nat /\ Rank' = 0
        BY <1>5, <1>6, <3>1 DEF Room, Rank
      <3>3. 4 * Room' + Rank' < 4 * Room + Rank
        BY <2>1, <3>2, RankRange, MeasureFalls
      <3>4. QED
        BY <1>5, <2>1, <3>1, <3>3
    <2>4. CASE HeaderFits
      <3>1. pos + 10 <= Size
        BY <2>4 DEF HeaderFits, DNS_RR_HEADER_MIN_SIZE
      <3> DEFINE head == {pos, pos + 1, pos + 8, pos + 9}
      <3>2. \A k \in head : k \in 0 .. Size - 1
        BY <1>5, <1>6, <3>1
      <3>3. CASE RData + RdLen > Size
        <4>1. touched' = head /\ pc' = "done" /\ result' = 0 /\ pos' = pos
          BY <1>6, <1>12, <2>2, <2>4, <3>3 DEF ReadRecord, Return
        <4>2. Room' = Room /\ Room \in Nat /\ Rank' = 0
          BY <1>5, <1>6, <4>1 DEF Room, Rank
        <4>3. touched' \subseteq 0 .. Size - 1
          BY <3>2, <4>1
        <4>4. 4 * Room' + Rank' < 4 * Room + Rank
          BY <2>1, <4>2, RankRange, MeasureFalls
        <4>5. QED
          BY <1>5, <2>1, <4>1, <4>3, <4>4
      <3>4. CASE RData + RdLen <= Size /\ IsAddress
        <4>1. touched' = head \cup RData .. RData + 3 /\ pc' = "done"
              /\ result' = RData /\ pos' = RData
          BY <1>6, <1>12, <2>2, <2>4, <3>4 DEF ReadRecord, Return
        <4>2. RdLen = 4
          BY <3>4 DEF IsAddress
        <4>3. \A k \in RData .. RData + 3 : k \in 0 .. Size - 1
          BY <1>6, <2>2, <3>4, <4>2
        <4>4. touched' \subseteq 0 .. Size - 1
          BY <3>2, <4>1, <4>3
        <4>5. Room \in Nat /\ Room' \in Nat /\ Room' <= Room /\ Rank' = 0
          BY <1>5, <1>6, <2>2, <3>1, <4>1 DEF Room, Rank
        <4>6. 4 * Room' + Rank' < 4 * Room + Rank
          <5>1. Rank' < Rank
            BY <2>1, <4>5
          <5>2. QED
            BY <4>5, <5>1, RankRange, MeasureFalls
        <4>7. QED
          BY <1>5, <2>1, <2>2, <4>1, <4>4, <4>6
      <3>5. CASE RData + RdLen <= Size /\ ~IsAddress
        <4>1. touched' = head /\ pos' = RData + RdLen /\ pc' = "answer" /\ result' = result
          BY <1>6, <1>12, <2>2, <2>4, <3>5 DEF ReadRecord, SkipRecord
        <4>2. touched' \subseteq 0 .. Size - 1
          BY <3>2, <4>1
        <4>3. Rank' = 2
          BY <4>1 DEF Rank
        <4>4. Room \in Nat /\ Room' \in Nat /\ Room' < Room
          BY <1>5, <1>6, <2>2, <3>1, <3>5, <4>1 DEF Room
        <4>5. 4 * Room' + Rank' < 4 * Room + Rank
          BY <4>4, RankRange, MeasureFalls
        <4>6. pos' \in Nat
          BY <2>2, <4>1
        <4>7. QED
          BY <1>5, <2>1, <4>1, <4>2, <4>5, <4>6
      <3>6. QED
        BY <1>6, <2>2, <3>3, <3>4, <3>5
    <2>5. QED
      BY <2>3, <2>4
  <1>13. Goal
    BY <1>9, <1>10, <1>11, <1>12
  <1>14. QED
    BY <1>2, <1>4, <1>13

(* What is known of a sound reply.                                         *)
LEMMA Described ==
    ASSUME reply \in Replies, reply.sound
    PROVE  LET n == Len(reply.entries)
               h == reply.whole
           IN  /\ Bytestring(h) /\ Bytestring(reply.bytes) /\ Cut(h, reply.bytes)
               /\ reply.questions \in Nat /\ n \in Nat /\ reply.questions <= n
               /\ ByteAt(h, 3) % 16 = 0 /\ WordAt(h, 4) = reply.questions
               /\ WordAt(h, 6) = n - reply.questions
               /\ \A i \in 1 .. n :
                     LET e == reply.entries[i]
                     IN  /\ e \in Entry /\ Named(h, e)
                         /\ e.from = IF i = 1 THEN DNS_HEADER_SIZE ELSE EntryEnd(reply, i - 1)
                         /\ \A j \in 1 .. i - 1 : EntryEnd(reply, j) <= e.from
                         /\ i > reply.questions => /\ WordAt(h, e.to) = e.type
                                                  /\ WordAt(h, e.to + 8) = e.len
  <1>1. reply \in Reply /\ WellFormed(reply) /\ Cut(reply.whole, reply.bytes)
    BY MessagesAssumption
  <1>2. /\ Bytestring(reply.whole) /\ Bytestring(reply.bytes) /\ reply.questions \in Nat
        /\ reply.entries \in Seq(Entry)
    BY <1>1 DEF Reply, Bytestring
  <1>3. Len(reply.entries) \in Nat /\ \A i \in 1 .. Len(reply.entries) : reply.entries[i] \in Entry
    BY <1>2
  <1>4. QED
    BY <1>1, <1>2, <1>3 DEF WellFormed

(* Where the entries of a sound reply lie.                                 *)
LEMMA EntriesInOrder ==
    ASSUME reply \in Replies, reply.sound
    PROVE  \A i \in 1 .. Len(reply.entries) :
             LET e == reply.entries[i]
             IN  /\ e.from \in Nat /\ e.to \in Nat /\ e.type \in Nat /\ e.len \in Nat
                 /\ e.parts \subseteq Nat /\ EntryEnd(reply, i) \in Nat
                 /\ 12 <= e.from /\ e.from < e.to /\ e.to + 4 <= EntryEnd(reply, i)
                 /\ i <= reply.questions => EntryEnd(reply, i) = e.to + 4
                 /\ i > reply.questions => EntryEnd(reply, i) = e.to + 10 + e.len
  <1> DEFINE n == Len(reply.entries)
  <1>1. /\ n \in Nat /\ reply.questions \in Nat
        /\ \A i \in 1 .. n :
              LET e == reply.entries[i]
              IN  /\ e \in Entry /\ Named(reply.whole, e)
                  /\ e.from = IF i = 1 THEN DNS_HEADER_SIZE ELSE EntryEnd(reply, i - 1)
                  /\ \A j \in 1 .. i - 1 : EntryEnd(reply, j) <= e.from
    BY Described
  <1>2. ASSUME NEW i \in 1 .. n
        PROVE  LET e == reply.entries[i]
               IN  /\ e.from \in Nat /\ e.to \in Nat /\ e.type \in Nat /\ e.len \in Nat
                   /\ e.parts \subseteq Nat /\ e.from < e.to
    BY <1>1 DEF Entry, Named
  <1>3. ASSUME NEW i \in 1 .. n
        PROVE  LET e == reply.entries[i]
               IN  /\ EntryEnd(reply, i) \in Nat /\ e.to + 4 <= EntryEnd(reply, i)
                   /\ i <= reply.questions => EntryEnd(reply, i) = e.to + 4
                   /\ i > reply.questions => EntryEnd(reply, i) = e.to + 10 + e.len
    <2> DEFINE to  == reply.entries[i].to
               len == reply.entries[i].len
    <2>1. to \in Nat /\ len \in Nat /\ i \in Nat
      BY <1>1, <1>2
    <2>2. EntryEnd(reply, i) = to + (IF i <= reply.questions THEN 4 ELSE 10 + len)
      BY DEF EntryEnd, DNS_RR_HEADER_MIN_SIZE
    <2> HIDE DEF to, len
    <2>3. /\ EntryEnd(reply, i) \in Nat /\ to + 4 <= EntryEnd(reply, i)
          /\ i <= reply.questions => EntryEnd(reply, i) = to + 4
          /\ i > reply.questions => EntryEnd(reply, i) = to + 10 + len
      BY <1>1, <2>1, <2>2
    <2>4. QED
      BY <2>3 DEF to, len
  <1>4. ASSUME NEW i \in 1 .. n
        PROVE  12 <= reply.entries[i].from
    <2>1. CASE i = 1
      BY <1>1, <2>1 DEF DNS_HEADER_SIZE
    <2>2. CASE i # 1
      <3>1. 1 \in 1 .. i - 1 /\ 1 \in 1 .. n
        BY <1>1, <2>2
      <3>2. EntryEnd(reply, 1) <= reply.entries[i].from
        BY <1>1, <3>1
      <3>3. /\ reply.entries[1].from = 12 /\ reply.entries[1].from < reply.entries[1].to
            /\ reply.entries[1].to \in Nat
        BY <1>1, <1>2, <3>1 DEF DNS_HEADER_SIZE
      <3>4. EntryEnd(reply, 1) \in Nat /\ reply.entries[1].to + 4 <= EntryEnd(reply, 1)
        BY <1>3, <3>1
      <3>5. reply.entries[i].from \in Nat
        BY <1>2
      <3>6. QED
        BY <3>2, <3>3, <3>4, <3>5
    <2>3. QED
      BY <2>1, <2>2
  <1>5. QED
    BY <1>2, <1>3, <1>4

(* When the datagram ends inside entry c, no later entry is usable.        *)
LEMMA NothingBehind ==
    ASSUME reply \in Replies, reply.sound, NEW c \in 1 .. Len(reply.entries),
           Size < EntryEnd(reply, c), \A i \in 1 .. c - 1 : ~Usable(i)
    PROVE  \A i \in 1 .. Len(reply.entries) : ~Usable(i)
  <1> DEFINE n == Len(reply.entries)
  <1>1. n \in Nat /\ reply.questions \in Nat /\ Bytestring(reply.bytes)
    BY Described
  <1>2. Size \in Nat
    BY <1>1 DEF Size, Bytestring
  <1> SUFFICES ASSUME NEW i \in 1 .. n, Usable(i) PROVE FALSE
    OBVIOUS
  <1>3. i \in Nat /\ c \in Nat /\ i >= c
    BY <1>1
  <1> DEFINE to   == reply.entries[i].to
             from == reply.entries[i].from
  <1>4. /\ to \in Nat /\ from \in Nat /\ from < to /\ EntryEnd(reply, i) \in Nat
        /\ EntryEnd(reply, c) \in Nat
        /\ i > reply.questions => EntryEnd(reply, i) = to + 10 + reply.entries[i].len
    BY EntriesInOrder
  <1>5. i > reply.questions /\ reply.entries[i].len = 4 /\ to + 10 + 4 <= Size
    BY DEF Usable, DNS_RR_HEADER_MIN_SIZE
  <1>6. c < i => EntryEnd(reply, c) <= from
    <2>1. c < i => c \in 1 .. i - 1
      BY <1>3
    <2>2. QED
      BY <2>1, Described
  <1> HIDE DEF to, from
  <1>7. CASE c = i
    BY <1>2, <1>4, <1>5, <1>7
  <1>8. CASE c < i
    BY <1>2, <1>4, <1>5, <1>6, <1>8
  <1>9. QED
    BY <1>3, <1>7, <1>8

(* What has arrived of a sound reply reads as the whole message does.      *)
LEMMA SoundBytes ==
    ASSUME reply \in Replies, reply.sound, NEW i \in Nat
    PROVE  /\ At(i) \in Byte /\ U16At(i) \in Nat /\ Size \in Nat
           /\ i < Size => At(i) = ByteAt(reply.whole, i)
           /\ i + 1 < Size => U16At(i) = WordAt(reply.whole, i)
  <1>1. Bytestring(reply.whole) /\ Bytestring(reply.bytes) /\ Cut(reply.whole, reply.bytes)
    BY Described
  <1>2. reply \in Reply
    BY MessagesAssumption
  <1>3. At(i) \in Byte /\ U16At(i) \in Nat /\ Size \in Nat
    BY <1>2, BytesAreBytes, WordsAreNats
  <1>4. /\ i < Len(reply.bytes) => ByteAt(reply.bytes, i) = ByteAt(reply.whole, i)
        /\ i + 1 < Len(reply.bytes) => WordAt(reply.bytes, i) = WordAt(reply.whole, i)
    BY <1>1, CutAgrees, Zenon
  <1>5. QED
    BY <1>3, <1>4 DEF At, U16At, Size

(* Returning without an address is right when no record is usable.         *)
LEMMA NothingFound ==
    ASSUME reply' = reply, pc' = "done", result' = 0,
           reply.sound => \A i \in 1 .. Len(reply.entries) : ~Usable(i)
    PROVE  OnTrack' /\ FirstAddress'
  <1>1. OnTrack'
    BY DEF OnTrack
  <1>2. \A i : Usable(i)' <=> Usable(i)
    BY DEF Usable, Size
  <1>3. FirstAddress'
    BY <1>2 DEF FirstAddress
  <1>4. QED
    BY <1>1, <1>3

(* Giving up inside the current entry leaves no usable record unread.      *)
LEMMA GivingUp ==
    ASSUME reply \in Replies, OnTrack, reply' = reply, pc' = "done", result' = 0,
           pc \in {"qname", "aname", "record"},
           reply.sound => Size < EntryEnd(reply, Current)
    PROVE  OnTrack' /\ FirstAddress'
  <1>1. ASSUME reply.sound PROVE \A i \in 1 .. Len(reply.entries) : ~Usable(i)
    <2>1. /\ Current \in 1 .. Len(reply.entries)
          /\ \A i \in 1 .. Current - 1 : ~Usable(i)
      BY <1>1 DEF OnTrack
    <2>2. QED
      BY <1>1, <2>1, NothingBehind
  <1>2. QED
    BY <1>1, NothingFound

(* What it takes to be on track after a step that does not return.         *)
LEMMA Landing ==
    ASSUME reply' = reply, pc' # "done",
           pc' \in {"question", "answer", "qname", "aname", "record"},
           reply.sound =>
             LET n == Len(reply.entries)
                 here == pc' \in {"question", "answer"}
                 c == (IF pc' \in {"question", "qname"} THEN reply.questions ELSE n) - left'
             IN  /\ ancount' = n - reply.questions
                 /\ c \in (IF here THEN 0 ELSE 1) .. n
                 /\ pc' \in {"answer", "aname", "record"} => c >= reply.questions
                 /\ pc' \in {"aname", "record"} => c > reply.questions
                 /\ \A i \in 1 .. (IF here THEN c ELSE c - 1) : ~Usable(i)
                 /\ here => pos' = IF c = 0 THEN DNS_HEADER_SIZE ELSE EntryEnd(reply, c)
                 /\ pc' \in {"qname", "aname"} => pos' \in reply.entries[c].parts
                 /\ pc' = "record" => pos' = reply.entries[c].to
    PROVE  OnTrack' /\ FirstAddress'
  <1>1. FirstAddress'
    BY DEF FirstAddress
  <1>2. \A i : Usable(i)' <=> Usable(i)
    BY DEF Usable, Size
  <1>3. OnTrack'
    BY <1>2 DEF OnTrack, Current, EntryEnd
  <1>4. QED
    BY <1>1, <1>3

(* The header tells the number of questions and of answers.                *)
LEMMA HeaderOnTrack ==
    ASSUME IInv, ReadHeader
    PROVE  OnTrack' /\ FirstAddress'
  <1> DEFINE n == Len(reply.entries)
  <1>1. reply \in Replies /\ reply' = reply
    BY DEF IInv, TypeOK, ReadHeader
  <1>2. ASSUME reply.sound
        PROVE  /\ n \in Nat /\ reply.questions \in Nat /\ reply.questions <= n /\ Size \in Nat
               /\ Size < 12 => \A i \in 1 .. n : ~Usable(i)
               /\ Size >= 12 => /\ ~Failed /\ U16At(4) = reply.questions
                                /\ U16At(6) = n - reply.questions
    <2>1. /\ n \in Nat /\ reply.questions \in Nat /\ reply.questions <= n
          /\ ByteAt(reply.whole, 3) % 16 = 0 /\ WordAt(reply.whole, 4) = reply.questions
          /\ WordAt(reply.whole, 6) = n - reply.questions
      BY <1>1, <1>2, Described
    <2>2. /\ 3 < Size => At(3) = ByteAt(reply.whole, 3)
          /\ 4 + 1 < Size => U16At(4) = WordAt(reply.whole, 4)
          /\ 6 + 1 < Size => U16At(6) = WordAt(reply.whole, 6)
          /\ Size \in Nat
      <3>1. 3 \in Nat /\ 4 \in Nat /\ 6 \in Nat
        OBVIOUS
      <3>2. QED
        BY <1>1, <1>2, <3>1, SoundBytes, Zenon
    <2>3. Size >= 12 => /\ ~Failed /\ U16At(4) = reply.questions
                        /\ U16At(6) = n - reply.questions
      BY <2>1, <2>2 DEF Failed
    <2>4. ASSUME Size < 12, NEW i \in 1 .. n, Usable(i) PROVE FALSE
      <3>1. reply.entries[i].to + 10 + 4 <= Size
        BY <2>4 DEF Usable, DNS_RR_HEADER_MIN_SIZE
      <3>2. /\ reply.entries[i].to \in Nat /\ reply.entries[i].from \in Nat
            /\ 12 <= reply.entries[i].from /\ reply.entries[i].from < reply.entries[i].to
        BY <1>1, <1>2, EntriesInOrder
      <3>3. QED
        BY <2>2, <2>4, <3>1, <3>2
    <2>5. QED
      BY <2>1, <2>2, <2>3, <2>4
  <1>3. CASE Size < DNS_HEADER_SIZE
    <2>0. Size \in Nat
      BY <1>1, MessagesAssumption, BytesAreBytes
    <2>1. pc' = "done" /\ result' = 0
      BY <1>3, <2>0 DEF ReadHeader, Return, DNS_HEADER_SIZE
    <2>2. reply.sound => \A i \in 1 .. n : ~Usable(i)
      BY <1>2, <1>3 DEF DNS_HEADER_SIZE
    <2>3. QED
      BY <1>1, <2>1, <2>2, NothingFound
  <1>4. CASE Size >= DNS_HEADER_SIZE /\ (Failed \/ U16At(6) = 0) /\ Return(0)
    <2>1. ASSUME reply.sound, NEW i \in 1 .. n, Usable(i) PROVE FALSE
      <3>1. n - reply.questions = 0
        BY <1>2, <1>4, <2>1 DEF DNS_HEADER_SIZE
      <3>2. i > reply.questions
        BY <2>1 DEF Usable
      <3>3. QED
        BY <1>2, <2>1, <3>1, <3>2
    <2>2. QED
      BY <1>1, <1>4, <2>1, NothingFound DEF Return
  <1>5. CASE /\ Size >= DNS_HEADER_SIZE
             /\ left' = U16At(4) /\ ancount' = U16At(6)
             /\ pos' = DNS_HEADER_SIZE /\ pc' = "question"
    <2>1. ASSUME reply.sound
          PROVE  left' = reply.questions /\ ancount' = n - reply.questions
                 /\ reply.questions - left' = 0
      BY <1>2, <1>5, <2>1 DEF DNS_HEADER_SIZE
    <2>2. QED
      BY <1>1, <1>2, <1>5, <2>1, Landing
  <1>6. QED
    BY <1>3, <1>4, <1>5 DEF ReadHeader

(* The loops take up the entries one by one.                               *)
LEMMA LoopOnTrack ==
    ASSUME IInv, NextRecord
    PROVE  OnTrack' /\ FirstAddress'
  <1> DEFINE n == Len(reply.entries)
             q == reply.questions
             c == Current
  <1>1. /\ reply \in Replies /\ reply' = reply /\ pos' = pos /\ ancount' = ancount
        /\ pc \in {"question", "answer"} /\ left \in Nat
    BY DEF IInv, TypeOK, NextRecord
  <1>2. ASSUME reply.sound
        PROVE  /\ n \in Nat /\ q \in Nat /\ q <= n
               /\ ancount = n - q /\ c \in 0 .. n
               /\ c = (IF pc = "question" THEN q ELSE n) - left
               /\ pc = "answer" => c >= q
               /\ \A i \in 1 .. c : ~Usable(i)
               /\ pos = IF c = 0 THEN DNS_HEADER_SIZE ELSE EntryEnd(reply, c)
    <2>1. n \in Nat /\ q \in Nat /\ q <= n
      BY <1>1, <1>2, Described
    <2>2. c = (IF pc = "question" THEN q ELSE n) - left
      BY <1>1 DEF Current
    <2>3. OnTrack
      BY DEF IInv
    <2>4. QED
      BY <1>1, <1>2, <2>1, <2>2, <2>3 DEF OnTrack
  <1> HIDE DEF c
  <1>3. CASE left > 0 /\ left' = left - 1 /\ pc' = IF pc = "question" THEN "qname" ELSE "aname"
    <2>0. (pc = "question" /\ pc' = "qname") \/ (pc = "answer" /\ pc' = "aname")
      BY <1>1, <1>3
    <2>1. ASSUME reply.sound
          PROVE  /\ c + 1 = (IF pc' \in {"question", "qname"} THEN q ELSE n) - left'
                 /\ c + 1 \in 1 .. n /\ c + 1 - 1 = c /\ c + 1 \in Nat
                 /\ pc' = "aname" => c + 1 > q
      <3>1. c = (IF pc = "question" THEN q ELSE n) - left /\ (pc = "answer" => c >= q)
            /\ n \in Nat /\ q \in Nat /\ q <= n /\ c \in 0 .. n
        BY <1>2, <2>1
      <3>2. CASE pc = "question" /\ pc' = "qname"
        BY <1>1, <1>3, <3>1, <3>2
      <3>3. CASE pc = "answer" /\ pc' = "aname"
        BY <1>1, <1>3, <3>1, <3>3
      <3>4. QED
        BY <2>0, <3>2, <3>3
    <2>2. ASSUME reply.sound
          PROVE  pos' \in reply.entries[c + 1].parts
      <3>1. /\ reply.entries[c + 1].from \in reply.entries[c + 1].parts
            /\ reply.entries[c + 1].from
                 = IF c + 1 = 1 THEN DNS_HEADER_SIZE ELSE EntryEnd(reply, (c + 1) - 1)
        <4>1. c + 1 \in 1 .. n
          BY <2>1, <2>2
        <4> DEFINE d == c + 1
        <4> HIDE DEF d
        <4>2. d \in 1 .. n
          BY <4>1 DEF d
        <4>3. /\ Named(reply.whole, reply.entries[d])
              /\ reply.entries[d].from = IF d = 1 THEN DNS_HEADER_SIZE ELSE EntryEnd(reply, d - 1)
          BY <1>1, <2>2, <4>2, Described
        <4>4. reply.entries[d].from \in reply.entries[d].parts
          BY <4>3 DEF Named
        <4>5. QED
          BY <4>3, <4>4 DEF d
      <3>2. pos = reply.entries[c + 1].from
        BY <1>2, <2>1, <2>2, <3>1
      <3>3. QED
        BY <1>1, <3>1, <3>2
    <2>3. QED
      <3>1. pc' \in {"qname", "aname"} /\ reply' = reply /\ ancount' = ancount
        BY <1>1, <2>0
      <3> DEFINE d == c + 1
      <3>2. ASSUME reply.sound
            PROVE  /\ ancount = n - q
                   /\ d = (IF pc' \in {"question", "qname"} THEN q ELSE n) - left'
                   /\ d \in 1 .. n
                   /\ pc' = "aname" => d >= q /\ d > q
                   /\ \A i \in 1 .. d - 1 : ~Usable(i)
                   /\ pos' \in reply.entries[d].parts
        <4>1. pc' = "aname" => c + 1 > q /\ c + 1 >= q
          BY <1>2, <2>1, <3>2
        <4>2. QED
          BY <1>2, <2>1, <2>2, <3>2, <4>1
      <3> HIDE DEF d
      <3>3. QED
        BY <3>1, <3>2, Landing
  <1>4. CASE left = 0 /\ pc = "question" /\ left' = ancount /\ pc' = "answer"
    <2>1. ASSUME reply.sound
          PROVE  c = n - left' /\ c = q
      BY <1>1, <1>2, <1>4, <2>1
    <2>2. QED
      BY <1>1, <1>2, <1>4, <2>1, Landing
  <1>5. CASE left = 0 /\ pc = "answer" /\ Return(0)
    <2>1. reply.sound => c = n
      BY <1>1, <1>2, <1>5
    <2>2. reply.sound => \A i \in 1 .. n : ~Usable(i)
      BY <1>2, <2>1
    <2>3. QED
      BY <1>1, <1>5, <2>2, NothingFound DEF Return
  <1>6. QED
    BY <1>3, <1>4, <1>5 DEF NextRecord

(* A name is followed from part to part up to its end.                     *)
LEMMA NameOnTrack ==
    ASSUME IInv, SkipName
    PROVE  OnTrack' /\ FirstAddress'
  <1> DEFINE n == Len(reply.entries)
             q == reply.questions
             c == Current
             e == reply.entries[c]
  <1>1. /\ reply \in Replies /\ reply' = reply /\ left' = left /\ ancount' = ancount
        /\ pc \in {"qname", "aname"} /\ pos \in Nat /\ left \in Nat /\ OnTrack
    BY DEF IInv, TypeOK, SkipName
  <1>2. ASSUME reply.sound
        PROVE  /\ n \in Nat /\ q \in Nat /\ q <= n
               /\ ancount = n - q /\ c \in 1 .. n
               /\ c = (IF pc = "qname" THEN q ELSE n) - left
               /\ pc = "aname" => c > q
               /\ pc = "qname" => c <= q
               /\ \A i \in 1 .. c - 1 : ~Usable(i)
               /\ pos \in e.parts
    <2>1. n \in Nat /\ q \in Nat /\ q <= n
      BY <1>1, <1>2, Described
    <2>2. c = (IF pc = "qname" THEN q ELSE n) - left
      BY <1>1 DEF Current
    <2>3. QED
      BY <1>1, <1>2, <2>1, <2>2 DEF OnTrack
  <1>3. ASSUME reply.sound
        PROVE  /\ pos < e.to /\ e.to \in Nat /\ e.to + 4 <= EntryEnd(reply, c)
               /\ EntryEnd(reply, c) \in Nat
               /\ c <= q => EntryEnd(reply, c) = e.to + 4
               /\ \/ ByteAt(reply.whole, pos) = 0 /\ e.to = pos + 1
                  \/ ByteAt(reply.whole, pos) >= 192 /\ e.to = pos + 2
                  \/ ByteAt(reply.whole, pos) \in 1 .. 63
                     /\ pos + 1 + ByteAt(reply.whole, pos) \in e.parts
    <2>1. Named(reply.whole, e)
      BY <1>1, <1>2, <1>3, Described
    <2>2. QED
      BY <1>1, <1>2, <1>3, <2>1, EntriesInOrder DEF Named
  <1>4. ASSUME reply.sound
        PROVE  At(pos) \in Byte /\ Size \in Nat /\ (pos < Size => At(pos) = ByteAt(reply.whole, pos))
    BY <1>1, <1>4, SoundBytes
  <1> HIDE DEF c
  <1>5. CASE pos >= Size /\ PastEnd
    <2>1. reply.sound => Size < EntryEnd(reply, c)
      BY <1>1, <1>3, <1>4, <1>5
    <2>2. QED
      BY <1>1, <1>5, <2>1, GivingUp DEF PastEnd, Return, c
  <1>6. CASE pos < Size /\ \/ At(pos) = 0 /\ NameEnds(pos + 1)
                           \/ At(pos) >= 192 /\ NameEnds(AfterPointer(pos))
    <2> DEFINE p == IF At(pos) = 0 THEN pos + 1 ELSE pos + 2
    <2>1. /\ pos' = IF pc = "qname" THEN p + 4 ELSE p
          /\ pc' = IF pc = "qname" THEN "question" ELSE "record"
      BY <1>6 DEF NameEnds, AfterPointer
    <2>2. ASSUME reply.sound PROVE p = e.to
      BY <1>3, <1>4, <1>6, <2>2 DEF Byte
    <2> HIDE DEF p
    <2>3. CASE pc = "qname"
      <3>1. pc' = "question" /\ pos' = p + 4
        BY <2>1, <2>3
      <3>2. ASSUME reply.sound PROVE c # 0 /\ pos' = EntryEnd(reply, c) /\ c = q - left'
        BY <1>1, <1>2, <1>3, <2>2, <2>3, <3>1, <3>2
      <3>3. ASSUME reply.sound PROVE \A i \in 1 .. c : ~Usable(i)
        BY <1>2, <2>3, <3>3 DEF Usable
      <3>4. reply.sound => c \in 0 .. n
        BY <1>2
      <3>5. QED
        BY <1>1, <1>2, <3>1, <3>2, <3>3, <3>4, Landing
    <2>4. CASE pc = "aname"
      <3>1. pc' = "record" /\ pos' = p
        BY <2>1, <2>4
      <3>2. ASSUME reply.sound PROVE pos' = e.to /\ c = n - left' /\ c >= q
        BY <1>1, <1>2, <2>2, <2>4, <3>1, <3>2
      <3>3. QED
        BY <1>1, <1>2, <2>4, <3>1, <3>2, Landing
    <2>5. QED
      BY <1>1, <2>3, <2>4
  <1>7. CASE /\ pos < Size
             /\ At(pos) \in 1 .. 191 /\ pos' = pos + 1 + At(pos) /\ pc' = pc
    <2>1. ASSUME reply.sound PROVE pos' \in e.parts /\ (pc = "aname" => c >= q)
      <3> DEFINE k == At(pos)
      <3>1. k = ByteAt(reply.whole, pos) /\ k \in 1 .. 191
        BY <1>4, <1>7, <2>1
      <3>2. ByteAt(reply.whole, pos) \in 1 .. 63 /\ pos + 1 + ByteAt(reply.whole, pos) \in e.parts
        BY <1>3, <2>1, <3>1
      <3>3. pos' = pos + 1 + k
        BY <1>7
      <3> HIDE DEF k
      <3>4. pos' \in e.parts
        BY <3>1, <3>2, <3>3
      <3>5. pc = "aname" => c >= q
        BY <1>2, <2>1
      <3>6. QED
        BY <3>4, <3>5
    <2>2. QED
      BY <1>1, <1>2, <1>7, <2>1, Landing
  <1>8. QED
    BY <1>5, <1>6, <1>7 DEF SkipName

(* A record is taken for the address or passed over as a whole.            *)
LEMMA RecordOnTrack ==
    ASSUME IInv, ReadRecord
    PROVE  OnTrack' /\ FirstAddress'
  <1> DEFINE n == Len(reply.entries)
             q == reply.questions
             c == Current
             e == reply.entries[c]
  <1>1. /\ reply \in Replies /\ reply' = reply /\ left' = left /\ ancount' = ancount
        /\ pc = "record" /\ pos \in Nat /\ left \in Nat /\ OnTrack
    BY DEF IInv, TypeOK, ReadRecord
  <1>2. ASSUME reply.sound
        PROVE  /\ n \in Nat /\ q \in Nat /\ q <= n
               /\ ancount = n - q /\ c \in 1 .. n /\ c = n - left /\ c > q
               /\ \A i \in 1 .. c - 1 : ~Usable(i)
               /\ pos = e.to
    <2>1. n \in Nat /\ q \in Nat /\ q <= n
      BY <1>1, <1>2, Described
    <2>2. c = n - left
      BY <1>1 DEF Current
    <2>3. QED
      BY <1>1, <1>2, <2>1, <2>2 DEF OnTrack
  <1>3. ASSUME reply.sound
        PROVE  /\ EntryEnd(reply, c) = pos + 10 + e.len /\ e.len \in Nat
               /\ WordAt(reply.whole, pos) = e.type /\ WordAt(reply.whole, pos + 8) = e.len
    <2>1. e.len \in Nat /\ (c > q => EntryEnd(reply, c) = e.to + 10 + e.len)
      BY <1>1, <1>2, <1>3, EntriesInOrder
    <2>2. c > q => WordAt(reply.whole, e.to) = e.type /\ WordAt(reply.whole, e.to + 8) = e.len
      BY <1>1, <1>2, <1>3, Described
    <2>3. QED
      BY <1>2, <1>3, <2>1, <2>2
  <1>4. ASSUME reply.sound
        PROVE  /\ Size \in Nat
               /\ pos + 1 < Size => RType = e.type
               /\ pos + 8 + 1 < Size => RdLen = e.len
    <2>1. pos \in Nat /\ pos + 8 \in Nat
      BY <1>1
    <2>2. /\ Size \in Nat
          /\ pos + 1 < Size => U16At(pos) = WordAt(reply.whole, pos)
          /\ pos + 8 + 1 < Size => U16At(pos + 8) = WordAt(reply.whole, pos + 8)
      BY <1>1, <1>4, <2>1, SoundBytes, Zenon
    <2>3. QED
      BY <1>3, <1>4, <2>2 DEF RType, RdLen
  <1>5. ASSUME reply.sound, HeaderFits
        PROVE  /\ RType = e.type /\ RdLen = e.len
               /\ RData + RdLen = EntryEnd(reply, c)
               /\ Usable(c) <=> IsAddress /\ RData + RdLen <= Size
    <2>1. pos + 10 <= Size
      BY <1>5 DEF HeaderFits, DNS_RR_HEADER_MIN_SIZE
    <2>2. RType = e.type /\ RdLen = e.len
      BY <1>1, <1>4, <1>5, <2>1
    <2>3. RData = pos + 10
      BY DEF RData, DNS_RR_HEADER_MIN_SIZE
    <2>4. Usable(c) <=> c > q /\ e.type = 1 /\ e.len = 4 /\ e.to + 10 + 4 <= Size
      BY DEF Usable, DNS_RR_HEADER_MIN_SIZE, DNS_TYPE_A
    <2>5. IsAddress <=> RType = 1 /\ RdLen = 4
      BY DEF IsAddress, DNS_TYPE_A
    <2> HIDE DEF c
    <2>6. QED
      BY <1>1, <1>2, <1>3, <1>5, <2>2, <2>3, <2>4, <2>5
  <1> HIDE DEF c
  <1>6. CASE ~HeaderFits /\ Return(0)
    <2>1. ASSUME reply.sound PROVE Size < EntryEnd(reply, c)
      BY <1>1, <1>3, <1>4, <1>6, <2>1 DEF HeaderFits, DNS_RR_HEADER_MIN_SIZE
    <2>2. QED
      BY <1>1, <1>6, <2>1, GivingUp DEF Return, c
  <1>7. CASE HeaderFits /\ RData + RdLen > Size /\ Return(0)
    <2>1. reply.sound => Size < EntryEnd(reply, c)
      BY <1>5, <1>7
    <2>2. QED
      BY <1>1, <1>7, <2>1, GivingUp DEF Return, c
  <1>8. CASE HeaderFits /\ RData + RdLen <= Size /\ IsAddress /\ Return(RData)
    <2>1. OnTrack'
      BY <1>8 DEF OnTrack, Return
    <2>2. \A i : Usable(i)' <=> Usable(i)
      BY <1>1 DEF Usable, Size
    <2>3. ASSUME reply.sound
          PROVE  /\ Usable(c) /\ c \in 1 .. n
                 /\ \A j \in 1 .. n : Usable(j) => c <= j
                 /\ result' = e.to + DNS_RR_HEADER_MIN_SIZE
      <3>1. Usable(c)
        BY <1>5, <1>8, <2>3
      <3>2. result' = e.to + DNS_RR_HEADER_MIN_SIZE
        BY <1>2, <1>8, <2>3 DEF Return, RData
      <3>3. ASSUME NEW j \in 1 .. n, Usable(j) PROVE c <= j
        <4>1. j < c => j \in 1 .. c - 1
          BY <1>2, <2>3
        <4>2. QED
          BY <1>2, <2>3, <3>3, <4>1
      <3>4. QED
        BY <1>2, <2>3, <3>1, <3>2, <3>3
    <2>4. FirstAddress'
      <3> DEFINE usable == {i \in 1 .. n : Usable(i)}
      <3>1. reply.sound => c \in usable /\ (\A j \in usable : c <= j)
        BY <2>3
      <3>2. FirstAddress' <=>
              (reply.sound /\ pc' = "done" =>
                 IF usable = {} THEN result' = 0
                 ELSE \E i \in usable :
                         /\ \A j \in usable : i <= j
                         /\ result' = reply.entries[i].to + DNS_RR_HEADER_MIN_SIZE)
        BY <1>1, <2>2 DEF FirstAddress
      <3> HIDE DEF usable
      <3>3. QED
        BY <2>3, <3>1, <3>2
    <2>5. QED
      BY <2>1, <2>4
  <1>9. CASE HeaderFits /\ RData + RdLen <= Size /\ ~IsAddress /\ SkipRecord
    <2>1. pos' = RData + RdLen /\ pc' = "answer"
      BY <1>9 DEF SkipRecord
    <2>2. ASSUME reply.sound
          PROVE  ~Usable(c) /\ pos' = EntryEnd(reply, c) /\ c = n - left' /\ c # 0
      BY <1>1, <1>2, <1>5, <1>9, <2>1, <2>2
    <2>3. ASSUME reply.sound PROVE \A i \in 1 .. c : ~Usable(i)
      <3> SUFFICES ASSUME NEW i \in 1 .. c PROVE ~Usable(i)
        OBVIOUS
      <3>1. i = c \/ i \in 1 .. c - 1
        BY <1>2, <2>3
      <3>2. QED
        BY <1>2, <2>2, <2>3, <3>1
    <2>4. reply.sound => c \in 0 .. n /\ c >= q
      BY <1>2
    <2>5. QED
      BY <1>1, <1>2, <2>1, <2>2, <2>3, <2>4, Landing
  <1>10. QED
    BY <1>6, <1>7, <1>8, <1>9 DEF ReadRecord

(* No step of parse_dns_response loses its place.                          *)
LEMMA ReadOnTrack ==
    ASSUME IInv, ReadHeader \/ NextRecord \/ SkipName \/ ReadRecord
    PROVE  OnTrack' /\ FirstAddress'
  BY HeaderOnTrack, LoopOnTrack, NameOnTrack, RecordOnTrack

(* The steps of parse_dns_response keep the invariant.                     *)
LEMMA ReadStep ==
    ASSUME IInv, ReadHeader \/ NextRecord \/ SkipName \/ ReadRecord
    PROVE  IInv'
  <1>1. /\ domain = NoDomain /\ reply \in Replies
        /\ domain' = domain /\ reply' = reply /\ asked' = asked
        /\ pc' \in {"question", "answer", "qname", "aname", "record", "done"}
        /\ pos' \in Nat /\ left' \in Nat /\ ancount' \in Nat /\ result' \in Nat
        /\ touched' \subseteq 0 .. Size - 1
    BY ReadFacts
  <1>2. ~Building'
    BY <1>1 DEF Building
  <1>3. Size \in Nat
    BY <1>1, MessagesAssumption, BytesAreBytes
  <1>4. touched' \subseteq Nat
    <2>1. \A k \in 0 .. Size - 1 : k \in Nat
      BY <1>3
    <2>2. QED
      BY <1>1, <2>1
  <1>5. asked \subseteq Nat
    BY DEF IInv, TypeOK
  <1>6. TypeOK'
    BY <1>1, <1>4, <1>5 DEF TypeOK
  <1>7. InBounds'
    <2>1. Size' = Size
      BY <1>1 DEF Size
    <2>2. QED
      BY <1>1, <1>2, <2>1 DEF InBounds
  <1>8. QueryNamesDomain' /\ BuildInv'
    BY <1>2 DEF QueryNamesDomain, BuildInv
  <1>9. pc' # "header"
    BY <1>1
  <1>10. OnTrack' /\ FirstAddress'
    BY ReadOnTrack
  <1>11. QED
    BY <1>6, <1>7, <1>8, <1>9, <1>10 DEF IInv

(* The invariant speaks of the variables only.                             *)
LEMMA StutterStep ==
    ASSUME IInv, UNCHANGED vars
    PROVE  IInv'
  BY DEF IInv, TypeOK, InBounds, QueryNamesDomain, BuildInv, vars, Building, Size,
         TooLong, DomainLen, LabelLen, Label, OnTrack, FirstAddress, Current,
         EntryEnd, Usable

(* The invariant of the two cursors is preserved by every step.            *)
THEOREM Inductive == Spec => []IInv
  <1>1. Init => IInv
    BY InitInv
  <1>2. IInv /\ [Next]_vars => IInv'
    <2> SUFFICES ASSUME IInv, [Next]_vars PROVE IInv'
      OBVIOUS
    <2>1. CASE BuildHeader \/ WriteLabel \/ WriteTail
      BY <2>1, BuildStep
    <2>2. CASE ReadHeader \/ NextRecord \/ SkipName \/ ReadRecord
      BY <2>2, ReadStep
    <2>3. CASE UNCHANGED vars
      BY <2>3, StutterStep
    <2>4. QED
      BY <2>1, <2>2, <2>3 DEF Next, Step, Returned
  <1>3. QED
    BY <1>1, <1>2, PTL DEF Spec

(* build_dns_query and parse_dns_response never index past their buffers:  *)
(* no name and no datagram can abort the process.                          *)
THEOREM NeverOutOfBounds == Spec => []InBounds
  <1>1. IInv => InBounds
    BY DEF IInv
  <1>2. QED
    BY <1>1, Inductive, PTL

(* A query that is built asks for every non-empty label of the name.       *)
THEOREM QueryIsComplete == Spec => []QueryNamesDomain
  <1>1. IInv => QueryNamesDomain
    BY DEF IInv
  <1>2. QED
    BY <1>1, Inductive, PTL

(* The address taken from a reply that is sound as far as it goes is the   *)
(* one of its first A record that is still whole, and none is taken when   *)
(* no record is.                                                           *)
THEOREM AddressIsFirst == Spec => []FirstAddress
  <1>1. IInv => FirstAddress
    BY DEF IInv
  <1>2. QED
    BY <1>1, Inductive, PTL

(* Reading a datagram always ends, in steps bounded by its size.           *)
THEOREM ReadingEnds == Spec => ReadingIsBounded
  <1>1. IInv /\ [Next]_vars =>
          [~Building => 4 * Room' + Rank' < 4 * Room + Rank]_vars
    <2> SUFFICES ASSUME IInv, Next, ~(UNCHANGED vars), ~Building
                 PROVE  4 * Room' + Rank' < 4 * Room + Rank
      BY DEF vars
    <2>1. CASE BuildHeader \/ WriteLabel \/ WriteTail
      <3>1. pc \in {"build", "label"}
        BY <2>1 DEF BuildHeader, WriteLabel, WriteTail
      <3>2. domain \in Domains
        BY <3>1 DEF IInv, TypeOK
      <3>3. QED
        BY <3>2, DomainShape DEF Building
    <2>2. CASE ReadHeader \/ NextRecord \/ SkipName \/ ReadRecord
      BY <2>2, ReadFacts
    <2>3. QED
      BY <2>1, <2>2 DEF Next, Step, Returned
  <1>2. QED
    BY <1>1, Inductive, PTL DEF Spec, ReadingIsBounded
=============================================================================
