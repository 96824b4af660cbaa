----------------------------- MODULE DnsMessage -----------------------------
(***************************************************************************)
(* The two cursors of resolver.rs: build_dns_query fills a buffer of 128   *)
(* bytes, parse_dns_response (with skip_dns_name) walks a datagram whose   *)
(* every count and length comes from the network.  An index outside its    *)
(* buffer would panic, and the release build aborts the whole process.     *)
(*                                                                         *)
(* A domain is given by the offsets at which its labels start, closed by   *)
(* one past the position after its end: "a.bc" is <<0, 2, 5>>.  Offsets    *)
(* into a datagram count from 0, as in the code.                           *)
(***************************************************************************)
EXTENDS Integers, Sequences

CONSTANTS
    Domains,    \* names to ask for
    Replies     \* datagrams to read, see Reply

DNS_HEADER_SIZE        == 12
DNS_RR_HEADER_MIN_SIZE == 10
DNS_TYPE_A             == 1
DNS_TYPE_SVCB          == 64
DNS_TYPE_HTTPS         == 65
QUERY_BUF              == 128
MAX_DOMAIN             == 100
LABEL_LIMIT            == 120

Byte == 0 .. 255

ByteAt(h, i) == IF i < Len(h) THEN h[i + 1] ELSE 0
WordAt(h, i) == ByteAt(h, i) * 256 + ByteAt(h, i + 1)

(* A question or a resource record: its name starts at offset from, ends   *)
(* before to and has its parts (labels, a pointer or the closing zero) at  *)
(* parts; len is the length of a record's data.                            *)
Entry == [from : Nat, parts : SUBSET Nat, to : Nat, type : Nat, len : Nat]

(* sound: bytes are the first of whole, a reply without error; the first   *)
(* questions of its entries are questions, the others are answers.         *)
Reply == [bytes : Seq(Byte), sound : BOOLEAN, whole : Seq(Byte),
          questions : Nat, entries : Seq(Entry)]

(* The name of e in h (RFC 1035, 4.1.4).                                   *)
Named(h, e) ==
    /\ e.from \in e.parts
    /\ \A p \in e.parts :
          /\ p < e.to
          /\ \/ ByteAt(h, p) = 0 /\ e.to = p + 1
             \/ ByteAt(h, p) >= 192 /\ e.to = p + 2
             \/ ByteAt(h, p) \in 1 .. 63 /\ p + 1 + ByteAt(h, p) \in e.parts

(* Where entry i of m ends.                                                *)
EntryEnd(m, i) ==
    m.entries[i].to + (IF i <= m.questions THEN 4
                       ELSE DNS_RR_HEADER_MIN_SIZE + m.entries[i].len)

(* A reply without error: its entries follow one another, in this order.   *)
WellFormed(m) ==
    LET h == m.whole
    IN  /\ ByteAt(h, 3) % 16 = 0
        /\ m.questions <= Len(m.entries)
        /\ WordAt(h, 4) = m.questions
        /\ WordAt(h, 6) = Len(m.entries) - m.questions
        /\ \A i \in 1 .. Len(m.entries) :
              LET e == m.entries[i]
              IN  /\ e.from = IF i = 1 THEN DNS_HEADER_SIZE ELSE EntryEnd(m, i - 1)
                  /\ \A j \in 1 .. i - 1 : EntryEnd(m, j) <= e.from
                  /\ Named(h, e)
                  /\ i > m.questions => /\ WordAt(h, e.to) = e.type
                                       /\ WordAt(h, e.to + 8) = e.len

Cut(h, data) == Len(data) <= Len(h) /\ data = SubSeq(h, 1, Len(data))

ASSUME MessagesAssumption ==
    /\ \A d \in Domains :
           /\ d \in Seq(Nat) /\ Len(d) >= 2 /\ d[1] = 0
           /\ \A i, j \in 1 .. Len(d) : i < j => d[i] < d[j]
    /\ Replies \subseteq Reply
    /\ \A m \in Replies : m.sound => WellFormed(m) /\ Cut(m.whole, m.bytes)

NoDomain == << >>
NoReply  == [bytes |-> << >>, sound |-> FALSE, whole |-> << >>,
             questions |-> 0, entries |-> << >>]

VARIABLES
    domain, reply,
    pc,
    pos,
    left,       \* iterations left of the loop over labels or records
    ancount,
    touched,    \* indices the last step read or wrote
    asked,      \* labels in the query
    result      \* query_len, or the offset of the address; 0 for none

vars == <<domain, reply, pc, pos, left, ancount, touched, asked, result>>

Size == Len(reply.bytes)                                  \* data.len()
At(i) == ByteAt(reply.bytes, i)                           \* data[i]
U16At(i) == WordAt(reply.bytes, i)                        \* from_be_bytes

Init ==
    /\ \/ pc = "build" /\ domain \in Domains /\ reply = NoReply
       \/ pc = "header" /\ domain = NoDomain /\ reply \in Replies
    /\ pos = 0 /\ left = 0 /\ ancount = 0
    /\ touched = {} /\ asked = {} /\ result = 0

Return(r) == pc' = "done" /\ result' = r

-----------------------------------------------------------------------------
(* build_dns_query                                                         *)

DomainLen   == domain[Len(domain)] - 1
Label       == Len(domain) - left                         \* its number
LabelLen(i) == domain[i + 1] - domain[i] - 1

TooLong == DomainLen > MAX_DOMAIN

BuildHeader ==
    /\ pc = "build"
    /\ \/ TooLong /\ Return(0) /\ UNCHANGED <<pos, left, touched>>
       \/ /\ ~TooLong
          /\ touched' = 0 .. DNS_HEADER_SIZE - 1
          /\ pos' = DNS_HEADER_SIZE /\ left' = Len(domain) - 1
          /\ pc' = "label" /\ UNCHANGED result
    /\ UNCHANGED <<domain, reply, ancount, asked>>

(* Mutant: the room for the tail is taken twice.                           *)
LabelFitsTight(len) == pos + 1 + len < LABEL_LIMIT - 10

LabelFits(len) == pos + 1 + len < LABEL_LIMIT

WriteLabel ==
    /\ pc = "label" /\ left > 0
    /\ LET len == LabelLen(Label)
       IN  \/ /\ len > 0 /\ LabelFits(len)
              /\ touched' = pos .. pos + len
              /\ pos' = pos + 1 + len
              /\ asked' = asked \cup {Label}
           \/ ~(len > 0 /\ LabelFits(len)) /\ touched' = {} /\ UNCHANGED <<pos, asked>>
    /\ left' = left - 1
    /\ UNCHANGED <<domain, reply, pc, ancount, result>>

(* The root label, QTYPE and QCLASS.                                       *)
WriteTail ==
    /\ pc = "label" /\ left = 0
    /\ touched' = pos .. pos + 4
    /\ pos' = pos + 5
    /\ Return(pos + 5)
    /\ UNCHANGED <<domain, reply, left, ancount, asked>>

-----------------------------------------------------------------------------
(* parse_dns_response                                                      *)

Failed == At(3) % 16 # 0                                  \* rcode

ReadHeader ==
    /\ pc = "header"
    /\ \/ Size < DNS_HEADER_SIZE /\ touched' = {}
          /\ Return(0) /\ UNCHANGED <<pos, left, ancount>>
       \/ /\ Size >= DNS_HEADER_SIZE /\ touched' = 3 .. 7
          /\ \/ (Failed \/ U16At(6) = 0) /\ Return(0) /\ UNCHANGED <<pos, left, ancount>>
             \/ /\ ~Failed /\ U16At(6) > 0
                /\ left' = U16At(4) /\ ancount' = U16At(6)
                /\ pos' = DNS_HEADER_SIZE
                /\ pc' = "question" /\ UNCHANGED result
    /\ UNCHANGED <<domain, reply, asked>>

(* Head of either loop: another name to skip, or the loop is over.         *)
NextRecord ==
    /\ pc \in {"question", "answer"}
    /\ touched' = {}
    /\ \/ /\ left > 0 /\ left' = left - 1
          /\ pc' = IF pc = "question" THEN "qname" ELSE "aname"
          /\ UNCHANGED result
       \/ /\ left = 0 /\ pc = "question"
          /\ left' = ancount /\ pc' = "answer" /\ UNCHANGED result
       \/ left = 0 /\ pc = "answer" /\ Return(0) /\ UNCHANGED left
    /\ UNCHANGED <<domain, reply, pos, ancount, asked>>

AfterPointer(p) == p + 2

(* The name ends: QTYPE and QCLASS of a question are skipped with it.      *)
NameEnds(p) ==
    /\ pos' = IF pc = "qname" THEN p + 4 ELSE p
    /\ pc' = IF pc = "qname" THEN "question" ELSE "record"
    /\ UNCHANGED result

(* Mutant: past the end of the datagram a name counts as ended.            *)
PastEndIsName == NameEnds(pos)

(* skip_dns_name found no end: either caller gives up.                     *)
PastEnd == Return(0) /\ UNCHANGED pos

(* skip_dns_name, one iteration.                                           *)
SkipName ==
    /\ pc \in {"qname", "aname"}
    /\ \/ pos >= Size /\ touched' = {} /\ PastEnd
       \/ /\ pos < Size /\ touched' = {pos}
          /\ \/ At(pos) = 0 /\ NameEnds(pos + 1)
             \/ At(pos) >= 192 /\ NameEnds(AfterPointer(pos))
             \/ At(pos) \in 1 .. 191 /\ pos' = pos + 1 + At(pos)
                /\ UNCHANGED <<pc, result>>
    /\ UNCHANGED <<domain, reply, left, ancount, asked>>

(* Mutant: the header of the record is not checked against the datagram.   *)
HeaderUnchecked == TRUE

HeaderFits == pos + DNS_RR_HEADER_MIN_SIZE <= Size
RType  == U16At(pos)
RdLen  == U16At(pos + 8)
RData  == pos + DNS_RR_HEADER_MIN_SIZE
IsAddress == RType = DNS_TYPE_A /\ RdLen = 4

(* Mutant: a record that is skipped leaves the cursor on its data.         *)
SkipsHeaderOnly ==
    pos' = RData /\ pc' = "answer" /\ UNCHANGED result

(* HTTPS and SVCB records are passed over like all others but addresses.   *)
SkipRecord ==
    pos' = RData + RdLen /\ pc' = "answer" /\ UNCHANGED result

ReadRecord ==
    /\ pc = "record"
    /\ \/ ~HeaderFits /\ touched' = {} /\ Return(0) /\ UNCHANGED pos
       \/ /\ HeaderFits
          /\ LET head == {pos, pos + 1, pos + 8, pos + 9}
             IN  \/ RData + RdLen > Size /\ touched' = head /\ Return(0) /\ UNCHANGED pos
                 \/ /\ RData + RdLen <= Size /\ IsAddress
                    /\ touched' = head \cup RData .. RData + 3
                    /\ Return(RData) /\ pos' = RData
                 \/ /\ RData + RdLen <= Size /\ ~IsAddress
                    /\ touched' = head
                    /\ SkipRecord
    /\ UNCHANGED <<domain, reply, left, ancount, asked>>

Step ==
    \/ BuildHeader \/ WriteLabel \/ WriteTail
    \/ ReadHeader \/ NextRecord \/ SkipName \/ ReadRecord

Returned == pc = "done" /\ UNCHANGED vars

Next == Step \/ Returned

Spec == Init /\ [][Next]_vars

-----------------------------------------------------------------------------
(* Properties.                                                             *)

Building == domain # NoDomain

(* Type invariant.                                                         *)
TypeOK ==
    /\ \/ domain \in Domains /\ reply = NoReply
          /\ pc \in {"build", "label", "done"}
       \/ domain = NoDomain /\ reply \in Replies
          /\ pc \in {"header", "question", "answer", "qname", "aname", "record", "done"}
    /\ pos \in Nat /\ left \in Nat /\ ancount \in Nat
    /\ touched \subseteq Nat /\ asked \subseteq Nat /\ result \in Nat

(* No index leaves its buffer, whatever name is asked for and whatever the *)
(* counts, lengths and pointers of the datagram say: neither function can  *)
(* panic.                                                                  *)
InBounds ==
    touched \subseteq 0 .. (IF Building THEN QUERY_BUF ELSE Size) - 1

(* The query asks for the whole name: the length test at the head of       *)
(* build_dns_query makes the silent skip of a label that does not fit      *)
(* unreachable; only empty labels are left out.                            *)
QueryNamesDomain ==
    Building /\ pc = "done" /\ ~TooLong =>
        /\ asked = {i \in 1 .. Len(domain) - 1 : LabelLen(i) > 0}
        /\ result \in 17 .. QUERY_BUF

(* Entry i is an A record whose address has arrived.                       *)
Usable(i) ==
    LET e == reply.entries[i]
    IN  /\ i > reply.questions /\ e.type = DNS_TYPE_A /\ e.len = 4
        /\ e.to + DNS_RR_HEADER_MIN_SIZE + 4 <= Size

(* Of a reply that is sound as far as it goes, the address is that of the  *)
(* first A record that is still whole, whatever records come before it.    *)
FirstAddress ==
    reply.sound /\ pc = "done" =>
        LET usable == {i \in 1 .. Len(reply.entries) : Usable(i)}
        IN  IF usable = {} THEN result = 0
            ELSE \E i \in usable :
                    /\ \A j \in usable : i <= j
                    /\ result = reply.entries[i].to + DNS_RR_HEADER_MIN_SIZE

Room == IF pos < Size THEN Size - pos ELSE 0
Rank == CASE pc \in {"header", "question"} -> 3
          [] pc = "answer" -> 2
          [] pc \in {"qname", "aname", "record"} -> 1
          [] OTHER -> 0

(* Reading a datagram takes a number of steps bounded by its size: counts  *)
(* of 65535 and lengths of 0 do not keep the loops busy.                   *)
ReadingIsBounded ==
    [][~Building => 4 * Room' + Rank' < 4 * Room + Rank]_vars

(* The inductive invariant: where the cursor of build_dns_query stands     *)
(* against the name it copies.                                             *)
BuildInv ==
    Building =>
        /\ asked \subseteq 1 .. Len(domain) - 1
        /\ pc = "label" => /\ ~TooLong
                           /\ left < Len(domain)
                           /\ pos \in DNS_HEADER_SIZE .. DNS_HEADER_SIZE + domain[Label]
                           /\ asked = {i \in 1 .. Label - 1 : LabelLen(i) > 0}
        /\ pc = "build" => asked = {}

(* In a sound reply, Current is the entry the walk has come to: the last   *)
(* one read at the head of a loop, else the one the cursor is in. No entry *)
(* passed by is an address.                                                *)
Current == (IF pc \in {"question", "qname"} THEN reply.questions ELSE Len(reply.entries)) - left

OnTrack ==
    reply.sound /\ pc \notin {"header", "done"} =>
        LET here == pc \in {"question", "answer"}
        IN  /\ ancount = Len(reply.entries) - reply.questions
            /\ Current \in (IF here THEN 0 ELSE 1) .. Len(reply.entries)
            /\ pc \in {"answer", "aname", "record"} => Current >= reply.questions
            /\ pc \in {"aname", "record"} => Current > reply.questions
            /\ \A i \in 1 .. (IF here THEN Current ELSE Current - 1) : ~Usable(i)
            /\ here => pos = IF Current = 0 THEN DNS_HEADER_SIZE ELSE EntryEnd(reply, Current)
            /\ pc \in {"qname", "aname"} => pos \in reply.entries[Current].parts
            /\ pc = "record" => pos = reply.entries[Current].to

IInv ==
    /\ TypeOK /\ InBounds /\ QueryNamesDomain /\ BuildInv
    /\ pc = "header" => pos = 0
    /\ OnTrack /\ FirstAddress
=============================================================================
