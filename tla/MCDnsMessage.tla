---------------------------- MODULE MCDnsMessage ----------------------------
(* Names and datagrams for DnsMessage.                                     *)
EXTENDS DnsMessage, SequencesExt

(* Names of up to three labels, with lengths around every limit.           *)
LabelLens == {0, 1, 33, 49, 50, 98, 100, 101, 116}
Names ==
    {<<0, a + 1>> : a \in LabelLens}
    \cup {<<0, a + 1, a + b + 2>> : a, b \in LabelLens}
    \cup {<<0, a + 1, a + b + 2, a + b + c + 3>> : a, b, c \in LabelLens}

Zeros(n) == [i \in 1 .. n |-> 0]
Header(rcode, qd, an) == <<0, 1, 129, 128 + rcode, 0, qd, 0, an>> \o Zeros(4)
Owners   == {<<192, 12>>, <<1, 97, 0>>}
Asked    == <<1, 97, 0>>

(* Where the parts of such a name start, if it starts at p.                *)
Parts(owner, p) == IF owner = Asked THEN {p, p + 2} ELSE {p}

(* Records: an address, one of that type and the wrong length, an HTTPS    *)
(* record that looks like an address, an empty SVCB record.                *)
Kinds == {<<DNS_TYPE_A, 4>>, <<DNS_TYPE_A, 5>>, <<DNS_TYPE_HTTPS, 4>>,
          <<DNS_TYPE_SVCB, 0>>}
RR(kind) ==
    <<0, kind[1], 0, 1, 0, 0, 0, 60, 0, kind[2]>> \o [i \in 1 .. kind[2] |-> i]

Answers == UNION {[1 .. k -> Owners \X Kinds] : k \in 0 .. 2}

Whole(qd, ans) ==
    LET add(m, name, type, len, rest) ==
          LET p == Len(m.whole)
          IN  [m EXCEPT !.whole = @ \o name \o rest,
                        !.entries = Append(@, [from |-> p, parts |-> Parts(name, p),
                                               to |-> p + Len(name),
                                               type |-> type, len |-> len])]
        ask(m, q)    == add(m, q, DNS_TYPE_A, 0, <<0, 1, 0, 1>>)
        answer(m, a) == add(m, a[1], a[2][1], a[2][2], RR(a[2]))
        head == [bytes |-> << >>, sound |-> TRUE, whole |-> Header(0, qd, Len(ans)),
                 questions |-> qd, entries |-> << >>]
        all  == FoldLeft(answer, FoldLeft(ask, head, [i \in 1 .. qd |-> Asked]), ans)
    IN  [all EXCEPT !.bytes = all.whole]

CutAt(m, n) == [m EXCEPT !.bytes = SubSeq(@, 1, n)]

(* Every sound reply, cut after every byte.                                *)
SoundReplies ==
    UNION {LET m == Whole(qd, ans) IN {CutAt(m, n) : n \in 0 .. Len(m.bytes)} :
             qd \in {0, 2}, ans \in Answers}

(* A reply with one byte replaced by one that is critical somewhere: in the*)
(* counts, the flags, a label length, a pointer, a type or an rdlen.       *)
Base == Whole(1, << <<<<1, 97, 0>>, <<28, 6>>>>, <<<<192, 12>>, <<DNS_TYPE_A, 4>>>> >>)
BrokenReplies ==
    {[Base EXCEPT !.bytes[i] = v, !.sound = FALSE] :
        i \in 1 .. Len(Base.bytes), v \in {0, 2, 18, 64, 191, 192, 255}}

AllReplies == SoundReplies \cup BrokenReplies
=============================================================================
