---------------------------- MODULE MCSniParser ----------------------------
(* ClientHellos for SniParser.                                             *)
EXTENDS SniParser, SequencesExt

Ext(type, len) == <<0, type>> \o Be16(len) \o [i \in 1 .. len |-> i]

(* Extensions in front of the server name: none, empty ones, one that holds*)
(* what looks like a server name extension.                                *)
Before == {<< >>, <<Ext(10, 3), Ext(23, 0)>>, <<<<0, 16>> \o Be16(10) \o ServerName(<<1>>)>>}
HostNames == {<<97>>, <<97, 98, 99, 46, 100, 101, 102>>}

(* The ClientHello with the given field lengths, and where its name lies.  *)
Hello(session, ciphers, compression, before, host, after) ==
    LET name  == IF host = << >> THEN << >> ELSE <<ServerName(host)>>
        all   == before \o name \o after
        bytes(k) == FlattenSeq(SubSeq(all, 1, k))
        front == <<3, 3>> \o Zeros(32) \o <<session>> \o [i \in 1 .. session |-> 200]
                 \o Be16(ciphers) \o [i \in 1 .. ciphers |-> 19]
                 \o <<compression>> \o Zeros(compression) \o Be16(Len(bytes(Len(all))))
        body  == front \o bytes(Len(all))
        hello == <<22, 3, 1>> \o Be16(4 + Len(body)) \o <<1, 0>> \o Be16(Len(body)) \o body
    IN  [data   |-> hello, whole |-> hello, origin |-> "client",
         exts   |-> {9 + Len(front) + Len(bytes(k - 1)) : k \in DOMAIN all},
         flight |-> [hello |-> TRUE, payload_len |-> 4 + Len(body), sni |-> host # << >>,
                     hostname_offset |-> 9 + Len(front) + Len(bytes(Len(before))) + 9,
                     hostname_length |-> Len(host)]]

Whole ==
    {Hello(s, c, m, b, h, a) :
        s \in {0, 3}, c \in {2}, m \in {1}, b \in Before,
        h \in HostNames \cup {<< >>}, a \in {<< >>, <<Ext(21, 2)>>}}

CutAt(h, n) == [h EXCEPT !.data = SubSeq(@, 1, n)]

(* Every ClientHello cut after every byte that follows the fixed part.     *)
CutHellos == UNION {{CutAt(h, n) : n \in {0, 5, 6, 42} \cup 43 .. Len(h.data)} : h \in Whole}

Decoys == {Decoy(h, p) : h \in HostNames, p \in BOOLEAN}

(* A ClientHello with one byte replaced.                                   *)
Base == Hello(3, 2, 1, <<Ext(23, 0)>>, <<97, 98, 99>>, <<Ext(21, 2)>>)
Broken == {[Base EXCEPT !.data[i] = v, !.origin = "any"] :
             i \in {1, 6} \cup 44 .. Len(Base.data), v \in {0, 1, 5, 20, 255}}

AllInputs == CutHellos \cup Decoys \cup Broken
=============================================================================
