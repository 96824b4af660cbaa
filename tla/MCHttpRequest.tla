--------------------------- MODULE MCHttpRequest ----------------------------
(* Values for the constants of HttpRequest.                                *)
EXTENDS HttpRequest

W(name)         == [name |-> name, colon |-> "none", mixed |-> FALSE]
WC(name, colon) == [W(name) EXCEPT !.colon = colon]
L(words)        == [lead |-> FALSE, words |-> words]

Blank == [EmptyLine EXCEPT !.lead = TRUE]

(* CONNECT with and without a target, a port, a version and leading blanks;*)
(* GET; a word that only looks like CONNECT; a header; no words.           *)
FirstLines ==
    {L(<<W("connect")>>), L(<<W("connect"), WC("host", "port"), W("http")>>),
     L(<<W("connect"), W("host"), W("http"), W("x")>>),
     L(<<W("connect"), WC("host", "text")>>),
     [lead |-> TRUE, words |-> <<W("connect"), WC("host", "port")>>],
     L(<<W("get"), WC("http", "text"), W("http")>>),
     [lead |-> TRUE, words |-> <<W("get"), W("host")>>], L(<<W("get")>>),
     L(<<WC("connect", "text"), W("host")>>), L(<<WC("via", "text"), W("x")>>),
     EmptyLine, Blank}

(* Headers that stay and that go, spaced in every way; no header; the end  *)
(* of the header block; a request line where it does not belong.           *)
OtherLines ==
    {L(<<WC("host", "text"), W("x")>>), L(<<WC("via", "text"), W("x")>>),
     L(<<W("via"), WC("", "text"), W("x")>>),
     [lead |-> TRUE, words |-> <<WC("via", "text")>>],
     L(<<W("x"), WC("via", "text")>>), L(<<W("via")>>), L(<<WC("", "text")>>),
     L(<<W("connect"), WC("host", "port"), W("http")>>), EmptyLine, Blank}

MCRequests ==
    {<<first>> \o rest : first \in FirstLines,
                         rest \in UNION {[1 .. n -> OtherLines] : n \in 0 .. 3}}
=============================================================================
