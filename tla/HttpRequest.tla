---------------------------- MODULE HttpRequest -----------------------------
(***************************************************************************)
(* handle_client between its read and the handler it calls: the request is *)
(* rewritten by preprocess_http_request, and the rewritten text decides    *)
(* the handler and the CONNECT target.                                     *)
(*                                                                         *)
(* A text is what split('\n') makes of it; a line is its words.  Case of a *)
(* word and width of white space matter only at the start of a line, and,  *)
(* by way of literal, to the test for GET and POST.                        *)
(***************************************************************************)
EXTENDS Integers, SequencesExt

CONSTANTS
    Names,          \* words without regard to case, "" for none
    ProxyHeaders,   \* PROXY_HEADERS_TO_REMOVE
    Requests        \* texts a client's first segment may hold

(* name: what stands before the word's first colon; colon: none, or what   *)
(* follows it is a port number or another text; mixed: case was rewritten. *)
Word == [name : Names, colon : {"none", "port", "text"}, mixed : BOOLEAN]
Line == [lead : BOOLEAN, words : Seq(Word)]

EmptyLine == [lead |-> FALSE, words |-> << >>]

ASSUME HttpRequestAssumption ==
    /\ ProxyHeaders \subseteq Names
    /\ Requests \subseteq Seq(Line) \ {<< >>}

VARIABLES
    request,        \* request_str
    literal,        \* its first word is in capitals, one space behind it
    text,           \* cleaned_request, as far as it is made
    http_space, mix_header_case,
    stage,
    handler         \* who answers, and the target of a tunnel

vars == <<request, literal, text, http_space, mix_header_case, stage, handler>>

NoHandler == [kind |-> "none", target |-> "none"]

Init ==
    /\ request \in Requests /\ literal \in BOOLEAN /\ text = request
    /\ http_space \in BOOLEAN /\ mix_header_case \in BOOLEAN
    /\ stage = "strip" /\ handler = NoHandler

-----------------------------------------------------------------------------
(* SelectSeq by way of FlattenSeq: the elements of s that pass the test.   *)
Sifted(s, Test(_)) ==
    FlattenSeq([j \in 1 .. Len(s) |-> IF Test(s[j]) THEN <<s[j]>> ELSE << >>])

(* str::lines and join("\r\n").                                            *)
lines(t) == IF Last(t) = EmptyLine THEN Front(t) ELSE t

join(ls) == IF ls = << >> THEN <<EmptyLine>> ELSE ls

(* The lines both rewriters go through: up to the first empty one that is  *)
(* not the first line, or all.                                             *)
HeadLines(ls) ==
    LET ends == {j \in 2 .. Len(ls) : ls[j] = EmptyLine}
    IN  IF ends = {} THEN ls ELSE SubSeq(ls, 1, Min(ends))

Colons(line) == {k \in 1 .. Len(line.words) : line.words[k].colon # "none"}

HasKey(line) == Colons(line) # {}

(* split_once(':') and trim: the words of the key.                         *)
IsText(name) == name # ""
Key(line) == Sifted([k \in 1 .. Min(Colons(line)) |-> line.words[k].name], IsText)

IsListed(key) == \E h \in ProxyHeaders : key = <<h>>

IsProxyHeader(line) == HasKey(line) /\ IsListed(Key(line))

Keep(line) == ~IsProxyHeader(line)

(* Mutant: a header to remove ends the loop.                               *)
StripEnds(ls) ==
    LET found == {j \in 2 .. Len(ls) : IsProxyHeader(ls[j])}
    IN  IF found = {} THEN HeadLines(ls) ELSE SubSeq(ls, 1, Min(found) - 1)

strip_proxy_headers(ls) ==
    IF ls = << >> THEN << >>
    ELSE <<ls[1]>> \o Sifted(Tail(HeadLines(ls)), Keep)

(* Mutant: the parts are counted from one.                                 *)
SpacesOffByOne(line) ==
    IF Len(line.words) < 2 THEN line
    ELSE [lead |-> FALSE,
          words |-> SubSeq(line.words, 2, IF Len(line.words) = 2 THEN 2 ELSE 3)]

apply_connect_space_insertion(line) ==
    IF Len(line.words) < 2 THEN line
    ELSE [lead |-> FALSE,
          words |-> SubSeq(line.words, 1, IF Len(line.words) = 2 THEN 2 ELSE 3)]

mix_case(word) == [word EXCEPT !.mixed = TRUE]

(* A header's key is trimmed, so a colon on its own joins the word before  *)
(* it, and its words are rewritten.                                        *)
MixKey(line) ==
    IF ~HasKey(line) THEN line
    ELSE LET n     == Min(Colons(line))
             words == line.words
             alone == ~IsText(words[n].name) /\ n > 1
             key   == [k \in 1 .. n |-> mix_case(words[k])]
         IN  [lead |-> FALSE,
              words |-> (IF alone THEN [SubSeq(key, 1, n - 1) EXCEPT ![n - 1].colon = words[n].colon]
                         ELSE key) \o SubSeq(words, n + 1, Len(words))]

apply_header_case_mixing(ls) ==
    [j \in 1 .. Len(HeadLines(ls)) |-> IF j = 1 THEN ls[j] ELSE MixKey(ls[j])]

-----------------------------------------------------------------------------
(* preprocess_http_request.                                                *)

StripHeaders ==
    /\ stage = "strip"
    /\ text' = join(strip_proxy_headers(lines(text)))
    /\ stage' = "space"
    /\ UNCHANGED <<request, literal, http_space, mix_header_case, handler>>

(* The first line is rewritten; a rest without text is dropped.            *)
InsertSpaces ==
    /\ stage = "space"
    /\ text' = IF ~http_space THEN text
               ELSE <<apply_connect_space_insertion(text[1])>>
                    \o IF Tail(text) = <<EmptyLine>> THEN << >> ELSE Tail(text)
    /\ stage' = "mix"
    /\ UNCHANGED <<request, literal, http_space, mix_header_case, handler>>

MixHeaderCase ==
    /\ stage = "mix"
    /\ text' = IF mix_header_case THEN join(apply_header_case_mixing(lines(text)))
               ELSE text
    /\ stage' = "dispatch"
    /\ UNCHANGED <<request, literal, http_space, mix_header_case, handler>>

-----------------------------------------------------------------------------
(* The choice of the handler.                                              *)

AllWords(t) == FlattenSeq([j \in 1 .. Len(t) |-> t[j].words])

IsConnect(word) == word.name = "connect" /\ word.colon = "none"

(* The first word of the text, on whatever line it is.                     *)
is_http_connect(t) == AllWords(t) # << >> /\ IsConnect(AllWords(t)[1])

(* The host, if the first line is CONNECT and a target with a usable port. *)
parse_connect_target(t) ==
    LET words == t[1].words
    IN  IF Len(words) >= 2 /\ IsConnect(words[1]) /\ words[2].colon # "text"
        THEN words[2].name ELSE "none"

(* starts_with("GET ") or starts_with("POST "), to the letter.             *)
StartsGetOrPost(t) ==
    /\ literal /\ ~t[1].lead /\ t[1].words # << >>
    /\ t[1].words[1].name \in {"get", "post"} /\ t[1].words[1].colon = "none"

(* CONNECT is looked for in the text t, GET and POST in the client's own.  *)
HandlerOf(t) ==
    LET target == parse_connect_target(t)
    IN  IF is_http_connect(t)
        THEN [kind |-> IF target = "none" THEN "bad_request" ELSE "tunnel",
              target |-> target]
        ELSE [kind |-> IF StartsGetOrPost(request) THEN "redirect" ELSE "not_found",
              target |-> "none"]

Dispatch ==
    /\ stage = "dispatch"
    /\ handler' = HandlerOf(text)
    /\ stage' = "handled"
    /\ UNCHANGED <<request, literal, text, http_space, mix_header_case>>

Handled == stage = "handled" /\ UNCHANGED vars

Next == StripHeaders \/ InsertSpaces \/ MixHeaderCase \/ Dispatch \/ Handled

Spec == Init /\ [][Next]_vars

-----------------------------------------------------------------------------
(* Properties.                                                             *)

(* What the settings and the header removal do to a request never opens,   *)
(* refuses or retargets a tunnel and never gives or takes a redirect: the  *)
(* rewritten text has the handler the client's own text would have had.    *)
(* Only a blank first line lets removed or cut lines decide which word     *)
(* comes first, and then a 404 may become a 400 or a 400 a 404.            *)
DispatchedAsAsked ==
    stage = "handled" =>
        LET asked == HandlerOf(request)
        IN  \/ handler = asked
            \/ /\ request[1].words = << >> /\ handler.target = asked.target
               /\ {handler.kind, asked.kind} = {"bad_request", "not_found"}

HeaderBlock(t) == IF lines(t) = << >> THEN << >> ELSE Tail(HeadLines(lines(t)))

Headers(ls) == Sifted(ls, HasKey)
Keys(ls)    == [j \in 1 .. Len(Headers(ls)) |-> Key(Headers(ls)[j])]
Stays(key)  == ~IsListed(key)

(* Of the header block, exactly the listed headers are gone, wherever they *)
(* stand and however they are spaced; all others keep their order.         *)
OnlyListedHeadersGo ==
    stage # "strip" =>
        Keys(HeaderBlock(text)) = Sifted(Keys(HeaderBlock(request)), Stays)

(* Of the first line, what anybody looks at is as the client sent it.      *)
SameStart(new, old) ==
    /\ new = << >> <=> old = << >>
    /\ Len(new) >= 2 <=> Len(old) >= 2
    /\ \A k \in 1 .. 2 : k <= Len(new) => new[k] = old[k]

FirstLineKept == SameStart(text[1].words, request[1].words)

(* What strip_proxy_headers leaves is the first line, the header block     *)
(* and at most one line that ends it.                                      *)
OnlyHeadersLeft ==
    stage # "strip" =>
        LET block == HeaderBlock(text)
            start == <<text[1]>> \o block
        IN  /\ text = start \/ text = Append(start, EmptyLine)
            /\ block \in Seq(Line \ {EmptyLine})

(* The inductive invariant.                                                *)
IInv ==
    /\ request \in Requests /\ text \in Seq(Line) \ {<< >>}
    /\ stage \in {"strip", "space", "mix", "dispatch", "handled"}
    /\ stage = "strip" => text = request
    /\ FirstLineKept /\ OnlyHeadersLeft
    /\ DispatchedAsAsked /\ OnlyListedHeadersGo
=============================================================================
