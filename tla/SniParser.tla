----------------------------- MODULE SniParser -----------------------------
(***************************************************************************)
(* find_sni_info: the walk over the length-prefixed fields of a            *)
(* ClientHello that ends at the host name, and the builder of the decoy    *)
(* ClientHello.  TlsSplit keeps only the outcome of this walk; FindsTheName*)
(* and NameInside are what justifies it.  Every length comes from the      *)
(* client; offsets count from 0, as in the code.                           *)
(***************************************************************************)
EXTENDS TlsSplit

CONSTANTS
    Inputs,        \* buffers to parse, see Input
    Hosts          \* names a decoy is built for

Byte == 0 .. 255

TLS_CONTENT_TYPE_HANDSHAKE  == 22
HANDSHAKE_TYPE_CLIENT_HELLO == 1
SNI_EXTENSION_TYPE          == 0

-----------------------------------------------------------------------------
(* build_synthetic_client_hello; << >> stands for no name.                 *)

Zeros(n) == [i \in 1 .. n |-> 0]
Be16(n)  == <<(n % U16) \div 256, n % 256>>       \* (n as u16).to_be_bytes()

ServerName(host) ==
    IF host = << >> THEN << >>
    ELSE <<0, 0>> \o Be16(5 + Len(host)) \o Be16(3 + Len(host)) \o <<0>>
         \o Be16(Len(host)) \o host

HelloBody(host, include_padding) ==
    LET padding    == IF include_padding THEN <<0, 21, 0, 10>> \o Zeros(10) ELSE << >>
        extensions == ServerName(host) \o padding
    IN  <<3, 3>> \o Zeros(32) \o <<0, 0, 2, 0, 47, 1, 0>>
        \o Be16(Len(extensions)) \o extensions

(* Mutant: the record announces the handshake's body without its header.   *)
SyntheticWithoutHandshakeHeader(host, include_padding) ==
    LET body == HelloBody(host, include_padding)
    IN  <<22, 3, 1>> \o Be16(Len(body)) \o <<1, 0>> \o Be16(Len(body)) \o body

build_synthetic_client_hello(host, include_padding) ==
    LET body == HelloBody(host, include_padding)
    IN  <<22, 3, 1>> \o Be16(4 + Len(body)) \o <<1, 0>> \o Be16(Len(body)) \o body

-----------------------------------------------------------------------------
(* What a ClientHello looks like; offsets count from the record's first    *)
(* byte.                                                                   *)

ByteAt(h, i) == IF i < Len(h) THEN h[i + 1] ELSE 0
WordAt(h, i) == ByteAt(h, i) * 256 + ByteAt(h, i + 1)

SessionId          == TLS_RECORD_HEADER_SIZE + 4 + 34
CipherSuites(h)    == SessionId + 1 + ByteAt(h, SessionId)
Compression(h)     == CipherSuites(h) + 2 + WordAt(h, CipherSuites(h))
ExtensionsLen(h)   == Compression(h) + 1 + ByteAt(h, Compression(h))
FirstExtension(h)  == ExtensionsLen(h) + 2
ExtensionsEnd(h)   == FirstExtension(h) + WordAt(h, ExtensionsLen(h))
NextExtension(h, e) == e + 4 + WordAt(h, e + 2)

(* origin "client": data are the first bytes of the ClientHello whole, the *)
(* extensions of which start at the offsets exts and which flight          *)
(* describes; "decoy": likewise for a whole synthetic one; "any": bytes    *)
(* about which nothing is known.                                           *)
Input == [data : Seq(Byte), whole : Seq(Byte), exts : SUBSET Nat,
          origin : {"client", "decoy", "any"}, flight : Flight]

(* The extensions of h fill the space between their length and their end.  *)
Tiled(h, exts) ==
    LET first == FirstExtension(h)
        end   == ExtensionsEnd(h)
    IN  /\ first \in exts \cup {end}
        /\ \A e \in exts : /\ e >= first
                           /\ NextExtension(h, e) \in exts \cup {end}
                           /\ NextExtension(h, e) <= end
                           /\ \A d \in exts : d < e => NextExtension(h, d) <= e

(* The host name of f is the first of the server name extension at e.      *)
NamedAt(h, e, f) ==
    /\ WordAt(h, e) = SNI_EXTENSION_TYPE
    /\ f.hostname_offset = e + 9
    /\ f.hostname_length = WordAt(h, e + 7)
    /\ f.hostname_offset + f.hostname_length <= NextExtension(h, e)

(* A ClientHello and what its flight says of it.  Of each type there is at *)
(* most one extension (RFC 8446, 4.2).                                     *)
ClientHello(h, exts, f) ==
    /\ ByteAt(h, 0) = TLS_CONTENT_TYPE_HANDSHAKE
    /\ ByteAt(h, 5) = HANDSHAKE_TYPE_CLIENT_HELLO
    /\ ExtensionsEnd(h) <= Len(h)
    /\ Tiled(h, exts)
    /\ f.hello /\ f.payload_len = WordAt(h, 3)
    /\ f.sni => \E e \in exts : NamedAt(h, e, f)
    /\ \A e \in exts : WordAt(h, e) = SNI_EXTENSION_TYPE => f.sni /\ NamedAt(h, e, f)

Cut(h, data) == Len(data) <= Len(h) /\ data = SubSeq(h, 1, Len(data))

(* The decoy for host, with the place of its name and of its extensions.   *)
Decoy(host, include_padding) ==
    LET data == build_synthetic_client_hello(host, include_padding)
    IN  [data   |-> data, whole |-> data, origin |-> "decoy",
         exts   |-> {52} \cup (IF include_padding THEN {61 + Len(host)} ELSE {}),
         flight |-> [hello |-> TRUE, payload_len |-> Len(data) - TLS_RECORD_HEADER_SIZE,
                     sni |-> TRUE, hostname_offset |-> 61,
                     hostname_length |-> Len(host)]]

(* Bytes of a padded decoy besides its record's header and the name.       *)
FRAME == 70

(* The decoy fits a record: beyond, its 16 bit lengths wrap.               *)
ASSUME HostsAssumption ==
    \A host \in Hosts : host \in Seq(Byte) \ {<< >>} /\ Len(host) + FRAME < U16

ASSUME InputsAssumption ==
    /\ Inputs \subseteq Input
    /\ \A in \in Inputs :
          /\ in.origin = "client" =>
                ClientHello(in.whole, in.exts, in.flight) /\ Cut(in.whole, in.data)
          /\ in.origin = "decoy" =>
                \E host \in Hosts, p \in BOOLEAN : in = Decoy(host, p)

-----------------------------------------------------------------------------
VARIABLES
    input,
    pc,
    pos,
    extensions_end,
    touched,            \* indices the last step read
    result

vars == <<input, pc, pos, extensions_end, touched, result>>

None == [hostname_offset |-> 0, hostname_length |-> 0]

Size == Len(input.data)
At(i) == ByteAt(input.data, i)
read_u16(i) == WordAt(input.data, i)

Init ==
    /\ input \in Inputs
    /\ pc = "start" /\ pos = 0 /\ extensions_end = 0
    /\ touched = {} /\ result = None

Return(r) == pc' = "done" /\ result' = r
GiveUp    == Return(None) /\ touched' = {} /\ UNCHANGED <<pos, extensions_end>>

(* Record header, handshake header, version and random are skipped.        *)
Start ==
    /\ pc = "start"
    /\ \/ Size < 6 /\ GiveUp
       \/ /\ Size >= 6 /\ touched' = {0, 5}
          /\ \/ /\ At(0) = TLS_CONTENT_TYPE_HANDSHAKE
                /\ At(5) = HANDSHAKE_TYPE_CLIENT_HELLO
                /\ pos' = TLS_RECORD_HEADER_SIZE + 4 + 34
                /\ pc' = "session_id" /\ UNCHANGED result
             \/ /\ ~(At(0) = TLS_CONTENT_TYPE_HANDSHAKE /\ At(5) = HANDSHAKE_TYPE_CLIENT_HELLO)
                /\ Return(None) /\ UNCHANGED pos
          /\ UNCHANGED extensions_end
    /\ UNCHANGED input

(* Mutant: the cipher suites' length is taken for one byte.                *)
NarrowPrefix == 1

(* Width of the length in front of the field, and its value.               *)
Prefix   == IF pc \in {"session_id", "compression"} THEN 1 ELSE 2
FieldLen == IF Prefix = 1 THEN At(pos) ELSE read_u16(pos)

(* Mutant: the buffer may end inside the length.                           *)
PrefixHalfInside == pos < Size

PrefixInside == pos + Prefix <= Size

NextField == CASE pc = "session_id"    -> "cipher_suites"
               [] pc = "cipher_suites" -> "compression"
               [] OTHER                -> "extensions"

SkipField ==
    /\ pc \in {"session_id", "cipher_suites", "compression"}
    /\ \/ ~PrefixInside /\ GiveUp
       \/ /\ PrefixInside
          /\ touched' = pos .. pos + Prefix - 1
          /\ pos' = pos + Prefix + FieldLen
          /\ pc' = NextField
          /\ UNCHANGED <<extensions_end, result>>
    /\ UNCHANGED input

ExtensionsLength ==
    /\ pc = "extensions"
    /\ \/ ~PrefixInside /\ GiveUp
       \/ /\ PrefixInside
          /\ touched' = {pos, pos + 1}
          /\ pos' = pos + 2
          /\ extensions_end' = pos + 2 + read_u16(pos)
          /\ pc' = "scan" /\ UNCHANGED result
    /\ UNCHANGED input

MoreExtensions == pos + 4 <= extensions_end /\ pos + 4 <= Size
HostnameLen    == read_u16(pos + 7)       \* the cursor is 4 further by then

(* Mutant: the header of an extension is not skipped with its data.        *)
ExtensionDataEnd == pos + read_u16(pos + 2)

ExtensionEnd == pos + 4 + read_u16(pos + 2)

(* Mutant: the name may reach past the buffer.                             *)
NameUnchecked == TRUE

NameFits == pos + 9 + HostnameLen <= Size

(* One extension; of the server name extension, the first name is taken.   *)
ScanExtension ==
    /\ pc = "scan"
    /\ LET head == pos .. pos + 3
       IN  \/ ~MoreExtensions /\ GiveUp
           \/ /\ MoreExtensions /\ read_u16(pos) # SNI_EXTENSION_TYPE
              /\ touched' = head /\ pos' = ExtensionEnd
              /\ UNCHANGED <<pc, extensions_end, result>>
           \/ /\ MoreExtensions /\ read_u16(pos) = SNI_EXTENSION_TYPE
              /\ \/ pos + 9 > Size /\ Return(None) /\ touched' = head
                 \/ /\ pos + 9 <= Size /\ touched' = head \cup {pos + 7, pos + 8}
                    /\ \/ ~NameFits /\ Return(None)
                       \/ NameFits /\ Return([hostname_offset |-> pos + 9,
                                              hostname_length |-> HostnameLen])
              /\ UNCHANGED <<pos, extensions_end>>
    /\ UNCHANGED input

Step == Start \/ SkipField \/ ExtensionsLength \/ ScanExtension

Returned == pc = "done" /\ UNCHANGED vars

Next == Step \/ Returned

Spec == Init /\ [][Next]_vars

-----------------------------------------------------------------------------
(* Properties.                                                             *)

SniInfo == [hostname_offset : Nat, hostname_length : Nat]

(* Type invariant.                                                         *)
TypeOK ==
    /\ input \in Inputs
    /\ pc \in {"start", "session_id", "cipher_suites", "compression",
               "extensions", "scan", "done"}
    /\ pos \in Nat /\ extensions_end \in Nat
    /\ touched \subseteq Nat /\ result \in SniInfo

(* No read leaves the buffer, whatever the lengths in it say: find_sni_info*)
(* cannot panic.                                                           *)
InBounds == touched \subseteq 0 .. Size - 1

(* A name that is reported lies behind the record header and inside the    *)
(* buffer, as handle_connect_tunnel relies on when it cuts the record.     *)
NameInside ==
    result # None =>
        /\ result.hostname_offset > TLS_RECORD_HEADER_SIZE
        /\ result.hostname_offset + result.hostname_length <= Size

(* Of a ClientHello cut after any byte, the name found is the client's and *)
(* it is found exactly when its last byte is there.                        *)
FindsTheName ==
    pc = "done" /\ input.origin # "any" =>
        result = IF find_sni_info(input.flight, Size)
                 THEN [hostname_offset |-> input.flight.hostname_offset,
                       hostname_length |-> input.flight.hostname_length]
                 ELSE None

(* The decoy is one whole record that holds one whole handshake message:   *)
(* the record and the message announce what follows them.                  *)
DecoyIsWhole ==
    input.origin = "decoy" =>
        /\ read_u16(3) = Size - TLS_RECORD_HEADER_SIZE
        /\ At(6) = 0 /\ read_u16(7) = Size - TLS_RECORD_HEADER_SIZE - 4

Room == IF pos < Size THEN Size - pos ELSE 0
Rank == CASE pc = "done" -> 0 [] pc = "scan" -> 1 [] pc = "extensions" -> 2
          [] pc = "compression" -> 3 [] pc = "cipher_suites" -> 4
          [] pc = "session_id" -> 5 [] OTHER -> 6

(* The walk ends, in steps bounded by the size of the buffer: an extension *)
(* of length 0 does not keep the scan in place.                            *)
ScanIsBounded == [][Room' <= Room /\ Room' + Rank' < Room + Rank]_vars

(* In a ClientHello the cursor is at the field the walk has come to, and   *)
(* never past the server name.                                             *)
OnTrack ==
    input.origin # "any" =>
        LET h == input.whole
        IN  /\ pc = "session_id"    => pos = SessionId
            /\ pc = "cipher_suites" => pos = CipherSuites(h)
            /\ pc = "compression"   => pos = Compression(h)
            /\ pc = "extensions"    => pos = ExtensionsLen(h)
            /\ pc = "scan" =>
                  /\ extensions_end = ExtensionsEnd(h)
                  /\ pos \in input.exts \cup {extensions_end}
                  /\ input.flight.sni => pos + 9 <= input.flight.hostname_offset

(* The inductive invariant.                                                *)
IInv ==
    /\ TypeOK /\ InBounds /\ NameInside
    /\ pc = "start" => pos = 0
    /\ pc \in {"session_id", "cipher_suites", "compression", "extensions", "scan"}
           => pos >= TLS_RECORD_HEADER_SIZE
    /\ pc # "done" => result = None
    /\ OnTrack /\ FindsTheName
=============================================================================
