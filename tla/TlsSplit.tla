------------------------------ MODULE TlsSplit ------------------------------
(***************************************************************************)
(* The pure part of the ClientHello path: which bytes of the first flight  *)
(* form the first TLS record, where its server name lies, where the name   *)
(* may be cut, and the two records a cut produces.  Offsets are Rust       *)
(* half-open ranges [from, to) into the client's byte stream; payload      *)
(* bytes are never materialised, an interval of offsets stands for them.   *)
(***************************************************************************)
EXTENDS Integers, Sequences

TLS_RECORD_HEADER_SIZE == 5
U16 == 65536                      \* widths of the lengths in TLS headers

(***************************************************************************)
(* What the client's first flight looks like: whether it opens with a      *)
(* handshake record holding a ClientHello, the length that record's header *)
(* announces, and the place of the host name in it (offsets counted from   *)
(* the first byte of the record).                                          *)
(***************************************************************************)
Flight == [hello : BOOLEAN, payload_len : 0 .. U16 - 1, sni : BOOLEAN,
           hostname_offset : Nat, hostname_length : 0 .. U16 - 1]

(* A buffer holding the first n bytes of flight f.                         *)
is_client_hello(f, n) == f.hello /\ n >= 6

(* Some(SniInfo) exactly when the host name ends inside the buffer.        *)
find_sni_info(f, n) ==
    is_client_hello(f, n) /\ f.sni /\ f.hostname_offset + f.hostname_length <= n

(* Mutant: the record's end computed without its header.                   *)
ExtractWithoutHeader(f, n) ==
    IF is_client_hello(f, n) /\ f.payload_len > 0 /\ n > f.payload_len
    THEN f.payload_len ELSE n

(* Length of raw_ch; the rest of the n bytes is trailing_data.             *)
extract_first_tls_record(f, n) ==
    LET rec_len == TLS_RECORD_HEADER_SIZE + f.payload_len
    IN  IF is_client_hello(f, n) /\ rec_len > TLS_RECORD_HEADER_SIZE /\ n > rec_len
        THEN rec_len ELSE n

SatSub(a, b)  == IF a >= b THEN a - b ELSE 0
Smaller(a, b) == IF a <= b THEN a ELSE b
Larger(a, b)  == IF a >= b THEN a ELSE b

(* Mutant: half the whole name added to the www. prefix.                   *)
CutPastPrefix(hostname_length, www) ==
    {(IF www THEN 4 ELSE 0) + hostname_length \div 2}

(* Every value fastrand may pick; www: the requested host begins "www.".   *)
calculate_sni_cut_offset(hostname_length, www) ==
    LET start_offset == IF www THEN 4 ELSE 0
        domain_len   == SatSub(hostname_length, start_offset)
        mid          == start_offset + domain_len \div 2
        min_cut      == Larger(SatSub(mid, 1), start_offset + 2)
        max_cut      == Smaller(mid + 1, hostname_length - 2)
    IN  IF hostname_length > 6 /\ min_cut <= max_cut
        THEN min_cut .. max_cut
        ELSE {hostname_length \div 2}

(***************************************************************************)
(* Output to the remote: a synthesised record header announcing len bytes  *)
(* for the interval [from, to), or the bytes of an interval themselves.    *)
(***************************************************************************)
Segment == [kind : {"header", "bytes"}, from : Nat, to : Nat, len : Nat]

build_tls_header(from, to) ==
    [kind |-> "header", from |-> from, to |-> to, len |-> (to - from) % U16]

Bytes(from, to) == [kind |-> "bytes", from |-> from, to |-> to, len |-> to - from]

(* A TlsRecordSlice is its header followed by its payload.                 *)
TlsRecordSlice(from, to) == <<build_tls_header(from, to), Bytes(from, to)>>

(* The records made of raw_ch = [base, base + n) cut at offset split.      *)
fragment_at_offset(base, n, split) ==
    IF \/ n <= TLS_RECORD_HEADER_SIZE
       \/ split <= TLS_RECORD_HEADER_SIZE
       \/ split >= n
    THEN <<TlsRecordSlice(base + Smaller(n, TLS_RECORD_HEADER_SIZE), base + n)>>
    ELSE <<TlsRecordSlice(base + TLS_RECORD_HEADER_SIZE, base + split),
           TlsRecordSlice(base + split, base + n)>>

-----------------------------------------------------------------------------
(* The remote's incoming byte stream.  TCP keeps no message boundaries, so *)
(* bytes that continue the last interval extend it.                        *)
Put(w, s) ==
    IF /\ w # << >> /\ s.kind = "bytes"
       /\ w[Len(w)].kind = "bytes" /\ w[Len(w)].to = s.from
    THEN [w EXCEPT ![Len(w)] = Bytes(@.from, s.to)]
    ELSE Append(w, s)

(* Offset of the client byte that must follow segment s.                   *)
After(s) == IF s.kind = "header" THEN s.from ELSE s.to

(* From offset start on, w carries every client byte in order; where w     *)
(* opens with a synthesised header, that replaces the client's own.        *)
Unbroken(w) == \A i \in 1 .. Len(w) - 1 : w[i + 1].from = After(w[i])
StartsAt(w, start) ==
    w # << >> => w[1].from = IF w[1].kind = "header"
                             THEN start + TLS_RECORD_HEADER_SIZE ELSE start
=============================================================================
