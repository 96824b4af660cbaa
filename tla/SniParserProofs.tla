-------------------------- MODULE SniParserProofs --------------------------
(* Proofs about find_sni_info, for every buffer.                           *)
EXTENDS SniParser, TLAPS

(* A string of bytes.                                                      *)
Bytestring(h) == h \in Seq(Byte)

(* Every index into a string of bytes yields a byte, every pair a word.    *)
LEMMA BytesAndWords ==
    ASSUME NEW h, Bytestring(h), NEW i \in Nat
    PROVE  ByteAt(h, i) \in Byte /\ WordAt(h, i) \in Nat
  <1>1. \A j \in Nat : ByteAt(h, j) \in Byte
    <2> TAKE j \in Nat
    <2>1. CASE j < Len(h)
      <3>1. Len(h) \in Nat
        BY DEF Bytestring
      <3>2. j + 1 \in 1 .. Len(h)
        BY <2>1, <3>1
      <3>3. h[j + 1] \in Byte
        BY <3>2 DEF Bytestring
      <3>4. QED
        BY <2>1, <3>3 DEF ByteAt
    <2>2. CASE ~(j < Len(h))
      BY <2>2 DEF ByteAt, Byte
    <2>3. QED
      BY <2>1, <2>2
  <1>2. ByteAt(h, i) \in Nat /\ ByteAt(h, i + 1) \in Nat
    BY <1>1 DEF Byte
  <1>3. WordAt(h, i) \in Nat
    BY <1>2 DEF WordAt
  <1>4. QED
    BY <1>1, <1>3

(* So does every index into the buffer.                                    *)
LEMMA BytesAreBytes ==
    ASSUME input \in Input, NEW i \in Nat
    PROVE  At(i) \in Nat /\ Size \in Nat
  <1>1. Bytestring(input.data)
    BY DEF Input, Bytestring
  <1>2. ByteAt(input.data, i) \in Byte
    BY <1>1, BytesAndWords
  <1>3. Size \in Nat
    BY <1>1 DEF Bytestring, Size
  <1>4. QED
    BY <1>2, <1>3 DEF At, Byte

(* Two bytes read as a word are a natural number.                          *)
LEMMA WordsAreNats ==
    ASSUME input \in Input, NEW i \in Nat
    PROVE  read_u16(i) \in Nat
  <1>1. Bytestring(input.data)
    BY DEF Input, Bytestring
  <1>2. WordAt(input.data, i) \in Nat
    BY <1>1, BytesAndWords
  <1>3. QED
    BY <1>2 DEF read_u16

(* Where the fields of a ClientHello lie, one behind the other.            *)
LEMMA FieldsInOrder ==
    ASSUME NEW h, Bytestring(h)
    PROVE  /\ SessionId = 43 /\ CipherSuites(h) \in Nat /\ Compression(h) \in Nat
           /\ ExtensionsLen(h) \in Nat /\ FirstExtension(h) \in Nat
           /\ ExtensionsEnd(h) \in Nat
           /\ SessionId + 1 <= CipherSuites(h)
           /\ CipherSuites(h) + 2 <= Compression(h)
           /\ Compression(h) + 1 <= ExtensionsLen(h)
           /\ ExtensionsLen(h) + 2 = FirstExtension(h)
           /\ FirstExtension(h) <= ExtensionsEnd(h)
  <1>1. \A i \in Nat : ByteAt(h, i) \in Nat /\ WordAt(h, i) \in Nat
    BY BytesAndWords DEF Byte
  <1>2. SessionId = 43
    BY DEF SessionId, TLS_RECORD_HEADER_SIZE
  <1>3. CipherSuites(h) \in Nat /\ SessionId + 1 <= CipherSuites(h)
    BY <1>1, <1>2 DEF CipherSuites
  <1>4. Compression(h) \in Nat /\ CipherSuites(h) + 2 <= Compression(h)
    BY <1>1, <1>3 DEF Compression
  <1>5. ExtensionsLen(h) \in Nat /\ Compression(h) + 1 <= ExtensionsLen(h)
    BY <1>1, <1>4 DEF ExtensionsLen
  <1>6. FirstExtension(h) \in Nat /\ ExtensionsLen(h) + 2 = FirstExtension(h)
    BY <1>5 DEF FirstExtension
  <1>7. ExtensionsEnd(h) \in Nat /\ FirstExtension(h) <= ExtensionsEnd(h)
    BY <1>1, <1>5, <1>6 DEF ExtensionsEnd
  <1>8. QED
    BY <1>2, <1>3, <1>4, <1>5, <1>6, <1>7

(* The bytes that have arrived are the ClientHello's.                      *)
LEMMA CutAgrees ==
    ASSUME NEW h, Bytestring(h), NEW d, Bytestring(d), Cut(h, d), NEW i \in Nat
    PROVE  /\ i < Len(d) => ByteAt(d, i) = ByteAt(h, i)
           /\ i + 1 < Len(d) => WordAt(d, i) = WordAt(h, i)
  <1>1. \A j \in Nat : j < Len(d) => ByteAt(d, j) = ByteAt(h, j)
    <2> TAKE j \in Nat
    <2> HAVE j < Len(d)
    <2>1. /\ Len(d) <= Len(h) /\ d = SubSeq(h, 1, Len(d))
          /\ Len(d) \in Nat /\ Len(h) \in Nat
      BY DEF Cut, Bytestring
    <2>2. j + 1 \in 1 .. Len(d)
      BY <2>1
    <2>3. SubSeq(h, 1, Len(d))[j + 1] = h[j + 1]
      BY <2>1, <2>2 DEF Bytestring
    <2>4. d[j + 1] = h[j + 1] /\ j < Len(h)
      BY <2>1, <2>3
    <2>5. QED
      BY <2>4 DEF ByteAt
  <1>2. QED
    BY <1>1 DEF WordAt

(* c is s followed by t, byte by byte and pair by pair.                    *)
Joined(c, s, t) ==
    /\ Bytestring(c) /\ Len(c) = Len(s) + Len(t)
    /\ Len(s) \in Nat /\ Len(t) \in Nat
    /\ \A i \in Nat : i < Len(s) => ByteAt(c, i) = ByteAt(s, i)
    /\ \A i \in Nat : ByteAt(c, Len(s) + i) = ByteAt(t, i)
    /\ \A i \in Nat : i + 1 < Len(s) => WordAt(c, i) = WordAt(s, i)
    /\ \A i \in Nat : WordAt(c, Len(s) + i) = WordAt(t, i)

(* What stands in two strings put together.                                *)
LEMMA CatBytes ==
    ASSUME NEW s, Bytestring(s), NEW t, Bytestring(t)
    PROVE  Joined(s \o t, s, t) /\ Bytestring(s \o t)
  <1>1. /\ Bytestring(s \o t) /\ Len(s \o t) = Len(s) + Len(t)
        /\ Len(s) \in Nat /\ Len(t) \in Nat
    BY DEF Bytestring
  <1>2. ASSUME NEW i \in Nat, i < Len(s) PROVE ByteAt(s \o t, i) = ByteAt(s, i)
    <2>1. i + 1 \in 1 .. Len(s)
      BY <1>1, <1>2
    <2>2. (s \o t)[i + 1] = s[i + 1]
      BY <2>1 DEF Bytestring
    <2>3. QED
      BY <1>1, <1>2, <2>2 DEF ByteAt
  <1>3. ASSUME NEW i \in Nat PROVE ByteAt(s \o t, Len(s) + i) = ByteAt(t, i)
    <2>1. CASE i < Len(t)
      <3>1. Len(s) + i + 1 \in Len(s) + 1 .. Len(s) + Len(t)
        BY <1>1, <2>1
      <3>2. (s \o t)[Len(s) + i + 1] = t[Len(s) + i + 1 - Len(s)]
        BY <1>1, <3>1 DEF Bytestring
      <3>3. Len(s) + i + 1 - Len(s) = i + 1 /\ Len(s) + i < Len(s \o t)
        BY <1>1, <2>1
      <3>4. QED
        BY <2>1, <3>2, <3>3 DEF ByteAt
    <2>2. CASE ~(i < Len(t))
      <3>1. ~(Len(s) + i < Len(s \o t))
        BY <1>1, <2>2
      <3>2. QED
        BY <2>2, <3>1 DEF ByteAt
    <2>3. QED
      BY <2>1, <2>2
  <1>4. ASSUME NEW i \in Nat, i + 1 < Len(s) PROVE WordAt(s \o t, i) = WordAt(s, i)
    <2>1. ByteAt(s \o t, i) = ByteAt(s, i) /\ ByteAt(s \o t, i + 1) = ByteAt(s, i + 1)
      BY <1>1, <1>2, <1>4
    <2>2. QED
      BY <2>1 DEF WordAt
  <1>5. ASSUME NEW i \in Nat PROVE WordAt(s \o t, Len(s) + i) = WordAt(t, i)
    <2>1. Len(s) + i + 1 = Len(s) + (i + 1)
      BY <1>1
    <2>2. /\ ByteAt(s \o t, Len(s) + i) = ByteAt(t, i)
          /\ ByteAt(s \o t, Len(s) + (i + 1)) = ByteAt(t, i + 1)
      BY <1>3
    <2>3. QED
      BY <2>1, <2>2 DEF WordAt
  <1>6. QED
    BY <1>1, <1>2, <1>3, <1>4, <1>5 DEF Joined

(* A length that fits two bytes is read back from them.                    *)
LEMMA Be16Bytes ==
    ASSUME NEW n \in Nat, n < U16
    PROVE  Bytestring(Be16(n)) /\ Len(Be16(n)) = 2 /\ WordAt(Be16(n), 0) = n
  <1>1. n % U16 = n
    BY SMT DEF U16
  <1>2. n \div 256 \in 0 .. 255 /\ n % 256 \in 0 .. 255 /\ (n \div 256) * 256 + (n % 256) = n
    BY SMT DEF U16
  <1> DEFINE hi == n \div 256
             lo == n % 256
  <1>3. Be16(n) = <<hi, lo>>
    BY <1>1 DEF Be16
  <1>4. hi \in Byte /\ lo \in Byte /\ hi * 256 + lo = n
    BY <1>2 DEF Byte
  <1> HIDE DEF hi, lo
  <1>5. <<hi, lo>> \in Seq(Byte) /\ Len(<<hi, lo>>) = 2
    BY <1>4
  <1>6. ByteAt(<<hi, lo>>, 0) = hi /\ ByteAt(<<hi, lo>>, 1) = lo
    BY <1>5 DEF ByteAt
  <1>7. QED
    BY <1>3, <1>4, <1>5, <1>6 DEF WordAt, Bytestring

(* The strings of one to three bytes the builder puts between the lengths. *)
LEMMA ShortStrings ==
    ASSUME NEW a \in Byte, NEW b \in Byte, NEW c \in Byte
    PROVE  /\ Bytestring(<<a>>) /\ Len(<<a>>) = 1 /\ ByteAt(<<a>>, 0) = a
           /\ Bytestring(<<a, b>>) /\ Len(<<a, b>>) = 2
           /\ ByteAt(<<a, b>>, 0) = a /\ WordAt(<<a, b>>, 0) = a * 256 + b
           /\ Bytestring(<<a, b, c>>) /\ Len(<<a, b, c>>) = 3
           /\ ByteAt(<<a, b, c>>, 0) = a
  BY DEF Bytestring, ByteAt, WordAt

(* The server name extension of a decoy.                                   *)
LEMMA ServerNameBytes ==
    ASSUME NEW host, Bytestring(host), host # << >>, Len(host) + FRAME < U16
    PROVE  LET x == ServerName(host)
           IN  /\ Bytestring(x) /\ Len(x) = 9 + Len(host)
               /\ WordAt(x, 0) = 0 /\ WordAt(x, 2) = 5 + Len(host)
               /\ WordAt(x, 7) = Len(host)
  <1> DEFINE n  == Len(host)
             type == <<0, 0>>
             ext  == Be16(5 + n)
             list == Be16(3 + n)
             kind == <<0>>
             len  == Be16(n)
             s1 == type \o ext
             s2 == s1 \o list
             s3 == s2 \o kind
             s4 == s3 \o len
             s5 == s4 \o host
  <1>1. ServerName(host) = s5
    BY DEF ServerName
  <1>2. n \in Nat /\ 5 + n < U16
    <2>1. n \in Nat /\ n + FRAME < U16
      BY DEF Bytestring
    <2> HIDE DEF n
    <2>2. QED
      BY <2>1, SMT DEF FRAME, U16
  <1>3. 5 + n \in Nat /\ 3 + n \in Nat /\ n < U16 /\ 3 + n < U16
    BY <1>2, SMT DEF U16
  <1>4. /\ Bytestring(len) /\ Len(len) = 2 /\ WordAt(len, 0) = n
        /\ Bytestring(list) /\ Len(list) = 2
        /\ Bytestring(ext) /\ Len(ext) = 2 /\ WordAt(ext, 0) = 5 + n
    BY <1>2, <1>3, Be16Bytes
  <1>5. 0 \in Byte
    BY DEF Byte
  <1>6. /\ Bytestring(kind) /\ Len(kind) = 1
        /\ Bytestring(type) /\ Len(type) = 2 /\ WordAt(type, 0) = 0 * 256 + 0
    BY <1>5, ShortStrings, Zenon
  <1>7. Bytestring(host) /\ Len(host) = n
    OBVIOUS
  <1> HIDE DEF n, type, ext, list, kind, len
  <1>8. Joined(s1, type, ext) /\ Bytestring(s1)
    BY <1>4, <1>6, CatBytes, Zenon
  <1> HIDE DEF s1
  <1>9. Joined(s2, s1, list) /\ Bytestring(s2)
    BY <1>4, <1>8, CatBytes, Zenon
  <1> HIDE DEF s2
  <1>10. Joined(s3, s2, kind) /\ Bytestring(s3)
    BY <1>6, <1>9, CatBytes, Zenon
  <1> HIDE DEF s3
  <1>11. Joined(s4, s3, len) /\ Bytestring(s4)
    BY <1>4, <1>10, CatBytes, Zenon
  <1> HIDE DEF s4
  <1>12. Joined(s5, s4, host) /\ Bytestring(s5)
    BY <1>11, <1>7, CatBytes, Zenon
  <1> HIDE DEF s5
  <1>13. Len(s1) = 4 /\ WordAt(s1, 0) = 0 /\ WordAt(s1, 2 + 0) = 5 + n
    <2>1. WordAt(type, 0) = 0
      BY <1>6
    <2>2. QED
      BY <1>4, <1>6, <1>8, <2>1 DEF Joined
  <1>14. Len(s2) = 6 /\ WordAt(s2, 0) = 0 /\ WordAt(s2, 2) = 5 + n
    BY <1>4, <1>9, <1>13 DEF Joined
  <1>15. Len(s3) = 7 /\ WordAt(s3, 0) = 0 /\ WordAt(s3, 2) = 5 + n
    BY <1>6, <1>10, <1>14 DEF Joined
  <1>16. /\ Len(s4) = 9 /\ WordAt(s4, 0) = 0 /\ WordAt(s4, 2) = 5 + n
         /\ WordAt(s4, 7 + 0) = n
    BY <1>4, <1>11, <1>15 DEF Joined
  <1>17. /\ Len(s5) = 9 + n /\ WordAt(s5, 0) = 0 /\ WordAt(s5, 2) = 5 + n
         /\ WordAt(s5, 7) = n
    BY <1>7, <1>12, <1>16 DEF Joined
  <1>18. QED
    BY <1>1, <1>7, <1>12, <1>17

(* The extensions of a decoy.                                              *)
Padding(include_padding) ==
    IF include_padding THEN <<0, 21, 0, 10>> \o Zeros(10) ELSE << >>

Extensions(host, include_padding) == ServerName(host) \o Padding(include_padding)

(* What build_synthetic_client_hello writes into the extensions.           *)
LEMMA ExtensionBytes ==
    ASSUME NEW host, Bytestring(host), host # << >>, Len(host) + FRAME < U16,
           NEW p \in BOOLEAN
    PROVE  LET x == Extensions(host, p)
               n == Len(host)
           IN  /\ Bytestring(x) /\ n \in Nat /\ Len(x) = 9 + n + (IF p THEN 14 ELSE 0)
               /\ WordAt(x, 0) = 0 /\ WordAt(x, 2) = 5 + n /\ WordAt(x, 7) = n
               /\ p => WordAt(x, 9 + n) = 21 /\ WordAt(x, 9 + n + 2) = 10
  <1> DEFINE n    == Len(host)
             name == ServerName(host)
             head == <<0, 21, 0, 10>>
             rest == Zeros(10)
             long == head \o rest
  <1>1. n \in Nat
    BY DEF Bytestring
  <1>2. /\ Bytestring(name) /\ Len(name) = 9 + n /\ WordAt(name, 0) = 0
        /\ WordAt(name, 2) = 5 + n /\ WordAt(name, 7) = n
    BY ServerNameBytes
  <1>3. /\ Bytestring(head) /\ Len(head) = 4 /\ WordAt(head, 0) = 21 /\ WordAt(head, 2) = 10
    BY DEF Bytestring, Byte, ByteAt, WordAt
  <1>4. Bytestring(rest) /\ Len(rest) = 10
    BY DEF Bytestring, Byte, Zeros
  <1> HIDE DEF n, name, head, rest
  <1>5. Joined(long, head, rest) /\ Bytestring(long)
    BY <1>3, <1>4, CatBytes, Zenon
  <1> HIDE DEF long
  <1>6. Len(long) = 14 /\ WordAt(long, 0) = 21 /\ WordAt(long, 2) = 10
    BY <1>3, <1>4, <1>5 DEF Joined
  <1>7. CASE p
    <2> DEFINE x == name \o long
    <2>1. Extensions(host, p) = x
      BY <1>7 DEF Extensions, Padding, name, long, head, rest
    <2>2. Joined(x, name, long) /\ Bytestring(x)
      BY <1>2, <1>5, CatBytes, Zenon
    <2> HIDE DEF x
    <2>3. /\ Len(x) = 9 + n + 14 /\ WordAt(x, 0) = 0 /\ WordAt(x, 2) = 5 + n
          /\ WordAt(x, 7) = n /\ WordAt(x, 9 + n + 0) = 21 /\ WordAt(x, 9 + n + 2) = 10
      BY <1>1, <1>2, <1>6, <2>2 DEF Joined
    <2>4. WordAt(x, 9 + n) = 21
      BY <1>1, <2>3
    <2>5. QED
      BY <1>1, <1>7, <2>1, <2>2, <2>3, <2>4 DEF n
  <1>8. CASE ~p
    <2>1. Extensions(host, p) = name \o << >>
      BY <1>8 DEF Extensions, Padding, name
    <2>2. name \o << >> = name
      BY <1>2 DEF Bytestring
    <2>3. QED
      BY <1>1, <1>2, <1>8, <2>1, <2>2 DEF n
  <1>9. QED
    BY <1>7, <1>8

(* The body of a decoy's handshake message.                                *)
LEMMA BodyBytes ==
    ASSUME NEW host, Bytestring(host), host # << >>, Len(host) + FRAME < U16,
           NEW p \in BOOLEAN
    PROVE  LET x == Extensions(host, p)
               b == HelloBody(host, p)
           IN  /\ Bytestring(b) /\ Len(b) = 43 + Len(x) /\ Len(b) + 4 < U16
               /\ ByteAt(b, 34) = 0 /\ WordAt(b, 35) = 2 /\ ByteAt(b, 39) = 1
               /\ WordAt(b, 41) = Len(x)
               /\ \A i \in Nat : WordAt(b, 43 + i) = WordAt(x, i)
  <1> DEFINE x     == Extensions(host, p)
             e     == Len(x)
             vers  == <<3, 3>>
             rand  == Zeros(32)
             fixed == <<0, 0, 2, 0, 47, 1, 0>>
             len   == Be16(e)
             b1 == vers \o rand
             b2 == b1 \o fixed
             b3 == b2 \o len
             b4 == b3 \o x
  <1>1. HelloBody(host, p) = b4
    BY DEF HelloBody, Extensions, Padding
  <1>2. Bytestring(x) /\ e \in Nat /\ e + 47 < U16
    <2>1. Bytestring(x) /\ Len(host) \in Nat /\ e = 9 + Len(host) + (IF p THEN 14 ELSE 0)
      BY ExtensionBytes
    <2> HIDE DEF e
    <2>2. e \in Nat /\ e <= 23 + Len(host)
      BY <2>1
    <2>3. QED
      BY <2>1, <2>2, SMT DEF FRAME, U16
  <1>3. Bytestring(vers) /\ Len(vers) = 2
    BY DEF Bytestring, Byte
  <1>4. Bytestring(rand) /\ Len(rand) = 32
    BY DEF Bytestring, Byte, Zeros
  <1>5. /\ Bytestring(fixed) /\ Len(fixed) = 7
        /\ ByteAt(fixed, 0) = 0 /\ WordAt(fixed, 1) = 2 /\ ByteAt(fixed, 5) = 1
    BY DEF Bytestring, Byte, ByteAt, WordAt
  <1>6. Bytestring(len) /\ Len(len) = 2 /\ WordAt(len, 0) = e
    <2>1. e < U16
      BY <1>2, SMT DEF U16
    <2>2. QED
      BY <1>2, <2>1, Be16Bytes
  <1>7. Len(x) = e
    OBVIOUS
  <1> HIDE DEF x, e, vers, rand, fixed, len
  <1>8. Joined(b1, vers, rand) /\ Bytestring(b1)
    BY <1>3, <1>4, CatBytes, Zenon
  <1> HIDE DEF b1
  <1>9. Joined(b2, b1, fixed) /\ Bytestring(b2)
    BY <1>5, <1>8, CatBytes, Zenon
  <1> HIDE DEF b2
  <1>10. Joined(b3, b2, len) /\ Bytestring(b3)
    BY <1>6, <1>9, CatBytes, Zenon
  <1> HIDE DEF b3
  <1>11. Joined(b4, b3, x) /\ Bytestring(b4)
    BY <1>2, <1>10, CatBytes, Zenon
  <1> HIDE DEF b4
  <1>12. Len(b1) = 34
    BY <1>3, <1>4, <1>8 DEF Joined
  <1>13. /\ Len(b2) = 41 /\ ByteAt(b2, 34 + 0) = 0 /\ WordAt(b2, 34 + 1) = 2
         /\ ByteAt(b2, 34 + 5) = 1
    BY <1>5, <1>9, <1>12 DEF Joined
  <1>14. /\ Len(b3) = 43 /\ ByteAt(b3, 34) = 0 /\ WordAt(b3, 35) = 2
         /\ ByteAt(b3, 39) = 1 /\ WordAt(b3, 41 + 0) = e
    BY <1>6, <1>10, <1>13 DEF Joined
  <1>15. /\ Len(b4) = 43 + e /\ ByteAt(b4, 34) = 0 /\ WordAt(b4, 35) = 2
         /\ ByteAt(b4, 39) = 1 /\ WordAt(b4, 41) = e
         /\ \A i \in Nat : WordAt(b4, 43 + i) = WordAt(x, i)
    BY <1>7, <1>11, <1>14 DEF Joined
  <1>16. Len(b4) + 4 < U16
    BY <1>2, <1>15, SMT DEF U16
  <1>17. QED
    BY <1>1, <1>7, <1>11, <1>15, <1>16 DEF x

(* The decoy as a whole.                                                   *)
LEMMA DecoyBytes ==
    ASSUME NEW host, Bytestring(host), host # << >>, Len(host) + FRAME < U16,
           NEW p \in BOOLEAN
    PROVE  LET b == HelloBody(host, p)
               d == build_synthetic_client_hello(host, p)
           IN  /\ Bytestring(d) /\ Len(d) = 9 + Len(b)
               /\ ByteAt(d, 0) = 22 /\ WordAt(d, 3) = 4 + Len(b) /\ ByteAt(d, 5) = 1
               /\ ByteAt(d, 6) = 0 /\ WordAt(d, 7) = Len(b)
               /\ \A i \in Nat : /\ ByteAt(d, 9 + i) = ByteAt(b, i)
                                 /\ WordAt(d, 9 + i) = WordAt(b, i)
  <1> DEFINE b     == HelloBody(host, p)
             l     == Len(b)
             vers  == <<22, 3, 1>>
             rlen  == Be16(4 + l)
             hello == <<1, 0>>
             hlen  == Be16(l)
             d1 == vers \o rlen
             d2 == d1 \o hello
             d3 == d2 \o hlen
             d4 == d3 \o b
  <1>1. build_synthetic_client_hello(host, p) = d4
    BY DEF build_synthetic_client_hello
  <1>2. Bytestring(b) /\ l \in Nat /\ l + 4 < U16
    <2>1. Bytestring(b) /\ l + 4 < U16
      BY BodyBytes
    <2>2. QED
      BY <2>1 DEF Bytestring
  <1>3. Bytestring(vers) /\ Len(vers) = 3 /\ ByteAt(vers, 0) = 22
    BY DEF Bytestring, Byte, ByteAt
  <1>4. Bytestring(hello) /\ Len(hello) = 2 /\ ByteAt(hello, 0) = 1 /\ ByteAt(hello, 1) = 0
    BY DEF Bytestring, Byte, ByteAt
  <1>5. Len(b) = l
    OBVIOUS
  <1> HIDE DEF b, l
  <1>6. 4 + l \in Nat /\ 4 + l < U16 /\ l < U16
    BY <1>2, SMT DEF U16
  <1>7. /\ Bytestring(rlen) /\ Len(rlen) = 2 /\ WordAt(rlen, 0) = 4 + l
        /\ Bytestring(hlen) /\ Len(hlen) = 2 /\ WordAt(hlen, 0) = l
    BY <1>2, <1>6, Be16Bytes
  <1> HIDE DEF vers, rlen, hello, hlen
  <1>8. Joined(d1, vers, rlen) /\ Bytestring(d1)
    BY <1>3, <1>7, CatBytes, Zenon
  <1> HIDE DEF d1
  <1>9. Joined(d2, d1, hello) /\ Bytestring(d2)
    BY <1>4, <1>8, CatBytes, Zenon
  <1> HIDE DEF d2
  <1>10. Joined(d3, d2, hlen) /\ Bytestring(d3)
    BY <1>7, <1>9, CatBytes, Zenon
  <1> HIDE DEF d3
  <1>11. Joined(d4, d3, b) /\ Bytestring(d4)
    BY <1>2, <1>10, CatBytes, Zenon
  <1> HIDE DEF d4
  <1>12. Len(d1) = 5 /\ ByteAt(d1, 0) = 22 /\ WordAt(d1, 3 + 0) = 4 + l
    BY <1>3, <1>7, <1>8 DEF Joined
  <1>13. /\ Len(d2) = 7 /\ ByteAt(d2, 0) = 22 /\ WordAt(d2, 3) = 4 + l
         /\ ByteAt(d2, 5 + 0) = 1 /\ ByteAt(d2, 5 + 1) = 0
    BY <1>4, <1>9, <1>12 DEF Joined
  <1>14. /\ Len(d3) = 9 /\ ByteAt(d3, 0) = 22 /\ WordAt(d3, 3) = 4 + l
         /\ ByteAt(d3, 5) = 1 /\ ByteAt(d3, 6) = 0 /\ WordAt(d3, 7 + 0) = l
    BY <1>7, <1>10, <1>13 DEF Joined
  <1>15. WordAt(d3, 7) = l
    BY <1>14
  <1>16. /\ Len(d4) = 9 + l /\ ByteAt(d4, 0) = 22 /\ WordAt(d4, 3) = 4 + l
         /\ ByteAt(d4, 5) = 1 /\ ByteAt(d4, 6) = 0 /\ WordAt(d4, 7) = l
    BY <1>5, <1>11, <1>14, <1>15 DEF Joined
  <1>17. \A i \in Nat : /\ ByteAt(d4, 9 + i) = ByteAt(b, i)
                       /\ WordAt(d4, 9 + i) = WordAt(b, i)
    BY <1>11, <1>14 DEF Joined
  <1>18. QED
    BY <1>1, <1>5, <1>11, <1>16, <1>17 DEF b

(* A whole string is a prefix of itself.                                   *)
LEMMA WholeIsCut ==
    ASSUME NEW d, Bytestring(d)
    PROVE  Cut(d, d)
  BY DEF Cut, Bytestring

(* The builder's output is a ClientHello whose extensions are where Decoy  *)
(* says and whose name is the host.                                        *)
LEMMA DecoyIsClientHello ==
    ASSUME NEW host, Bytestring(host), host # << >>, Len(host) + FRAME < U16,
           NEW p \in BOOLEAN
    PROVE  LET d == build_synthetic_client_hello(host, p)
               i == Decoy(host, p)
           IN  ClientHello(d, i.exts, i.flight) /\ Cut(d, d)
  <1> DEFINE n == Len(host)
             x == Extensions(host, p)
             e == Len(x)
             b == HelloBody(host, p)
             d == build_synthetic_client_hello(host, p)
             exts == {52} \cup (IF p THEN {61 + n} ELSE {})
             f == Decoy(host, p).flight
  <1>1. /\ n \in Nat /\ e = 9 + n + (IF p THEN 14 ELSE 0)
        /\ WordAt(x, 0) = 0 /\ WordAt(x, 2) = 5 + n /\ WordAt(x, 7) = n
        /\ p => WordAt(x, 9 + n) = 21 /\ WordAt(x, 9 + n + 2) = 10
    BY ExtensionBytes
  <1>2. /\ Len(b) = 43 + e /\ ByteAt(b, 34) = 0 /\ WordAt(b, 35) = 2
        /\ ByteAt(b, 39) = 1 /\ WordAt(b, 41) = e
        /\ \A i \in Nat : WordAt(b, 43 + i) = WordAt(x, i)
    BY BodyBytes
  <1>3. /\ Bytestring(d) /\ Len(d) = 9 + Len(b)
        /\ ByteAt(d, 0) = 22 /\ WordAt(d, 3) = 4 + Len(b) /\ ByteAt(d, 5) = 1
        /\ \A i \in Nat : ByteAt(d, 9 + i) = ByteAt(b, i) /\ WordAt(d, 9 + i) = WordAt(b, i)
    BY DecoyBytes
  <1>4. /\ f.hello = TRUE /\ f.sni = TRUE /\ f.payload_len = Len(d) - 5
        /\ f.hostname_offset = 61 /\ f.hostname_length = n
        /\ Decoy(host, p).exts = exts
    BY DEF Decoy, TLS_RECORD_HEADER_SIZE
  <1> HIDE DEF n, x, e, b, d, f
  <1>5. ByteAt(d, 9 + 34) = 0 /\ WordAt(d, 9 + 35) = 2 /\ ByteAt(d, 9 + 39) = 1 /\ WordAt(d, 9 + 41) = e
    BY <1>2, <1>3
  <1>6. \A i \in Nat : WordAt(d, 52 + i) = WordAt(x, i)
    <2> TAKE i \in Nat
    <2>1. 43 + i \in Nat /\ 9 + (43 + i) = 52 + i
      OBVIOUS
    <2>2. WordAt(d, 9 + (43 + i)) = WordAt(b, 43 + i)
      BY <1>3, <2>1
    <2>3. QED
      BY <1>2, <2>1, <2>2
  <1>7. e \in Nat
    BY <1>1
  <1>8. /\ SessionId = 43 /\ CipherSuites(d) = 44 /\ Compression(d) = 48
        /\ ExtensionsLen(d) = 50 /\ FirstExtension(d) = 52 /\ ExtensionsEnd(d) = 52 + e
    <2>1. SessionId = 43
      BY DEF SessionId, TLS_RECORD_HEADER_SIZE
    <2>2. CipherSuites(d) = 44
      BY <1>5, <2>1 DEF CipherSuites
    <2>3. Compression(d) = 48
      BY <1>5, <2>2 DEF Compression
    <2>4. ExtensionsLen(d) = 50
      BY <1>5, <2>3 DEF ExtensionsLen
    <2>5. FirstExtension(d) = 52
      BY <2>4 DEF FirstExtension
    <2>6. ExtensionsEnd(d) = 52 + e
      BY <1>5, <2>4, <2>5 DEF ExtensionsEnd
    <2>7. QED
      BY <2>1, <2>2, <2>3, <2>4, <2>5, <2>6
  <1>9. /\ WordAt(d, 52 + 0) = 0 /\ WordAt(d, 52 + 2) = 5 + n /\ WordAt(d, 52 + 7) = n
        /\ p => WordAt(d, 52 + (9 + n)) = 21 /\ WordAt(d, 52 + (9 + n + 2)) = 10
    BY <1>1, <1>6
  <1>10. /\ WordAt(d, 52) = 0 /\ WordAt(d, 54) = 5 + n /\ WordAt(d, 59) = n
         /\ p => WordAt(d, 61 + n) = 21 /\ WordAt(d, 61 + n + 2) = 10
    <2>1. 52 + (9 + n) = 61 + n /\ 52 + (9 + n + 2) = 61 + n + 2
      BY <1>1
    <2>2. QED
      BY <1>9, <2>1
  <1>11. NextExtension(d, 52) = 61 + n /\ (p => NextExtension(d, 61 + n) = 75 + n)
    BY <1>1, <1>10 DEF NextExtension
  <1>12. 52 + e = IF p THEN 75 + n ELSE 61 + n
    BY <1>1
  <1>13. Tiled(d, exts)
    BY <1>1, <1>8, <1>11, <1>12 DEF Tiled
  <1>14. NamedAt(d, 52, f)
    BY <1>1, <1>4, <1>10, <1>11 DEF NamedAt, SNI_EXTENSION_TYPE
  <1>15. \A k \in exts : WordAt(d, k) = SNI_EXTENSION_TYPE => k = 52
    BY <1>10 DEF SNI_EXTENSION_TYPE
  <1>16. Len(d) = 52 + e /\ WordAt(d, 3) = Len(d) - 5
    BY <1>2, <1>3, <1>7
  <1>17. ExtensionsEnd(d) <= Len(d)
    BY <1>7, <1>8, <1>16
  <1>18. ClientHello(d, exts, f)
    BY <1>3, <1>4, <1>13, <1>14, <1>15, <1>16, <1>17
       DEF ClientHello, TLS_CONTENT_TYPE_HANDSHAKE, HANDSHAKE_TYPE_CLIENT_HELLO
  <1>19. Cut(d, d)
    BY <1>3, WholeIsCut
  <1>20. QED
    BY <1>4, <1>18, <1>19 DEF d, f

(* What is known of a buffer that holds a ClientHello.                     *)
LEMMA Described ==
    ASSUME input \in Inputs, input.origin # "any"
    PROVE  /\ Bytestring(input.whole) /\ Bytestring(input.data) /\ input.exts \subseteq Nat
           /\ input.flight.hostname_offset \in Nat /\ input.flight.hostname_length \in Nat
           /\ ClientHello(input.whole, input.exts, input.flight)
           /\ Cut(input.whole, input.data)
  <1>1. input \in Input
    BY InputsAssumption
  <1>2. /\ Bytestring(input.whole) /\ Bytestring(input.data) /\ input.exts \subseteq Nat
        /\ input.flight \in Flight /\ input.origin \in {"client", "decoy"}
    BY <1>1 DEF Input, Bytestring
  <1>3. input.flight.hostname_offset \in Nat /\ input.flight.hostname_length \in Nat
    BY <1>2 DEF Flight
  <1>4. CASE input.origin = "client"
    BY <1>2, <1>3, <1>4, InputsAssumption
  <1>5. CASE input.origin = "decoy"
    <2>1. PICK host \in Hosts, p \in BOOLEAN : input = Decoy(host, p)
      BY <1>5, InputsAssumption
    <2>2. Bytestring(host) /\ host # << >> /\ Len(host) + FRAME < U16
      BY HostsAssumption DEF Bytestring
    <2>3. /\ input.data = build_synthetic_client_hello(host, p)
          /\ input.whole = build_synthetic_client_hello(host, p)
      BY <2>1 DEF Decoy
    <2>4. /\ ClientHello(input.whole, input.exts, input.flight)
          /\ Cut(input.whole, input.data)
      BY <2>1, <2>2, <2>3, DecoyIsClientHello
    <2>5. QED
      BY <1>2, <1>3, <2>4
  <1>6. QED
    BY <1>2, <1>4, <1>5

(* A cursor that moves on never leaves more room behind it.                *)
LEMMA RoomShrinks ==
    ASSUME NEW n \in Nat, NEW p \in Nat, NEW q \in Nat, p <= q
    PROVE  LET room(x) == IF x < n THEN n - x ELSE 0
           IN  /\ room(p) \in Nat /\ room(q) \in Nat /\ room(q) <= room(p)
               /\ (p < n /\ p < q) => room(q) < room(p)
  OBVIOUS

(* The measure falls when the rank or the room alone does.                 *)
LEMMA MeasureFalls ==
    ASSUME NEW a \in Nat, NEW b \in Nat, NEW c \in Nat, NEW d \in Nat,
           b <= a, d < c \/ (d = c /\ b < a)
    PROVE  b + d < a + c
  OBVIOUS

(* None is encoded as an SniInfo.                                          *)
LEMMA NoneIsSniInfo == None \in SniInfo
  BY DEF None, SniInfo

(* What every step keeps, reads and measures.                              *)
LEMMA StepFacts ==
    ASSUME IInv, Step
    PROVE  /\ input' = input
           /\ pc' \in {"session_id", "cipher_suites", "compression", "extensions",
                       "scan", "done"}
           /\ pos' \in Nat /\ pos <= pos' /\ extensions_end' \in Nat
           /\ touched' \subseteq 0 .. Size - 1
           /\ pc' # "done" => pos' >= 5 /\ result' = None
           /\ \/ result' = None
              \/ /\ result' \in SniInfo /\ result'.hostname_offset > 5
                 /\ result'.hostname_offset + result'.hostname_length <= Size
           /\ Rank' < Rank \/ (Rank' = Rank /\ pos < Size /\ pos < pos')
  <1>1. input \in Input /\ pos \in Nat /\ extensions_end \in Nat
    BY InputsAssumption DEF IInv, TypeOK
  <1>2. Size \in Nat
    BY <1>1, BytesAreBytes
  <1>3. \A i \in Nat : At(i) \in Nat /\ read_u16(i) \in Nat
    BY <1>1, BytesAreBytes, WordsAreNats
  <1>4. input' = input
    BY DEF Step, Start, SkipField, ExtensionsLength, ScanExtension
  <1> DEFINE Goal ==
           /\ pc' \in {"session_id", "cipher_suites", "compression", "extensions",
                       "scan", "done"}
           /\ pos' \in Nat /\ pos <= pos' /\ extensions_end' \in Nat
           /\ touched' \subseteq 0 .. Size - 1
           /\ pc' # "done" => pos' >= 5 /\ result' = None
           /\ \/ result' = None
              \/ /\ result' \in SniInfo /\ result'.hostname_offset > 5
                 /\ result'.hostname_offset + result'.hostname_length <= Size
           /\ Rank' < Rank \/ (Rank' = Rank /\ pos < Size /\ pos < pos')
  <1>5. ASSUME GiveUp, pc # "done", pc \in {"start", "session_id", "cipher_suites",
                "compression", "extensions", "scan"}
        PROVE  Goal
    <2>1. pc' = "done" /\ result' = None /\ touched' = {} /\ pos' = pos
          /\ extensions_end' = extensions_end
      BY <1>5 DEF GiveUp, Return
    <2>2. Rank' < Rank
      BY <1>5, <2>1 DEF Rank
    <2>3. QED
      BY <1>1, <2>1, <2>2
  <1>6. ASSUME Start PROVE Goal
    <2>1. CASE GiveUp
      BY <1>5, <1>6, <2>1 DEF Start
    <2>2. CASE ~GiveUp
      <3>1. pc = "start" /\ pos = 0 /\ result = None
        BY <1>6 DEF Start, IInv
      <3>2. /\ Size >= 6 /\ touched' = {0, 5} /\ extensions_end' = extensions_end
            /\ \/ pos' = 43 /\ pc' = "session_id" /\ result' = result
               \/ pos' = pos /\ pc' = "done" /\ result' = None
        BY <1>6, <2>2 DEF Start, Return, TLS_RECORD_HEADER_SIZE
      <3>3. touched' \subseteq 0 .. Size - 1
        BY <1>2, <3>2
      <3>4. Rank' < Rank
        BY <3>1, <3>2 DEF Rank
      <3>5. QED
        BY <1>1, <3>1, <3>2, <3>3, <3>4
    <2>3. QED
      BY <2>1, <2>2
  <1>7. ASSUME SkipField PROVE Goal
    <2>1. CASE GiveUp
      BY <1>5, <1>7, <2>1 DEF SkipField
    <2>2. CASE ~GiveUp
      <3>1. pc \in {"session_id", "cipher_suites", "compression"} /\ result = None /\ pos >= 5
        BY <1>7 DEF SkipField, IInv, TLS_RECORD_HEADER_SIZE
      <3>2. Prefix \in {1, 2} /\ FieldLen \in Nat
        BY <1>1, <1>3 DEF Prefix, FieldLen
      <3>3. /\ pos + Prefix <= Size /\ touched' = pos .. pos + Prefix - 1
            /\ pos' = pos + Prefix + FieldLen /\ pc' = NextField
            /\ extensions_end' = extensions_end /\ result' = result
        BY <1>7, <2>2 DEF SkipField, PrefixInside
      <3>4. \A k \in pos .. pos + Prefix - 1 : k \in 0 .. Size - 1
        BY <1>1, <1>2, <3>2, <3>3
      <3>5. pc' \in {"cipher_suites", "compression", "extensions"} /\ Rank' < Rank
        BY <3>1, <3>3 DEF NextField, Rank
      <3>6. pos' \in Nat /\ pos <= pos' /\ pos' >= 5
        BY <1>1, <3>1, <3>2, <3>3
      <3>7. QED
        BY <1>1, <3>1, <3>3, <3>4, <3>5, <3>6
    <2>3. QED
      BY <2>1, <2>2
  <1>8. ASSUME ExtensionsLength PROVE Goal
    <2>1. CASE GiveUp
      BY <1>5, <1>8, <2>1 DEF ExtensionsLength
    <2>2. CASE ~GiveUp
      <3>1. pc = "extensions" /\ result = None /\ pos >= 5
        BY <1>8 DEF ExtensionsLength, IInv, TLS_RECORD_HEADER_SIZE
      <3>2. /\ pos + 2 <= Size /\ touched' = {pos, pos + 1} /\ pos' = pos + 2
            /\ extensions_end' = pos + 2 + read_u16(pos)
            /\ pc' = "scan" /\ result' = result
        BY <1>8, <2>2, <3>1 DEF ExtensionsLength, PrefixInside, Prefix
      <3>3. touched' \subseteq 0 .. Size - 1
        BY <1>1, <1>2, <3>2
      <3>4. extensions_end' \in Nat
        BY <1>1, <1>3, <3>2
      <3>5. Rank' < Rank
        BY <3>1, <3>2 DEF Rank
      <3>6. QED
        BY <1>1, <3>1, <3>2, <3>3, <3>4, <3>5
    <2>3. QED
      BY <2>1, <2>2
  <1>9. ASSUME ScanExtension PROVE Goal
    <2>0. pc = "scan" /\ result = None /\ pos >= 5 /\ Rank = 1
      BY <1>9 DEF ScanExtension, IInv, TLS_RECORD_HEADER_SIZE, Rank
    <2> DEFINE head == pos .. pos + 3
    <2>1. CASE ~MoreExtensions
      <3>1. GiveUp
        BY <1>9, <2>1 DEF ScanExtension
      <3>2. QED
        BY <1>5, <2>0, <3>1
    <2>2. ASSUME MoreExtensions PROVE head \subseteq 0 .. Size - 1 /\ pos + 4 <= Size
      BY <1>1, <1>2, <2>2 DEF MoreExtensions
    <2>3. CASE MoreExtensions /\ read_u16(pos) # SNI_EXTENSION_TYPE
      <3>1. /\ touched' = head /\ pos' = pos + 4 + read_u16(pos + 2)
            /\ pc' = "scan" /\ extensions_end' = extensions_end /\ result' = result
        BY <1>9, <2>0, <2>3 DEF ScanExtension, ExtensionEnd
      <3>2. pos' \in Nat /\ pos < pos' /\ pos < Size
        <4>1. read_u16(pos + 2) \in Nat
          BY <1>1, <1>3
        <4>2. pos + 4 <= Size
          BY <2>2, <2>3
        <4>3. QED
          BY <1>1, <1>2, <3>1, <4>1, <4>2
      <3>3. Rank' = 1
        BY <3>1 DEF Rank
      <3>4. pos' >= 5 /\ pos <= pos'
        BY <1>1, <2>0, <3>2
      <3>5. QED
        BY <1>1, <2>0, <2>2, <2>3, <3>1, <3>2, <3>3, <3>4
    <2>4. CASE MoreExtensions /\ read_u16(pos) = SNI_EXTENSION_TYPE
      <3>1. pc' = "done" /\ pos' = pos /\ extensions_end' = extensions_end
        BY <1>9, <2>4 DEF ScanExtension, Return
      <3>2. Rank' = 0
        BY <3>1 DEF Rank
      <3>3. CASE pos + 9 > Size
        <4>1. result' = None /\ touched' = head
          BY <1>1, <1>2, <1>9, <2>4, <3>3 DEF ScanExtension, Return
        <4>2. QED
          BY <1>1, <2>0, <2>2, <2>4, <3>1, <3>2, <4>1
      <3>4. CASE pos + 9 <= Size
        <4>1. touched' = head \cup {pos + 7, pos + 8}
          BY <1>1, <1>2, <1>9, <2>4, <3>4 DEF ScanExtension
        <4>2. pos + 7 \in 0 .. Size - 1 /\ pos + 8 \in 0 .. Size - 1
          BY <1>1, <1>2, <3>4
        <4>3. touched' \subseteq 0 .. Size - 1
          BY <2>2, <2>4, <4>1, <4>2
        <4>4. \/ result' = None
              \/ NameFits /\ result' = [hostname_offset |-> pos + 9,
                                        hostname_length |-> HostnameLen]
          BY <1>1, <1>2, <1>9, <2>4, <3>4 DEF ScanExtension, Return
        <4>5. HostnameLen \in Nat
          BY <1>1, <1>3 DEF HostnameLen
        <4>6. \/ result' = None
              \/ /\ result' \in SniInfo /\ result'.hostname_offset > 5
                 /\ result'.hostname_offset + result'.hostname_length <= Size
          <5>1. CASE result' = None
            BY <5>1
          <5>2. CASE NameFits /\ result' = [hostname_offset |-> pos + 9,
                                            hostname_length |-> HostnameLen]
            <6>1. result'.hostname_offset = pos + 9 /\ result'.hostname_length = HostnameLen
              BY <5>2
            <6>2. result' \in SniInfo
              BY <1>1, <4>5, <5>2 DEF SniInfo
            <6>3. pos + 9 + HostnameLen <= Size
              BY <5>2 DEF NameFits
            <6>4. QED
              BY <1>1, <6>1, <6>2, <6>3
          <5>3. QED
            BY <4>4, <5>1, <5>2
        <4>7. QED
          BY <1>1, <2>0, <3>1, <3>2, <4>3, <4>6
      <3>5. QED
        BY <1>1, <1>2, <3>3, <3>4
    <2>5. QED
      BY <2>1, <2>3, <2>4
  <1>10. Goal
    BY <1>6, <1>7, <1>8, <1>9 DEF Step
  <1>11. QED
    BY <1>4, <1>10

(* Where the name of a ClientHello lies, and when the specification of     *)
(* find_sni_info says it is found.                                         *)
LEMMA NamePlace ==
    ASSUME input \in Inputs, input.origin # "any"
    PROVE  LET h == input.whole
               f == input.flight
           IN  /\ f.sni => \E e \in input.exts : NamedAt(h, e, f)
               /\ f.sni => /\ FirstExtension(h) + 9 <= f.hostname_offset
                          /\ f.hostname_offset + f.hostname_length <= ExtensionsEnd(h)
               /\ find_sni_info(f, Size) <=>
                     f.sni /\ f.hostname_offset + f.hostname_length <= Size
  <1> DEFINE h == input.whole
             f == input.flight
  <1>1. /\ Bytestring(h) /\ Bytestring(input.data) /\ input.exts \subseteq Nat
        /\ f.hostname_offset \in Nat /\ f.hostname_length \in Nat
        /\ ClientHello(h, input.exts, f)
    BY Described
  <1>2. Size \in Nat
    BY <1>1 DEF Size, Bytestring
  <1> HIDE DEF h, f
  <1>3. FirstExtension(h) \in Nat /\ ExtensionsEnd(h) \in Nat
    BY <1>1, FieldsInOrder
  <1>4. f.hello /\ (f.sni => \E e \in input.exts : NamedAt(h, e, f)) /\ Tiled(h, input.exts)
    BY <1>1 DEF ClientHello
  <1>5. ASSUME f.sni
        PROVE  /\ FirstExtension(h) + 9 <= f.hostname_offset
               /\ f.hostname_offset + f.hostname_length <= ExtensionsEnd(h)
    <2>1. PICK e \in input.exts : NamedAt(h, e, f)
      BY <1>4, <1>5
    <2>2. e \in Nat /\ e + 2 \in Nat
      BY <1>1
    <2>3. e >= FirstExtension(h) /\ NextExtension(h, e) <= ExtensionsEnd(h)
      BY <1>4 DEF Tiled
    <2>4. NextExtension(h, e) \in Nat
      <3>1. WordAt(h, e + 2) \in Nat
        BY <1>1, <2>2, BytesAndWords
      <3>2. QED
        BY <2>2, <3>1 DEF NextExtension
    <2>5. f.hostname_offset = e + 9 /\ f.hostname_offset + f.hostname_length <= NextExtension(h, e)
      BY <2>1 DEF NamedAt
    <2>6. QED
      BY <1>1, <1>3, <2>2, <2>3, <2>4, <2>5
  <1>6. find_sni_info(f, Size) <=> f.sni /\ f.hostname_offset + f.hostname_length <= Size
    <2>1. f.sni /\ f.hostname_offset + f.hostname_length <= Size => Size >= 6
      BY <1>1, <1>2, <1>3, <1>5
    <2>2. QED
      BY <1>4, <2>1 DEF find_sni_info, is_client_hello
  <1>7. QED
    BY <1>4, <1>5, <1>6 DEF h, f

(* The walk may give up on a ClientHello that is cut before its name ends. *)
LEMMA GivingUpIsRight ==
    ASSUME input \in Inputs, input.origin # "any", input' = input,
           pc' = "done", result' = None,
           input.flight.sni =>
               Size < input.flight.hostname_offset + input.flight.hostname_length
    PROVE  OnTrack' /\ FindsTheName'
  <1>1. /\ input.flight.hostname_offset \in Nat /\ input.flight.hostname_length \in Nat
        /\ Bytestring(input.data)
    BY Described
  <1>2. Size \in Nat /\ Size' = Size
    BY <1>1 DEF Size, Bytestring
  <1>3. ~find_sni_info(input.flight, Size)
    BY <1>1, <1>2, NamePlace
  <1>4. FindsTheName'
    BY <1>2, <1>3 DEF FindsTheName, None
  <1>5. QED
    BY <1>4 DEF OnTrack

(* Every step on a ClientHello moves the cursor from field to field and    *)
(* ends with the right name.                                               *)
LEMMA StepOnTrack ==
    ASSUME IInv, Step
    PROVE  OnTrack' /\ FindsTheName'
  <1> DEFINE h == input.whole
             f == input.flight
             end == ExtensionsEnd(h)
             name_end == f.hostname_offset + f.hostname_length
  <1>1. /\ input' = input /\ input \in Inputs /\ pos \in Nat /\ pc # "done" /\ result = None
        /\ pc \in {"start", "session_id", "cipher_suites", "compression", "extensions", "scan"}
    BY StepFacts DEF IInv, TypeOK, Step, Start, SkipField, ExtensionsLength, ScanExtension
  <1>2. CASE input.origin = "any"
    BY <1>1, <1>2 DEF OnTrack, FindsTheName
  <1> SUFFICES ASSUME input.origin # "any" PROVE OnTrack' /\ FindsTheName'
    BY <1>2
  <1>3. /\ Bytestring(h) /\ Bytestring(input.data) /\ input.exts \subseteq Nat
        /\ f.hostname_offset \in Nat /\ f.hostname_length \in Nat
        /\ ClientHello(h, input.exts, f) /\ Cut(h, input.data)
    BY <1>1, Described
  <1>4. Size \in Nat /\ Size' = Size
    BY <1>1, <1>3 DEF Size, Bytestring
  <1>5. \A i \in Nat : /\ i < Size => At(i) = ByteAt(h, i)
                       /\ i + 1 < Size => read_u16(i) = WordAt(h, i)
    BY <1>3, CutAgrees DEF At, read_u16, Size
  <1>6. /\ f.sni => FirstExtension(h) + 9 <= f.hostname_offset /\ name_end <= end
        /\ find_sni_info(f, Size) <=> f.sni /\ name_end <= Size
    BY <1>1, NamePlace
  <1>7. /\ SessionId = 43 /\ CipherSuites(h) \in Nat /\ Compression(h) \in Nat
        /\ ExtensionsLen(h) \in Nat /\ FirstExtension(h) \in Nat /\ end \in Nat
        /\ SessionId + 1 <= CipherSuites(h) /\ CipherSuites(h) + 2 <= Compression(h)
        /\ Compression(h) + 1 <= ExtensionsLen(h)
        /\ ExtensionsLen(h) + 2 = FirstExtension(h)
    BY <1>3, FieldsInOrder
  <1>8. /\ pc = "session_id"    => pos = SessionId
        /\ pc = "cipher_suites" => pos = CipherSuites(h)
        /\ pc = "compression"   => pos = Compression(h)
        /\ pc = "extensions"    => pos = ExtensionsLen(h)
        /\ pc = "scan" =>
              /\ extensions_end = end /\ pos \in input.exts \cup {end}
              /\ f.sni => pos + 9 <= f.hostname_offset
    BY DEF IInv, OnTrack
  <1>9. name_end \in Nat /\ f.hostname_offset <= name_end
    BY <1>3
  <1> HIDE DEF h, f, end, name_end
  <1>10. ASSUME pc' = "done", result' = None, f.sni => Size < name_end
         PROVE  OnTrack' /\ FindsTheName'
    BY <1>1, <1>10, GivingUpIsRight DEF f, name_end
  <1>11. CASE Start
    <2>1. CASE Size < 6
      <3>1. pc' = "done" /\ result' = None
        BY <1>4, <1>11, <2>1 DEF Start, GiveUp, Return
      <3>2. f.sni => Size < name_end
        BY <1>3, <1>4, <1>6, <1>7, <1>9, <2>1
      <3>3. QED
        BY <1>10, <3>1, <3>2
    <2>2. CASE Size >= 6
      <3>1. At(0) = TLS_CONTENT_TYPE_HANDSHAKE /\ At(5) = HANDSHAKE_TYPE_CLIENT_HELLO
        BY <1>3, <1>4, <1>5, <2>2 DEF ClientHello
      <3>2. pc' = "session_id" /\ pos' = SessionId
        BY <1>4, <1>11, <2>2, <3>1 DEF Start, SessionId
      <3>3. QED
        BY <1>1, <3>2 DEF OnTrack, FindsTheName, h
    <2>3. QED
      BY <1>4, <2>1, <2>2
  <1>12. CASE SkipField
    <2>1. pc \in {"session_id", "cipher_suites", "compression"}
      BY <1>12 DEF SkipField
    <2>2. pos + Prefix <= FirstExtension(h)
      BY <1>7, <1>8, <2>1 DEF Prefix
    <2>3. Prefix \in {1, 2}
      BY DEF Prefix
    <2>4. CASE ~PrefixInside
      <3>1. pc' = "done" /\ result' = None
        BY <1>12, <2>4 DEF SkipField, GiveUp, Return
      <3>2. f.sni => Size < name_end
        BY <1>1, <1>3, <1>4, <1>6, <1>7, <1>9, <2>2, <2>3, <2>4 DEF PrefixInside
      <3>3. QED
        BY <1>10, <3>1, <3>2
    <2>5. CASE PrefixInside
      <3>1. pos' = pos + Prefix + FieldLen /\ pc' = NextField
        BY <1>12, <2>5 DEF SkipField
      <3>2. pos + Prefix <= Size
        BY <2>5 DEF PrefixInside
      <3>3. CASE pc = "session_id"
        <4>1. Prefix = 1 /\ FieldLen = ByteAt(h, pos)
          BY <1>1, <1>4, <1>5, <3>2, <3>3 DEF Prefix, FieldLen
        <4>2. pc' = "cipher_suites" /\ pos' = CipherSuites(h)
          BY <1>8, <3>1, <3>3, <4>1 DEF NextField, CipherSuites
        <4>3. QED
          BY <1>1, <4>2 DEF OnTrack, FindsTheName, h
      <3>4. CASE pc = "cipher_suites"
        <4>1. Prefix = 2
          BY <3>4 DEF Prefix
        <4>2. FieldLen = WordAt(h, pos)
          BY <1>1, <1>4, <1>5, <3>2, <4>1 DEF FieldLen
        <4>3. pc' = "compression" /\ pos' = Compression(h)
          BY <1>8, <3>1, <3>4, <4>1, <4>2 DEF NextField, Compression
        <4>4. QED
          BY <1>1, <4>3 DEF OnTrack, FindsTheName, h
      <3>5. CASE pc = "compression"
        <4>1. Prefix = 1 /\ FieldLen = ByteAt(h, pos)
          BY <1>1, <1>4, <1>5, <3>2, <3>5 DEF Prefix, FieldLen
        <4>2. pc' = "extensions" /\ pos' = ExtensionsLen(h)
          BY <1>8, <3>1, <3>5, <4>1 DEF NextField, ExtensionsLen
        <4>3. QED
          BY <1>1, <4>2 DEF OnTrack, FindsTheName, h
      <3>6. QED
        BY <2>1, <3>3, <3>4, <3>5
    <2>6. QED
      BY <2>4, <2>5
  <1>13. CASE ExtensionsLength
    <2>1. pc = "extensions" /\ Prefix = 2
      BY <1>13 DEF ExtensionsLength, Prefix
    <2>2. CASE ~PrefixInside
      <3>1. pc' = "done" /\ result' = None
        BY <1>13, <2>2 DEF ExtensionsLength, GiveUp, Return
      <3>2. f.sni => Size < name_end
        BY <1>1, <1>3, <1>4, <1>6, <1>7, <1>8, <1>9, <2>1, <2>2 DEF PrefixInside
      <3>3. QED
        BY <1>10, <3>1, <3>2
    <2>3. CASE PrefixInside
      <3>1. pos + 1 < Size /\ pos = ExtensionsLen(h)
        BY <1>1, <1>4, <1>8, <2>1, <2>3 DEF PrefixInside
      <3>2. read_u16(pos) = WordAt(h, ExtensionsLen(h))
        BY <1>1, <1>5, <3>1
      <3>3. pc' = "scan" /\ pos' = pos + 2 /\ extensions_end' = pos + 2 + read_u16(pos)
        BY <1>13, <2>3 DEF ExtensionsLength
      <3>4. pos' = FirstExtension(h) /\ extensions_end' = end
        BY <3>1, <3>2, <3>3 DEF FirstExtension, ExtensionsEnd, end
      <3>5. pos' \in input.exts \cup {end}
        BY <1>3, <3>4 DEF ClientHello, Tiled, end
      <3>6. f.sni => pos' + 9 <= f.hostname_offset
        BY <1>6, <3>4
      <3>7. QED
        BY <1>1, <3>3, <3>4, <3>5, <3>6 DEF OnTrack, FindsTheName, h, f, end
    <2>4. QED
      BY <2>2, <2>3
  <1>14. CASE ScanExtension
    <2>1. /\ pc = "scan" /\ extensions_end = end /\ pos \in input.exts \cup {end}
          /\ f.sni => pos + 9 <= f.hostname_offset
      BY <1>8, <1>14 DEF ScanExtension
    <2>2. CASE ~MoreExtensions
      <3>1. pc' = "done" /\ result' = None
        BY <1>14, <2>2 DEF ScanExtension, GiveUp, Return
      <3>2. f.sni => Size < name_end
        BY <1>1, <1>3, <1>4, <1>6, <1>7, <1>9, <2>1, <2>2 DEF MoreExtensions
      <3>3. QED
        BY <1>10, <3>1, <3>2
    <2>3. CASE MoreExtensions
      <3>1. pos + 4 <= end /\ pos + 4 <= Size
        BY <2>1, <2>3 DEF MoreExtensions
      <3>2. pos \in input.exts
        BY <1>1, <1>7, <2>1, <3>1
      <3>3. read_u16(pos) = WordAt(h, pos) /\ read_u16(pos + 2) = WordAt(h, pos + 2)
        <4>1. pos + 2 \in Nat /\ pos + 1 < Size /\ pos + 2 + 1 < Size
          BY <1>1, <1>4, <3>1
        <4>2. QED
          BY <1>1, <1>5, <4>1
      <3>4. CASE read_u16(pos) # SNI_EXTENSION_TYPE
        <4>1. pc' = "scan" /\ extensions_end' = end /\ pos' = NextExtension(h, pos)
          BY <1>14, <2>1, <2>3, <3>3, <3>4 DEF ScanExtension, ExtensionEnd, NextExtension
        <4>2. pos' \in input.exts \cup {end}
          BY <1>3, <3>2, <4>1 DEF ClientHello, Tiled, end
        <4>3. ASSUME f.sni PROVE pos' + 9 <= f.hostname_offset
          <5>1. PICK e \in input.exts : NamedAt(h, e, f)
            BY <1>1, <4>3, NamePlace DEF h, f
          <5>2. e \in Nat /\ f.hostname_offset = e + 9 /\ WordAt(h, e) = SNI_EXTENSION_TYPE
            BY <1>3, <5>1 DEF NamedAt
          <5>3. pos < e
            BY <1>1, <2>1, <3>3, <3>4, <4>3, <5>2
          <5>4. NextExtension(h, pos) <= e
            BY <1>3, <3>2, <5>3 DEF ClientHello, Tiled
          <5>5. NextExtension(h, pos) \in Nat
            BY <1>3, <1>7, <4>1, <4>2
          <5>6. QED
            BY <4>1, <5>2, <5>4, <5>5
        <4>4. QED
          BY <1>1, <4>1, <4>2, <4>3 DEF OnTrack, FindsTheName, h, f, end
      <3>5. CASE read_u16(pos) = SNI_EXTENSION_TYPE
        <4>1. f.sni /\ NamedAt(h, pos, f)
          BY <1>3, <3>2, <3>3, <3>5 DEF ClientHello
        <4>2. f.hostname_offset = pos + 9 /\ f.hostname_length = WordAt(h, pos + 7)
          BY <4>1 DEF NamedAt
        <4>3. pc' = "done"
          BY <1>14, <2>3, <3>5 DEF ScanExtension, Return
        <4>4. CASE pos + 9 > Size
          <5>1. result' = None
            BY <1>1, <1>4, <1>14, <2>3, <3>5, <4>4 DEF ScanExtension, Return
          <5>2. Size < name_end
            BY <1>1, <1>3, <1>4, <1>9, <4>2, <4>4
          <5>3. QED
            BY <1>10, <4>3, <5>1, <5>2
        <4>5. CASE pos + 9 <= Size
          <5>1. HostnameLen = f.hostname_length
            <6>1. pos + 7 \in Nat /\ pos + 7 + 1 < Size
              BY <1>1, <1>4, <4>5
            <6>2. QED
              BY <1>5, <4>2, <6>1 DEF HostnameLen
          <5>2. name_end = pos + 9 + HostnameLen
            BY <4>2, <5>1 DEF name_end
          <5>3. CASE NameFits
            <6>1. result' = [hostname_offset |-> f.hostname_offset,
                             hostname_length |-> f.hostname_length]
              BY <1>1, <1>4, <1>14, <2>3, <3>5, <4>2, <4>5, <5>1, <5>3
                 DEF ScanExtension, Return
            <6>2. find_sni_info(f, Size)
              BY <1>6, <4>1, <5>2, <5>3 DEF NameFits
            <6>3. QED
              BY <1>1, <1>4, <4>3, <6>1, <6>2 DEF OnTrack, FindsTheName, f
          <5>4. CASE ~NameFits
            <6>1. result' = None
              BY <1>1, <1>4, <1>14, <2>3, <3>5, <4>5, <5>4 DEF ScanExtension, Return
            <6>2. Size < name_end
              BY <1>4, <1>9, <5>2, <5>4 DEF NameFits
            <6>3. QED
              BY <1>10, <4>3, <6>1, <6>2
          <5>5. QED
            BY <5>3, <5>4
        <4>6. QED
          BY <1>1, <1>4, <4>4, <4>5
      <3>6. QED
        BY <3>4, <3>5
    <2>4. QED
      BY <2>2, <2>3
  <1>15. QED
    BY <1>11, <1>12, <1>13, <1>14 DEF Step

(* The walk starts inside the invariant.                                   *)
LEMMA InitInv == Init => IInv
  BY NoneIsSniInfo DEF Init, IInv, TypeOK, InBounds, NameInside, OnTrack, FindsTheName

(* Every step of the walk keeps the invariant.                             *)
LEMMA StepInv ==
    ASSUME IInv, Step
    PROVE  IInv'
  <1>1. /\ input' = input
        /\ pc' \in {"session_id", "cipher_suites", "compression", "extensions",
                    "scan", "done"}
        /\ pos' \in Nat /\ extensions_end' \in Nat
        /\ touched' \subseteq 0 .. Size - 1
        /\ pc' # "done" => pos' >= 5 /\ result' = None
        /\ \/ result' = None
           \/ /\ result' \in SniInfo /\ result'.hostname_offset > 5
              /\ result'.hostname_offset + result'.hostname_length <= Size
    BY StepFacts
  <1>2. input \in Inputs
    BY DEF IInv, TypeOK
  <1>3. Size' = Size /\ Size \in Nat
    BY <1>1, <1>2, InputsAssumption, BytesAreBytes DEF Size
  <1>4. touched' \subseteq Nat
    <2>1. \A k \in 0 .. Size - 1 : k \in Nat
      BY <1>3
    <2>2. QED
      BY <1>1, <2>1
  <1>5. result' \in SniInfo
    BY <1>1, NoneIsSniInfo
  <1>6. TypeOK'
    BY <1>1, <1>2, <1>4, <1>5 DEF TypeOK
  <1>7. InBounds'
    BY <1>1, <1>3 DEF InBounds
  <1>8. NameInside'
    BY <1>1, <1>3 DEF NameInside, TLS_RECORD_HEADER_SIZE, None
  <1>9. OnTrack' /\ FindsTheName'
    BY StepOnTrack
  <1>10. QED
    BY <1>1, <1>6, <1>7, <1>8, <1>9 DEF IInv, TLS_RECORD_HEADER_SIZE, None

(* The invariant speaks of the variables only.                             *)
LEMMA StutterInv ==
    ASSUME IInv, UNCHANGED vars
    PROVE  IInv'
  BY DEF IInv, TypeOK, InBounds, NameInside, OnTrack, FindsTheName, vars, Size

(* The invariant of the walk is preserved by every step.                   *)
THEOREM Inductive == Spec => []IInv
  <1>1. Init => IInv
    BY InitInv
  <1>2. IInv /\ [Next]_vars => IInv'
    BY StepInv, StutterInv DEF Next, Returned
  <1>3. QED
    BY <1>1, <1>2, PTL DEF Spec

(* find_sni_info never reads past its buffer: no ClientHello can abort the *)
(* process.                                                                *)
THEOREM NeverOutOfBounds == Spec => []InBounds
  <1>1. IInv => InBounds
    BY DEF IInv
  <1>2. QED
    BY <1>1, Inductive, PTL

(* A reported name lies inside the buffer and behind the record header,    *)
(* for every buffer: what Connection assumes of flights.                   *)
THEOREM NameAlwaysInside == Spec => []NameInside
  <1>1. IInv => NameInside
    BY DEF IInv
  <1>2. QED
    BY <1>1, Inductive, PTL

(* Of a ClientHello cut after any byte, or of a decoy, find_sni_info finds *)
(* the client's name, and finds it exactly when its last byte is there:    *)
(* what TlsSplit and Connection take it for.                               *)
THEOREM NameIsFound == Spec => []FindsTheName
  <1>1. IInv => FindsTheName
    BY DEF IInv
  <1>2. QED
    BY <1>1, Inductive, PTL

(* build_synthetic_client_hello returns one whole record holding one whole *)
(* handshake message, for every name that fits.                            *)
THEOREM DecoysAreWhole == Spec => []DecoyIsWhole
  <1>1. IInv => DecoyIsWhole
    <2> SUFFICES ASSUME IInv, input.origin = "decoy"
                 PROVE  /\ read_u16(3) = Size - TLS_RECORD_HEADER_SIZE
                        /\ At(6) = 0
                        /\ read_u16(7) = Size - TLS_RECORD_HEADER_SIZE - 4
      BY DEF DecoyIsWhole
    <2>1. PICK host \in Hosts, p \in BOOLEAN : input = Decoy(host, p)
      BY InputsAssumption DEF IInv, TypeOK
    <2>2. Bytestring(host) /\ host # << >> /\ Len(host) + FRAME < U16
      BY HostsAssumption DEF Bytestring
    <2> DEFINE d == build_synthetic_client_hello(host, p)
               b == HelloBody(host, p)
    <2>3. input.data = d
      BY <2>1 DEF Decoy
    <2>4. /\ Len(d) = 9 + Len(b) /\ WordAt(d, 3) = 4 + Len(b)
          /\ ByteAt(d, 6) = 0 /\ WordAt(d, 7) = Len(b)
      BY <2>2, DecoyBytes
    <2>5. Len(b) \in Nat
      BY <2>2, BodyBytes DEF Bytestring
    <2> HIDE DEF d, b
    <2>6. QED
      BY <2>3, <2>4, <2>5 DEF read_u16, At, Size, TLS_RECORD_HEADER_SIZE
  <1>2. QED
    BY <1>1, Inductive, PTL

(* The walk always ends, in steps bounded by the size of the buffer.       *)
THEOREM ScanEnds == Spec => ScanIsBounded
  <1>1. IInv /\ [Next]_vars => [Room' <= Room /\ Room' + Rank' < Room + Rank]_vars
    <2> SUFFICES ASSUME IInv, Step
                 PROVE  Room' <= Room /\ Room' + Rank' < Room + Rank
      BY DEF Next, Returned
    <2>1. /\ input' = input /\ pos' \in Nat /\ pos <= pos'
          /\ Rank' < Rank \/ (Rank' = Rank /\ pos < Size /\ pos < pos')
      BY StepFacts
    <2>2. input \in Inputs /\ pos \in Nat
      BY DEF IInv, TypeOK
    <2>3. Size \in Nat /\ Size' = Size
      BY <2>1, <2>2, InputsAssumption, BytesAreBytes DEF Size
    <2>4. /\ Room = IF pos < Size THEN Size - pos ELSE 0
          /\ Room' = IF pos' < Size THEN Size - pos' ELSE 0
      BY <2>3 DEF Room
    <2>5. /\ Room \in Nat /\ Room' \in Nat /\ Room' <= Room
          /\ pos < Size /\ pos < pos' => Room' < Room
      BY <2>1, <2>2, <2>3, <2>4, RoomShrinks
    <2>6. Rank \in Nat /\ Rank' \in Nat
      BY DEF Rank
    <2>7. Rank' < Rank \/ (Rank' = Rank /\ Room' < Room)
      BY <2>1, <2>5
    <2>8. QED
      BY <2>5, <2>6, <2>7, MeasureFalls
  <1>2. QED
    BY <1>1, Inductive, PTL DEF Spec, ScanIsBounded
=============================================================================
