------------------------------- MODULE H3Varint -------------------------------
(***************************************************************************)
(* The variable-length integers of HTTP/3 and the frames they delimit      *)
(* (internal/ws_h3.go: appendVarint, readVarint, h3wsStream.Write).  An    *)
(* integer has up to 62 bits, so that the prefix takes bits that are free. *)
(***************************************************************************)
EXTENDS Integers, Sequences

Octet == 0 .. 255

\* byte(v >> 8k), and v >> 32.
Byte(v, k) == (v \div <<1, 256, 65536, 16777216>>[k + 1]) % 256
High(v)    == (v \div 65536) \div 65536

\* The last four bytes of v, of which the first takes the two bits of the prefix.
Word(prefix, v) == <<prefix + Byte(v, 3), Byte(v, 2), Byte(v, 1), Byte(v, 0)>>

Max4 == 1073741823

appendVarint(v) ==
  IF v <= 63 THEN <<v>>
  ELSE IF v <= 16383 THEN <<64 + Byte(v, 1), Byte(v, 0)>>
  ELSE IF v <= Max4 THEN Word(128, v)
  ELSE Word(192, High(v)) \o Word(0, v)

\* The number of bytes that the prefix of the first one announces.
VarintSize(first) == <<1, 2, 4, 8>>[first \div 64 + 1]

\* (v << 8) | x
Shifted(v, x) == v * 256 + x

\* The number in the first n bytes of b, without the prefix.
Value(b, n) ==
  LET acc[i \in 1 .. n] == IF i = 1 THEN b[1] % 64 ELSE Shifted(acc[i - 1], b[i])
  IN  acc[n]

\* The integer at the front of b and the bytes it takes; n = 0 if b is too short.
readVarint(b) ==
  LET n == IF b = <<>> THEN 1 ELSE VarintSize(b[1])
  IN  IF Len(b) < n THEN [v |-> 0, n |-> 0] ELSE [v |-> Value(b, n), n |-> n]

Frame(type, payload) == appendVarint(type) \o appendVarint(Len(payload)) \o payload

DataFrame    == 0
HeadersFrame == 1
MaxDataFrame == 67108864

\* The frame at the front of b, and what follows it.
FrameAt(b) ==
  LET ft   == readVarint(b)
      tail == SubSeq(b, ft.n + 1, Len(b))
      len  == readVarint(tail)
      body == SubSeq(tail, len.n + 1, Len(tail))
  IN  IF ft.n = 0 \/ len.n = 0 \/ Len(body) < len.v THEN [ok |-> FALSE]
      ELSE [ok |-> TRUE, type |-> ft.v, payload |-> SubSeq(body, 1, len.v),
            rest |-> SubSeq(body, len.v + 1, Len(body))]
=============================================================================
