--------------------------------- MODULE QPACK ---------------------------------
(***************************************************************************)
(* The header blocks of an HTTP/3 request and response                     *)
(* (internal/ws_h3_qpack_min.go).  A string is a sequence of bytes, a block *)
(* too; the static table is a parameter, a function from 0 .. n - 1 to     *)
(* pairs of a name and a value.                                            *)
(***************************************************************************)
EXTENDS Loops, H3Varint

Failed == [ok |-> FALSE]   \* errH3QPACK

-----------------------------------------------------------------------------
(* Integers and strings.  A reader returns what it has read and the rest.  *)

Power(prefix) == <<2, 4, 8, 16, 32, 64, 128, 256>>[prefix]   \* 1 << prefix
Mask(prefix)  == Power(prefix) - 1

WriteGroup ==
  [s \in [v : Nat, out : Seq(Octet)] |->
     IF s.v < 128 THEN s ELSE [v |-> s.v \div 128, out |-> Append(s.out, 128 + (s.v % 128))]]

\* Seven bits at a time, the lowest first; the last group is not marked.
Groups(v) ==
  LET s == Loop(WriteGroup, [v |-> v, out |-> <<>>], v) IN Append(s.out, s.v)

\* Mutant of appendPrefixedInt: the largest prefix is taken for a short integer.
appendPrefixedInt_OffByOne(first, prefix, v) ==
  IF v <= Mask(prefix) THEN <<first + v>>
  ELSE <<first + Mask(prefix)>> \o Groups(v - Mask(prefix))

appendPrefixedInt(first, prefix, v) ==
  IF v < Mask(prefix) THEN <<first + v>>
  ELSE <<first + Mask(prefix)>> \o Groups(v - Mask(prefix))

ReadGroup ==
  [s \in [more : BOOLEAN, v : Nat, unit : Nat, rest : Seq(Octet)] |->
     IF ~s.more \/ s.rest = <<>> THEN s
     ELSE [more |-> Head(s.rest) >= 128, v |-> s.v + (Head(s.rest) % 128) * s.unit,
           unit |-> 128 * s.unit, rest |-> Tail(s.rest)]]

readPrefixedInt(b, prefix) ==
  LET short == Head(b) % Power(prefix)
      s     == Loop(ReadGroup, [more |-> TRUE, v |-> short, unit |-> 1, rest |-> Tail(b)], Len(b))
  IN  IF b = <<>> THEN Failed
      ELSE IF short # Mask(prefix) THEN [ok |-> TRUE, v |-> short, rest |-> Tail(b)]
      ELSE IF s.more THEN Failed ELSE [ok |-> TRUE, v |-> s.v, rest |-> s.rest]

appendPrefixedString(first, prefix, s) == appendPrefixedInt(first, prefix, Len(s)) \o s

\* The library's decoder is not expanded: different inputs have different results,
\* and none of them is a sequence of bytes of the block.
HuffmanDecodeToString(s) == <<256>> \o s

\* The n.v bytes at the front of n.rest.  The Read of a bytes.Reader may return less
\* than is asked for, which leaves zeros behind, and fails at the end of the block
\* even if nothing is asked for.
TakeString(n, huffman) ==
  LET s == [k \in 1 .. n.v |-> IF k <= Len(n.rest) THEN n.rest[k] ELSE 0]
  IN  IF ~n.ok THEN Failed
      ELSE IF n.rest = <<>> THEN Failed
      ELSE [ok |-> TRUE, rest |-> SubSeq(n.rest, n.v + 1, Len(n.rest)),
            v |-> IF huffman THEN HuffmanDecodeToString(s) ELSE s]

readPrefixedString(b, prefix) ==
  TakeString(readPrefixedInt(b, prefix), (Head(b) \div Power(prefix)) % 2 = 1)

-----------------------------------------------------------------------------
(* Header blocks.                                                          *)

\* The loop over the static table keeps the first index that matches.
First(S) == CHOOSE i \in S : \A j \in S : i <= j

\* A field of the table, a value with a name of the table, or both in full.
EncodeField(table, kv) ==
  LET named == {i \in DOMAIN table : table[i][1] = kv[1]}
      whole == {i \in named : table[i][2] = kv[2]}
  IN  IF whole # {} THEN appendPrefixedInt(192, 6, First(whole))
      ELSE (IF named # {} THEN appendPrefixedInt(80, 4, First(named)) ELSE appendPrefixedString(32, 3, kv[1]))
             \o appendPrefixedString(0, 7, kv[2])

h3EncodeHeaders(table, headers) ==
  <<0, 0>> \o Joined([k \in DOMAIN headers |-> EncodeField(table, headers[k])])

\* The name of the field line at the front of b: from the table, which is the only
\* one known (of an indexed line the bit that says so is not looked at) and has the
\* value too, or in full.
LineName(table, b) ==
  LET at(n)   == IF n.ok /\ n.v \in DOMAIN table THEN [n EXCEPT !.v = table[n.v]] ELSE Failed
      full(n) == IF n.ok THEN [n EXCEPT !.v = <<@, <<>>>>] ELSE Failed
  IN  IF Head(b) >= 128 THEN at(readPrefixedInt(b, 6))
      ELSE IF Head(b) \div 16 = 5 THEN at(readPrefixedInt(b, 4))
      ELSE IF Head(b) \div 32 = 1 THEN full(readPrefixedString(b, 3))
      ELSE Failed

Line(table, b) ==
  LET name        == LineName(table, b)
      with(value) == IF value.ok THEN [value EXCEPT !.v = <<name.v[1], @>>] ELSE Failed
  IN  IF ~name.ok \/ Head(b) >= 128 THEN name ELSE with(readPrefixedString(name.rest, 7))

Field == Seq(Nat) \X Seq(Nat)

DecodePass(table) ==
  [s \in [ok : BOOLEAN, fields : Seq(Field), rest : Seq(Octet)] |->
     LET l == Line(table, s.rest)
     IN  IF ~s.ok \/ s.rest = <<>> THEN s
         ELSE IF l.ok THEN [ok |-> TRUE, fields |-> Append(s.fields, l.v), rest |-> l.rest]
         ELSE [s EXCEPT !.ok = FALSE]]

\* The map that assigning the fields one after the other makes.
MapOf(fields) ==
  [name \in {fields[i][1] : i \in DOMAIN fields} |->
     LET last == CHOOSE i \in DOMAIN fields :
                   fields[i][1] = name /\ \A j \in i + 1 .. Len(fields) : fields[j][1] # name
     IN  fields[last][2]]

h3DecodeHeaders(table, b) ==
  LET count == readPrefixedInt(b, 8)
      base  == readPrefixedInt(count.rest, 7)
      s     == Loop(DecodePass(table), [ok |-> TRUE, fields |-> <<>>, rest |-> base.rest], Len(b))
  IN  IF ~count.ok THEN Failed
      ELSE IF ~base.ok THEN Failed
      ELSE IF s.ok THEN [ok |-> TRUE, h |-> MapOf(s.fields)] ELSE Failed
=============================================================================
