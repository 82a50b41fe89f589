------------------------------ MODULE MCFramedWS ------------------------------
(* An instance of FramedWS for TLC.                                        *)
EXTENDS H3Conn

WSFrame(op, fin, len, ext) ==
  [op |-> op, fin |-> fin, masked |-> FALSE, h |-> [len |-> len, ext |-> ext]]

\* The frames of a server: whole and fragmented messages with lengths of all three
\* forms, control frames, and one of each kind of protocol error.
MCPeerFrame ==
  {WSFrame("data", TRUE, 126, 126), WSFrame("data", FALSE, 127, 65536),
   WSFrame("cont", FALSE, 1, 0), WSFrame("cont", TRUE, 125, 0),
   WSFrame("ping", TRUE, 0, 0), WSFrame("pong", TRUE, 0, 0), WSFrame("close", TRUE, 2, 0),
   WSFrame("reserved", TRUE, 0, 0), WSFrame("data", TRUE, 127, MaxFrame + 1),
   [WSFrame("data", TRUE, 3, 0) EXCEPT !.masked = TRUE]}

-----------------------------------------------------------------------------
(* The contents of an HTTP/3 stream.                                       *)

\* Values on both sides of every change of the form of an integer.
MCInteger == {0, 1, 63, 64, 65, 16383, 16384, 65536, 1073741823, 1073741824, 2147483647}

Bytes(n) == [i \in 1 .. n |-> i % 7]
Upto2(S) == {<<>>} \cup {<<x>> : x \in S} \cup {<<x, y>> : x, y \in S}

\* Frames of the stream and of an unknown type; lengths around 63 after and before
\* short ones.
ShortFrame  == {<<type, Bytes(n)>> : type \in {DataFrame, HeadersFrame, 33}, n \in {0, 1, 2}}
LongFrame   == {<<type, Bytes(n)>> : type \in {DataFrame, HeadersFrame}, n \in {63, 64}}
MCFrameList == Upto2(ShortFrame) \cup {<<f, g>> : f, g \in LongFrame}
                 \cup {<<f, g>> \o fs : f \in ShortFrame, g \in LongFrame, fs \in Upto2({<<0, <<1>>>>, <<33, <<>>>>})}

\* The setting of CONNECT alone, overruled, and on both sides of the limit.
SomeSetting   == {<<8, 0>>, <<8, 1>>, <<1, 1>>, <<16384, 8>>}
MCSettingList == Upto2(SomeSetting)
                   \cup {[i \in 1 .. MaxSettings - 1 |-> <<8, i>>] \o ss : ss \in Upto2(SomeSetting)}

\* A table in which a name has several values, and in which names and whole fields
\* lie on both sides of the limits of the prefixes, 15 and 63.
MCTable == [i \in 0 .. 65 |-> IF i = 3 THEN <<<<1>>, <<>>>> ELSE <<<<i \div 2>>, <<i>>>>]

\* Fields of the table, values new to it, new names; lengths around 7 and 127, and
\* one whose second group is full.
ShortField ==
  {MCTable[i] : i \in {0, 1, 3, 62, 63, 64}} \cup
  {<<Bytes(n), Bytes(m)>> : n \in {1, 6, 7, 8}, m \in {0, 2}}
LongField ==
  {<<<<k>>, Bytes(n)>> : k \in {0, 7, 8, 32}, n \in {0, 126, 127, 128}} \cup {<<Bytes(134), <<1>>>>}
MCFieldList ==
  Upto2(ShortField) \cup {<<f>> : f \in LongField} \cup
  UNION {{<<f, g>>, <<g, f>>} : f \in ShortField, g \in LongField}
=============================================================================
