-------------------------------- MODULE H3Bytes --------------------------------
(***************************************************************************)
(* What is read from an HTTP/3 stream is what was written to it: integers, *)
(* frames, SETTINGS and header blocks (internal/ws_h3.go and               *)
(* internal/ws_h3_qpack_min.go).                                           *)
(***************************************************************************)
EXTENDS H3Frames, QPACK

CONSTANTS
  Integer,       \* the integers of a stream
  FrameList,     \* sequences of frames, each a type and a payload
  SettingList,   \* sequences of settings, each an identifier and a value
  Table,         \* the static table, from 0 on
  FieldList      \* sequences of header fields, each a name and a value

\* What 62 bits can hold.
Varint == {v \in Nat : High(v) <= Max4}

ASSUME H3Assumption ==
  /\ Integer \subseteq Varint
  /\ \A fs \in FrameList :
       fs \in Seq(Varint \X Seq(Octet)) /\ \A i \in DOMAIN fs : Len(fs[i][2]) \in Varint
  /\ SettingList \subseteq Seq(Varint \X Varint)
  /\ DOMAIN Table \subseteq Nat /\ Table \in [DOMAIN Table -> Seq(Octet) \X Seq(Octet)]
  /\ FieldList \subseteq Seq(Seq(Octet) \X Seq(Octet))

Frames(fs)   == Joined([i \in DOMAIN fs |-> Frame(fs[i][1], fs[i][2])])
Settings(ss) == Joined([i \in DOMAIN ss |-> appendVarint(ss[i][1]) \o appendVarint(ss[i][2])])
Payloads(fs) == [i \in DOMAIN fs |-> fs[i][2]]

\* The first k frames are the ones h3wsStream.Read accepts.
Accepted(f) == f[1] = DataFrame /\ Len(f[2]) <= MaxDataFrame
Readable(fs, k) ==
  (\A i \in 1 .. k : Accepted(fs[i])) /\ (k < Len(fs) => ~Accepted(fs[k + 1]))

\* Frame k is the first HEADERS frame.
AnswerAt(fs, k) == fs[k][1] = HeadersFrame /\ \A i \in 1 .. k - 1 : fs[i][1] # HeadersFrame

\* The last setting of CONNECT among the first MaxSettings enables it.
Enables(ss) ==
  \E i \in 1 .. Len(ss) :
    /\ i <= MaxSettings /\ ss[i] = <<EnableConnectProtocol, 1>>
    /\ \A j \in i + 1 .. Len(ss) : j <= MaxSettings => ss[j][1] # EnableConnectProtocol

\* The last field is a literal with an empty value.
EndsEmpty(fs) ==
  fs # <<>> /\ fs[Len(fs)][2] = <<>> /\ \A i \in DOMAIN Table : Table[i] # fs[Len(fs)]

\* An integer is read back as it was written, whatever follows it, and takes no more
\* bytes than a greater one.
IntegersAgree ==
  \A v, w \in Integer :
    /\ readVarint(appendVarint(v) \o appendVarint(w)) = [v |-> v, n |-> Len(appendVarint(v))]
    /\ v < w => Len(appendVarint(v)) <= Len(appendVarint(w))

\* The answer is the first HEADERS frame and what follows it is left; DATA frames are
\* read as the bytes that were put into them, and nothing beyond another frame.
FramesAgree ==
  \A fs \in FrameList :
    /\ \A k \in 1 .. Len(fs) : AnswerAt(fs, k) =>
         h3ReadResponseHeaders(Frames(fs))
           = [ok |-> TRUE, block |-> fs[k][2], rest |-> Frames(SubSeq(fs, k + 1, Len(fs)))]
    /\ \A k \in 0 .. Len(fs) : Readable(fs, k) =>
         h3Read(Frames(fs)) = Joined(SubSeq(Payloads(fs), 1, k))

\* The last setting decides, and one that is cut off does not count.
SettingsAgree ==
  \A ss \in SettingList, v \in Integer :
    /\ h3ParseSettingsPayload(Settings(ss)) <=> Enables(ss)
    /\ h3ParseSettingsPayload(Settings(ss) \o appendVarint(v)) <=> Enables(ss)

\* The decoder's result d is the map of the fields fs, a later one replacing an
\* earlier one; only a block that ends in an empty string is refused, which is what
\* readPrefixedStringWithFirst makes of it.
Decodes(d, fs) ==
  IF EndsEmpty(fs) THEN ~d.ok
  ELSE /\ d.ok
       /\ DOMAIN d.h = {fs[i][1] : i \in DOMAIN fs}
       /\ \A i \in DOMAIN fs :
            (\A j \in i + 1 .. Len(fs) : fs[j][1] # fs[i][1]) => d.h[fs[i][1]] = fs[i][2]

\* A header block is read as the map of the fields it was written from.
HeadersAgree ==
  \A fs \in FieldList : Decodes(h3DecodeHeaders(Table, h3EncodeHeaders(Table, fs)), fs)
=============================================================================
