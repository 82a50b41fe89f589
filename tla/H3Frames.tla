------------------------------- MODULE H3Frames -------------------------------
(***************************************************************************)
(* The byte level of an HTTP/3 stream (internal/ws_h3.go): the answer to   *)
(* the CONNECT request, the DATA frames that carry the WebSocket frames,   *)
(* and SETTINGS.                                                           *)
(***************************************************************************)
EXTENDS H3Varint, Loops

\* Frames are skipped until one has the header block of the answer.
AnswerPass ==
  [s \in [found : BOOLEAN, block : Seq(Octet), rest : Seq(Octet)] |->
     LET f == FrameAt(s.rest)
     IN  IF s.found \/ ~f.ok THEN s
         ELSE [found |-> f.type = HeadersFrame, block |-> f.payload, rest |-> f.rest]]

\* The header block of the answer and the bytes after it.
h3ReadResponseHeaders(b) ==
  LET s == Loop(AnswerPass, [found |-> FALSE, block |-> <<>>, rest |-> b], Len(b))
  IN  IF s.found THEN [ok |-> TRUE, block |-> s.block, rest |-> s.rest] ELSE [ok |-> FALSE]

ReadPass ==
  [s \in [got : Seq(Octet), rest : Seq(Octet)] |->
     LET f == FrameAt(s.rest)
     IN  IF ~f.ok THEN s
         ELSE IF f.type # DataFrame \/ Len(f.payload) > MaxDataFrame THEN s
         ELSE [got |-> s.got \o f.payload, rest |-> f.rest]]

\* What repeated calls of h3wsStream.Read return for the bytes b, until the stream
\* ends or an error.
h3Read(b) == Loop(ReadPass, [got |-> <<>>, rest |-> b], Len(b)).got

EnableConnectProtocol == 8
MaxSettings == 32

SettingsPass ==
  [s \in [enabled : BOOLEAN, rest : Seq(Octet)] |->
     LET id   == readVarint(s.rest)
         tail == SubSeq(s.rest, id.n + 1, Len(s.rest))
         val  == readVarint(tail)
     IN  IF id.n = 0 \/ val.n = 0 THEN s
         ELSE [enabled |-> IF id.v = EnableConnectProtocol THEN val.v = 1 ELSE s.enabled,
               rest    |-> SubSeq(tail, val.n + 1, Len(tail))]]

\* Of the settings that can be read, MaxSettings at most, the last one decides.
h3ParseSettingsPayload(b) ==
  Loop(SettingsPass, [enabled |-> FALSE, rest |-> b], MaxSettings).enabled
=============================================================================
