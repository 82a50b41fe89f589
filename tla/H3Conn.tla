-------------------------------- MODULE H3Conn --------------------------------
(***************************************************************************)
(* The connection of FramedWS on an HTTP/3 stream with the contents of     *)
(* H3Bytes.                                                                *)
(***************************************************************************)
EXTENDS FramedWS, H3Bytes

\* What is read from the stream is what was written to it: integers, frames, settings
\* and header blocks.  As this is about constants, the first state is enough.
H3BytesAgree == Init => IntegersAgree /\ FramesAgree /\ SettingsAgree /\ HeadersAgree
=============================================================================
