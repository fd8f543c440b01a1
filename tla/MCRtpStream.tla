----------------------------- MODULE MCRtpStream -----------------------------
(* Streams for TLC.                                                         *)
EXTENDS RtpStream

\* Whether losses may be skipped, the profile, and the Content-Length announced
\* in ResponseStart: unknown, exact, or (an answer to HEAD) longer than the body.
FileStreams ==
  [skip : {FALSE}, range : {FALSE}, download : {TRUE}, length : {-1, NumPackets, NumPackets + 2}]

\* Video and audio, played in ranges or downloaded.
MediaStreams ==
  {m \in [skip : {TRUE}, range : BOOLEAN, download : BOOLEAN, length : {-1, NumPackets}] :
     ~(m.range /\ m.download)}

\* For the runs about time: a file of known length, and media of unknown length.
AnyStreams ==
  {m \in [skip : BOOLEAN, range : {FALSE}, download : {FALSE}, length : {-1, NumPackets}] :
     m.skip = (m.length = -1)}
=============================================================================
