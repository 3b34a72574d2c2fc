---------------------------- MODULE MCFrameSplit ----------------------------
(* Instances of FrameSplit for TLC.  The mark of three bytes has what the   *)
(* search tells apart in the mark of five: a first byte, one between, a     *)
(* last one; the mark of five is the one of FrameBuffer.java.               *)
EXTENDS FrameSplit

ShortEnd == <<"j", "p", "n">>
JpegEnd == <<"j", "p", "e", "g", "n">>
=============================================================================
