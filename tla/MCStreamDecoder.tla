-------------------------- MODULE MCStreamDecoder ---------------------------
(***************************************************************************)
(* The stream decoder on small messages, and the codec of one message.     *)
(***************************************************************************)
EXTENDS StreamDecoder

CONSTANT Ids

INSTANCE Mtp1Codec

(* What the decoder is about to judge means the same to whoever reads it:  *)
(* one encoder and three readers, in three languages, are one protocol     *)
(* (TouchFrame.c:48-146, Mtp1.cpp:49-124, main.c:400-422).                 *)
OneProtocol == HeaderBuffered => AgentUnderstood /\ ReadersAgree

=============================================================================
