-------------------------------- MODULE MCHDLC --------------------------------
(* Small instances of HDLC for TLC. *)
EXTENDS HDLC

\* Flags, escapes and their escaped forms in the payload, payloads whose checksum has
\* to be escaped, and one that contains another with its checksum, so that a flag
\* inserted after it makes a frame nobody sent.
Nested == LET fcs == computeFCS16(<<96>>) IN <<96, fcs % 256, fcs \div 256, 0>>

SomePayloads == {<<126>>, <<125, 93>>, <<96>>, Nested}

SomeNoise == {126, 125, 94, 0}
=============================================================================
