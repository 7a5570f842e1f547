----------------------------- MODULE MCPicardLink -----------------------------
(* Small instances of PicardLink for TLC. *)
EXTENDS PicardLink

\* KNOWN_API_PROTOCOL_VERSIONS of BasePicard.h
KnownVersions == <<4, 3>>

=============================================================================
