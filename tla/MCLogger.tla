------------------------------ MODULE MCLogger ------------------------------
(* Two threads that log and a log of two backups, small enough to rotate. *)
EXTENDS Logger

MCFailures == {"remove", "rename", "open"}
MCLevels   == {LOG_INFO, LOG_ALWAYS}

=============================================================================
