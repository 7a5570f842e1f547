--------------------------- MODULE MCMuxLifecycle ---------------------------
(* Every control of a service that matters, and resets from inside. *)
EXTENDS MuxLifecycle

MCControls == {"STOP", "SHUTDOWN", "INTERROGATE", "PAUSE"}

=============================================================================
