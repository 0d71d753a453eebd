----------------------------- MODULE MCKvConfig -----------------------------
(* Values for the constants of KvConfig that a configuration cannot write. *)
EXTENDS KvConfig, TLC

MCServer == 0 .. 2

MCEnd == ({1000} \union 1 .. MaxInstance) \X MCServer

=============================================================================
