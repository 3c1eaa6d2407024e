---- MODULE MCRemoteSync ----
(* One master of a slave, with its threads; or two, for the slave's count. *)
EXTENDS RemoteSync
====
