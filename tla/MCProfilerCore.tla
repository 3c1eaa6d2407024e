---- MODULE MCProfilerCore ----
(* Two callers, two subcollectors, two starts of the loop. *)
EXTENDS ProfilerCore
====
