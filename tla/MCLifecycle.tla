---------------------------- MODULE MCLifecycle -----------------------------
(* Instances of Lifecycle for TLC. *)
EXTENDS Lifecycle

FewClosers == <<"pprof", "grpc", "events", "db">>

=============================================================================
