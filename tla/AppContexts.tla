---------------------------- MODULE AppContexts -----------------------------
(***************************************************************************)
(* The two contexts of cmd/app/main.go and the calls of Shutdown, as far   *)
(* as the two servers see them: liveness fails once, the application is    *)
(* cancelled once, and only then the HTTP server is asked to stop, before  *)
(* the gRPC server.  Lifecycle makes these steps, Probes observes them.    *)
(***************************************************************************)

VARIABLES
    live,       \* livenessCtx is not cancelled
    cancelled,  \* the application context is cancelled
    asked       \* components whose Shutdown was called

ContextsInit == live = TRUE /\ cancelled = FALSE /\ asked = {}

\* livenessCancel.
LivenessCancelled == live /\ live' = FALSE /\ UNCHANGED <<cancelled, asked>>

\* mainCancel.
ApplicationCancelled == ~cancelled /\ cancelled' = TRUE /\ UNCHANGED <<live, asked>>

\* The loop over the closers comes to the HTTP server, and later to the gRPC server.
HttpAsked == cancelled /\ asked = {} /\ asked' = {"http"} /\ UNCHANGED <<live, cancelled>>
GrpcAsked == asked = {"http"} /\ asked' = {"http", "grpc"} /\ UNCHANGED <<live, cancelled>>

ContextsNext == LivenessCancelled \/ ApplicationCancelled \/ HttpAsked \/ GrpcAsked

\* Mutant: readiness forgets liveness.
ReadinessWithoutLiveness == ~cancelled

\* readinessCheck, apart from the pings of database and cache.
Readiness == live /\ ~cancelled

=============================================================================
