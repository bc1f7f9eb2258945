------------------------------- MODULE Probes -------------------------------
(***************************************************************************)
(* What one process tells the outside about itself: the HTTP server's      *)
(* readyStatus and its /ready handler, and the gRPC health status with the *)
(* monitor goroutine that keeps it, while liveness fails, the context is   *)
(* cancelled and both servers are shut down around them.                   *)
(***************************************************************************)
EXTENDS AppContexts

VARIABLES
    bound,      \* the HTTP server ran its BeforeServeFunc
    ready,      \* readyStatus of the HTTP server
    withdrawn,  \* the goroutine of WithReadinessContext has run
    monitor,    \* the goroutine of the gRPC health monitor
    health,     \* the gRPC health status: serving
    probe,      \* one request of /ready
    exited      \* the process is gone

probesVars == <<live, cancelled, asked, bound, ready, withdrawn, monitor, health, probe, exited>>

Probe == [step: {"none", "loaded", "ok", "unavailable"},
          late: BOOLEAN]   \* it began when the process was already unready

ProbesTypeOK ==
    /\ live \in BOOLEAN /\ cancelled \in BOOLEAN /\ bound \in BOOLEAN /\ withdrawn \in BOOLEAN
    /\ asked \subseteq {"http", "grpc"}
    /\ ready \in {"starting", "serving", "shuttingDown"}
    /\ monitor \in {"select", "check", "ok", "failing", "put", "done"}
    /\ health \in BOOLEAN
    /\ probe \in Probe
    /\ exited \in BOOLEAN

\* Both servers are built: grpc.New has started the monitor, whose first check
\* is immediate, with the status NOT_SERVING.
ProbesInit ==
    /\ ContextsInit
    /\ bound = FALSE /\ ready = "starting" /\ withdrawn = FALSE /\ monitor = "check" /\ health = FALSE
    /\ probe = [step |-> "none", late |-> FALSE]
    /\ exited = FALSE

-----------------------------------------------------------------------------
(* What happens to the process. *)

\* watchErrors saw a terminal failure.
LivenessFails ==
    /\ ~exited /\ LivenessCancelled
    /\ UNCHANGED <<bound, ready, withdrawn, monitor, health, probe, exited>>

\* A signal: shutdown cancels the application context.
ContextEnds ==
    /\ ~exited /\ ApplicationCancelled
    /\ UNCHANGED <<bound, ready, withdrawn, monitor, health, probe, exited>>

Exit ==
    /\ cancelled /\ ~exited
    /\ exited' = TRUE
    /\ UNCHANGED <<live, cancelled, asked, bound, ready, withdrawn, monitor, health, probe>>

-----------------------------------------------------------------------------
(* The HTTP server. *)

\* Mutant: the status is stored whatever it was.
MarkReadyAlways == "serving"

\* CompareAndSwap(ReadyStatusStarting, ReadyStatusServing).
MarkReady == IF ready = "starting" THEN "serving" ELSE ready

\* The server goroutine may come to serve only when a shutdown has begun.
BeforeServe ==
    /\ ~exited /\ ~bound
    /\ bound' = TRUE
    /\ ready' = MarkReady
    /\ UNCHANGED <<live, cancelled, asked, withdrawn, monitor, health, probe, exited>>

\* The goroutine of WithReadinessContext.
WithdrawReady ==
    /\ ~exited /\ cancelled /\ ~withdrawn
    /\ withdrawn' = TRUE
    /\ ready' = "shuttingDown"
    /\ UNCHANGED <<live, cancelled, asked, bound, monitor, health, probe, exited>>

HttpShutdown ==
    /\ ~exited /\ HttpAsked
    /\ ready' = "shuttingDown"
    /\ UNCHANGED <<bound, withdrawn, monitor, health, probe, exited>>

\* A probe arrives at the serving listener and /ready loads the status.
ReadyLoads ==
    /\ ~exited /\ bound /\ probe.step = "none"
    /\ probe' = [step |-> IF ready = "serving" THEN "loaded" ELSE "unavailable",
                 late |-> ~live \/ cancelled]
    /\ UNCHANGED <<live, cancelled, asked, bound, ready, withdrawn, monitor, health, exited>>

\* Then it runs the readiness check; a ping may fail or time out.
ReadyAnswers ==
    /\ ~exited /\ probe.step = "loaded"
    /\ \/ Readiness /\ probe' = [probe EXCEPT !.step = "ok"]
       \/ probe' = [probe EXCEPT !.step = "unavailable"]
    /\ UNCHANGED <<live, cancelled, asked, bound, ready, withdrawn, monitor, health, exited>>

\* The client has its answer; another probe may come.
ProbeOver ==
    /\ probe.step \in {"ok", "unavailable"} /\ ~exited
    /\ probe' = [step |-> "none", late |-> FALSE]
    /\ UNCHANGED <<live, cancelled, asked, bound, ready, withdrawn, monitor, health, exited>>

-----------------------------------------------------------------------------
(* The gRPC server. *)

monitorRest == <<live, cancelled, asked, bound, ready, withdrawn, probe, exited>>

\* The monitor's context is derived from the application's, and cancelled by
\* the server's own Shutdown.
MonitorOver == cancelled \/ "grpc" \in asked

\* The ticker's branch of the select, also when the other one is ready.
MonitorTick ==
    /\ ~exited /\ monitor = "select"
    /\ monitor' = "check"
    /\ UNCHANGED <<health, monitorRest>>

\* updateHealthStatus runs the check; a ping may fail, time out, or take long.
MonitorCheck ==
    /\ ~exited /\ monitor = "check"
    /\ \/ Readiness /\ monitor' = "ok"
       \/ monitor' = "failing"
    /\ UNCHANGED <<health, monitorRest>>

\* A cancelled monitor or a failed check withdraws the status.
MonitorDecide ==
    /\ ~exited
    /\ \/ /\ monitor = "ok" /\ ~MonitorOver
          /\ monitor' = "put" /\ UNCHANGED health
       \/ /\ monitor = "failing" \/ (monitor = "ok" /\ MonitorOver)
          /\ monitor' = "select" /\ health' = FALSE
    /\ UNCHANGED monitorRest

\* SetServingStatus(SERVING), perhaps after a cancellation in between.
MonitorPut ==
    /\ ~exited /\ monitor = "put"
    /\ monitor' = "select" /\ health' = TRUE
    /\ UNCHANGED monitorRest

\* Mutant: the monitor leaves the last word to Shutdown.
MonitorEndsSilently ==
    /\ ~exited /\ monitor = "select" /\ MonitorOver
    /\ monitor' = "done"
    /\ UNCHANGED <<health, monitorRest>>

\* The other branch: the monitor ends with the last word.
MonitorEnds ==
    /\ ~exited /\ monitor = "select" /\ MonitorOver
    /\ monitor' = "done" /\ health' = FALSE
    /\ UNCHANGED monitorRest

\* Shutdown, after the HTTP server's, cancels the monitor and withdraws the
\* status itself.
GrpcShutdown ==
    /\ ~exited /\ GrpcAsked
    /\ health' = FALSE
    /\ UNCHANGED <<bound, ready, withdrawn, monitor, probe, exited>>

-----------------------------------------------------------------------------
MonitorNext == MonitorTick \/ MonitorCheck \/ MonitorDecide \/ MonitorPut \/ MonitorEnds

ProbesNext ==
    \/ LivenessFails \/ ContextEnds \/ Exit
    \/ BeforeServe \/ WithdrawReady \/ HttpShutdown
    \/ ReadyLoads \/ ReadyAnswers \/ ProbeOver
    \/ MonitorNext \/ GrpcShutdown

ProbesSpec == ProbesInit /\ [][ProbesNext]_probesVars

\* The goroutines run, checks have a timeout, and a select that finds its
\* context done again and again takes that branch at last (Go chooses a ready
\* branch at random).  Nothing is assumed of the shutdown.
ProbesFairness ==
    /\ WF_probesVars(MonitorNext)
    /\ SF_probesVars(MonitorEnds)
    /\ WF_probesVars(WithdrawReady)

ProbesFairSpec == ProbesSpec /\ ProbesFairness

-----------------------------------------------------------------------------
(* Properties. *)

\* A readiness probe that begins after liveness failed, or after the context
\* was cancelled, is never answered 200, wherever the server is in its start
\* or its shutdown.
LateProbeRefused == probe.late => probe.step # "ok"

\* After a failure of liveness, or once the context is cancelled, the gRPC
\* health is withdrawn for good, though the monitor may report "serving" once
\* more after Shutdown withdrew it; and the status of a cancelled HTTP server
\* stays "shuttingDown", though it may only now begin to serve.
ProbesWithdrawn ==
    /\ (~live \/ cancelled) ~> [](~health \/ exited)
    /\ cancelled ~> [](ready = "shuttingDown" \/ exited)

=============================================================================
