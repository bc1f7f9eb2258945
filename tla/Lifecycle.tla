----------------------------- MODULE Lifecycle ------------------------------
(***************************************************************************)
(* One process from start to exit: the startup sequence and the shutdown   *)
(* of cmd/app/main.go, and the HTTP server, the gRPC server and the event  *)
(* router that it watches and closes.  (Probes models their readiness.)    *)
(*                                                                         *)
(* A server's in-flight work (requests, deliveries) is one flag.  Timers   *)
(* fire at any moment after they are set.  The serving loops of the        *)
(* libraries are external: they stop when asked and no work is left, or by *)
(* themselves.                                                             *)
(***************************************************************************)
EXTENDS Naturals, Sequences, AppContexts

CONSTANTS
    Servers,   \* the servers among "http", "grpc" and "events"
    Closers    \* the enabled components, in the order of their shutdown

Closer == {Closers[i] : i \in DOMAIN Closers}

ASSUME LifecycleAssumption ==
    /\ Closers \in Seq(STRING)
    /\ \A i, j \in DOMAIN Closers : Closers[i] = Closers[j] => i = j
    /\ Servers \subseteq {"http", "grpc", "events"}
    /\ Servers \cup {"db"} \subseteq Closer
    /\ Closer \cap {"http", "grpc", "events"} \subseteq Servers
    /\ \A i, j \in DOMAIN Closers : Closers[i] \in Servers /\ Closers[j] = "db" => i < j

VARIABLES
    stage,      \* steps of main that are done
    exit,       \* how the process ended, "no" while it runs
    serve,      \* serve[s]: the serving call of server s
    busy,       \* servers with work in flight
    errors,     \* errors[s]: the channel of s
    crashed,    \* servers that ended by themselves
    watcher,    \* watcher[s]: the goroutine of watchErrors for s
    watching,   \* watchCtx is not cancelled by stopWatching
    at,         \* 0: no signal; 1: drain; i + 1: closing Closers[i]; then done
    overran,    \* components that exceeded a shutdown deadline
    closed      \* components whose resources are released

serverVars == <<serve, busy, errors, crashed>>
watchVars == <<watcher, watching, live>>
shutdownVars == <<cancelled, at, asked, overran, closed>>
vars == <<stage, exit, serve, busy, errors, crashed, watcher, watching, live,
          cancelled, at, asked, overran, closed>>

Started == 6

TypeOK ==
    /\ stage \in 0..Started
    /\ exit \in {"no", "fatal", "killed", "completed", "expired"}
    /\ serve \in [Servers -> {"down", "launched", "serving", "stopped", "over"}]
    /\ busy \subseteq Servers
    /\ errors \in [Servers -> {"open", "error", "closed"}]
    /\ crashed \subseteq Servers
    /\ watcher \in [Servers -> {"none", "select", "failed", "done"}]
    /\ watching \in BOOLEAN /\ live \in BOOLEAN
    /\ cancelled \in BOOLEAN
    /\ at \in 0..(Len(Closers) + 2)
    /\ asked \subseteq Closer
    /\ overran \subseteq Closer
    /\ closed \subseteq Closer

Init ==
    /\ stage = 0 /\ exit = "no"
    /\ serve = [s \in Servers |-> "down"]
    /\ errors = [s \in Servers |-> "open"]
    /\ busy = {} /\ crashed = {}
    /\ watcher = [s \in Servers |-> "none"]
    /\ watching = TRUE /\ live = TRUE
    /\ cancelled = FALSE /\ at = 0
    /\ asked = {} /\ overran = {} /\ closed = {}

\* The process ends and its memory is gone.
Dies(how) ==
    /\ exit = "no" /\ exit' = how
    /\ stage' = 0
    /\ serve' = [s \in Servers |-> "down"]
    /\ errors' = [s \in Servers |-> "open"]
    /\ busy' = {} /\ crashed' = {}
    /\ watcher' = [s \in Servers |-> "none"]
    /\ watching' = TRUE /\ live' = TRUE
    /\ cancelled' = FALSE /\ at' = 0
    /\ asked' = {} /\ overran' = {} /\ closed' = {}

-----------------------------------------------------------------------------
(* Startup. *)

StartupStep(n) ==
    /\ exit = "no"
    /\ stage = n
    /\ stage' = n + 1
    /\ UNCHANGED <<exit, watchVars, shutdownVars>>

InitCore == StartupStep(0) /\ UNCHANGED <<serverVars>>
OpenDatabase == StartupStep(1) /\ UNCHANGED <<serverVars>>
OpenCache == StartupStep(2) /\ UNCHANGED <<serverVars>>
OpenBackend == StartupStep(3) /\ UNCHANGED <<serverVars>>

\* Router.Start returned nil: the router runs; then the workers start.
StartRouter ==
    /\ StartupStep(4)
    /\ serve' = [s \in Servers |-> IF s = "events" THEN "serving" ELSE serve[s]]
    /\ UNCHANGED <<busy, errors, crashed>>

\* The serving goroutines start, then watchLiveness.
StartServers ==
    /\ exit = "no" /\ stage = 5
    /\ stage' = Started
    /\ serve' = [s \in Servers |-> IF s = "events" THEN serve[s] ELSE "launched"]
    /\ watcher' = [s \in Servers |-> "select"]
    /\ UNCHANGED <<exit, busy, errors, crashed, watching, live, shutdownVars>>

\* log.Fatalf.
StartupFails ==
    /\ stage < Started
    /\ Dies("fatal")

-----------------------------------------------------------------------------
(* The servers. *)

\* The end of s was asked for: by its Shutdown or, for the router, whose Run
\* takes it, by the application context.
Requested(s) == s \in asked \/ (s = "events" /\ cancelled)

ServerStep(s) == exit = "no" /\ UNCHANGED <<stage, exit, watchVars, shutdownVars>>

\* The listener is bound.  (A gRPC server that was stopped does not serve.)
BeginServing(s) ==
    /\ ServerStep(s)
    /\ serve[s] = "launched"
    /\ s = "grpc" => s \notin asked
    /\ serve' = [serve EXCEPT ![s] = "serving"]
    /\ UNCHANGED <<busy, errors, crashed>>

\* The serving call returns by itself: it could not bind, or it failed.
StopsByItself(s) ==
    /\ ServerStep(s)
    /\ serve[s] \in {"launched", "serving"}
    /\ serve' = [serve EXCEPT ![s] = "stopped"]
    /\ crashed' = crashed \cup {s}
    /\ UNCHANGED <<busy, errors>>

\* The serving call returns because it was asked to: no work is left, or the
\* graceful timeout (HTTP) or the close timeout (router) is over.  A gRPC
\* server that was stopped before it served returns at once.
StopsWhenAsked(s) ==
    /\ ServerStep(s)
    /\ serve[s] = "serving" \/ (s = "grpc" /\ serve[s] = "launched")
    /\ Requested(s)
    /\ s \notin busy \/ (s # "grpc" /\ s \in overran)
    /\ serve' = [serve EXCEPT ![s] = "stopped"]
    /\ UNCHANGED <<busy, errors, crashed>>

\* Mutant: the router's monitor ignores the application context.
QuietWhenAsked(s) == s \in asked

\* What reportServeError and the router's monitor check before they report.
Quiet(s) == Requested(s)

\* Mutant: the error channel has no buffer.
ReportedUnbuffered(s) ==
    IF Quiet(s) \/ watcher[s] # "select" THEN "closed" ELSE "error"

\* What the channel holds when it is closed.
Reported(s) == IF Quiet(s) THEN "closed" ELSE "error"

\* Report the end of the serving call and close the channel.  The one send
\* fits the buffer, so it never blocks.
Report(s) ==
    /\ ServerStep(s)
    /\ serve[s] = "stopped"
    /\ serve' = [serve EXCEPT ![s] = "over"]
    /\ errors' = [errors EXCEPT ![s] = Reported(s)]
    /\ UNCHANGED <<busy, crashed>>

\* A request or a delivery begins; a server that was asked to stop takes no
\* more.
WorkBegins(s) ==
    /\ ServerStep(s)
    /\ serve[s] = "serving" /\ ~Requested(s)
    /\ busy' = busy \cup {s}
    /\ UNCHANGED <<serve, errors, crashed>>

WorkEnds(s) ==
    /\ ServerStep(s)
    /\ s \in busy
    /\ busy' = busy \ {s}
    /\ UNCHANGED <<serve, errors, crashed>>

-----------------------------------------------------------------------------
(* watchErrors. *)

WatchStep(s) ==
    /\ exit = "no"
    /\ UNCHANGED <<stage, exit, serve, busy, crashed, shutdownVars>>

WatchOver == cancelled \/ ~watching

\* One branch of the select; when both are ready either may be taken.  An
\* error that arrives after the cancellation is dropped.
WatchSelect(s) ==
    /\ WatchStep(s)
    /\ watcher[s] = "select"
    /\ \/ /\ WatchOver
          /\ watcher' = [watcher EXCEPT ![s] = "done"]
          /\ UNCHANGED errors
       \/ /\ errors[s] = "closed"
          /\ watcher' = [watcher EXCEPT ![s] = "done"]
          /\ UNCHANGED errors
       \/ /\ errors[s] = "error"
          /\ errors' = [errors EXCEPT ![s] = "closed"]
          /\ watcher' = [watcher EXCEPT ![s] = IF WatchOver THEN "done" ELSE "failed"]
    /\ UNCHANGED <<watching, live>>

\* failure.Do: liveness fails, the other watchers stop.
MarkFailed(s) ==
    /\ WatchStep(s)
    /\ watcher[s] = "failed"
    /\ watcher' = [watcher EXCEPT ![s] = "done"]
    /\ live' = FALSE /\ watching' = FALSE
    /\ UNCHANGED errors

-----------------------------------------------------------------------------
(* shutdown. *)

Current == IF at \in 2..(Len(Closers) + 1) THEN Closers[at - 1] ELSE "none"
Done == Len(Closers) + 2

\* The first signal, once shutdown listens for it.
Signal ==
    /\ exit = "no" /\ stage = Started /\ at = 0
    /\ at' = 1
    /\ UNCHANGED <<stage, exit, serverVars, watchVars,
                   cancelled, asked, overran, closed>>

\* A signal before that, or a second one, has its default effect.
Killed ==
    /\ stage < Started \/ at > 0
    /\ Dies("killed")

CancelMain ==
    /\ exit = "no" /\ at = 1 /\ ~cancelled
    /\ cancelled' = TRUE
    /\ UNCHANGED <<stage, exit, serverVars, watchVars, at, asked, overran, closed>>

\* Call Shutdown of the component at position n, if there is one.
CallShutdown(n) ==
    /\ at' = n
    /\ asked' = asked \cup {Closers[i] : i \in DOMAIN Closers \cap {n - 1}}

\* The sleep that lets probes see the process unready.
DrainOver ==
    /\ exit = "no" /\ at = 1 /\ cancelled
    /\ CallShutdown(2)
    /\ UNCHANGED <<stage, exit, serverVars, watchVars, cancelled, overran, closed>>

\* The work of c's Shutdown is done: serveDone is closed, GracefulStop has
\* returned, or the closing goroutine has.
Finished(c) ==
    CASE c = "http" -> serve[c] = "over"
      [] c = "grpc" -> c \notin busy
      [] OTHER -> c \in closed

\* Mutant: a gRPC server past its deadline is not waited for.
ReturnsAtDeadline(c) == Finished(c) \/ c \in overran

\* Shutdown returns when it is done or at its deadline; the gRPC server
\* forces its connections shut at the deadline but still waits.
Returns(c) == Finished(c) \/ (c \in overran /\ c # "grpc")

\* Mutant: a component that overran ends the sequence.
AdvanceStops ==
    /\ exit = "no"
    /\ Current # "none" /\ Returns(Current)
    /\ CallShutdown(IF Current \in overran THEN Done ELSE at + 1)
    /\ UNCHANGED <<stage, exit, serverVars, watchVars, cancelled, overran, closed>>

\* The next component, also after an error.
Advance ==
    /\ exit = "no"
    /\ Current # "none" /\ Returns(Current)
    /\ CallShutdown(at + 1)
    /\ UNCHANGED <<stage, exit, serverVars, watchVars, cancelled, overran, closed>>

\* A deadline passes: the component's, the HTTP server's graceful timeout or
\* the router's close timeout.
Overrun(c) ==
    /\ exit = "no"
    /\ c \notin overran
    /\ c = Current \/ (c \in {"http", "events"} /\ Requested(c))
    /\ overran' = overran \cup {c}
    /\ UNCHANGED <<stage, exit, serverVars, watchVars, cancelled, at, asked, closed>>

\* The goroutine of a Shutdown closes its component, perhaps after the
\* deadline; the event backend only once the router is closed.
Close(c) ==
    /\ exit = "no"
    /\ c \in asked \ {"http", "grpc"} /\ c \notin closed
    /\ c = "events" => serve[c] # "serving"
    /\ closed' = closed \cup {c}
    /\ UNCHANGED <<stage, exit, serverVars, watchVars, cancelled, at, asked, overran>>

\* done is closed and main returns.
Complete ==
    /\ exit = "no" /\ at = Done
    /\ exit' = "completed"
    /\ UNCHANGED <<stage, serverVars, watchVars, shutdownVars>>

\* Mutant: the grace period is looked at between two components.
GraceExpiresBetween ==
    /\ at > 0
    /\ Current = "none" \/ Returns(Current)
    /\ Dies("expired")

\* The grace period is over and main returns, wherever the goroutine is.
GraceExpires ==
    /\ at > 0
    /\ Dies("expired")

-----------------------------------------------------------------------------
Startup == InitCore \/ OpenDatabase \/ OpenCache \/ OpenBackend
             \/ StartRouter \/ StartServers

ShutdownNext == CancelMain \/ DrainOver \/ Advance \/ Complete

ServerNext(s) ==
    \/ BeginServing(s) \/ StopsByItself(s) \/ StopsWhenAsked(s) \/ Report(s)
    \/ WorkBegins(s) \/ WorkEnds(s)
    \/ WatchSelect(s) \/ MarkFailed(s)

Next ==
    \/ Startup \/ StartupFails \/ Signal \/ Killed
    \/ \E s \in Servers : ServerNext(s)
    \/ ShutdownNext \/ GraceExpires
    \/ \E c \in Closer : Overrun(c) \/ Close(c)

Spec == Init /\ [][Next]_vars

\* Startup ends one way or the other (its connection attempts have a deadline),
\* goroutines that can run do, and the grace period ends.  Nothing is assumed
\* of requests in flight, of signals or of the components' own deadlines.
Fairness ==
    /\ WF_vars(Startup \/ StartupFails)
    /\ \A s \in Servers : WF_vars(Report(s)) /\ WF_vars(WatchSelect(s)) /\ WF_vars(MarkFailed(s))
    /\ WF_vars(CancelMain)
    /\ WF_vars(GraceExpires)

FairSpec == Spec /\ Fairness

-----------------------------------------------------------------------------
(* Properties. *)

\* Normal shutdown emits no error and does not fail liveness: what a channel
\* reports is a server that really ended by itself, and so is the reason for a
\* failure of liveness - whatever the race of the cancelled context, which also
\* stops the router, with the servers' ends and the watchers.
OnlyCrashesReported ==
    /\ \A s \in Servers : errors[s] = "error" => s \in crashed
    /\ ~live => crashed # {}

\* The database outlives the work that uses it: when it is closed no gRPC
\* handler runs, and no HTTP request or delivery, except of a server that
\* exceeded its deadline or had crashed before.
DatabaseOutlivesWork ==
    "db" \in closed => busy \subseteq (overran \cup crashed) \ {"grpc"}

\* A shutdown that reports completion has shut every component down, or
\* waited for it as long as its deadline.
CompletedMeansClosed ==
    exit = "completed" => \A c \in Closer : Finished(c) \/ c \in overran

\* A terminal server failure makes liveness fail, even if it comes before
\* anyone watches, unless a shutdown begins first.
CrashNoticed ==
    \A s \in Servers : s \in crashed ~> (~live \/ cancelled \/ exit # "no")

\* A signal ends the process, though a gRPC handler may never return.
ShutdownTerminates == (at > 0) ~> (exit # "no")

=============================================================================
