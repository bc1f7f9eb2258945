--------------------------- MODULE ProcessProofs ----------------------------
(***************************************************************************)
(* Proofs about one process, for any set of servers and any order of       *)
(* shutdown that closes the database after them: Lifecycle reports only    *)
(* crashes, closes the database after the work that uses it and leaves no  *)
(* component out; Probes refuses late probes and withdraws for good.       *)
(***************************************************************************)
EXTENDS Lifecycle, Probes, TLAPS

\* A server that was not started is down, the router is never just launched, and no signal
\* is taken before the startup is over.
StageInv ==
    /\ \A s \in Servers : stage < 5 \/ (stage < Started /\ s # "events") => serve[s] = "down"
    /\ \A s \in Servers : s = "events" => serve[s] # "launched"
    /\ stage < Started => at = 0

\* Why a serving call ended, an error was reported, a watcher saw it and liveness failed.
CrashInv ==
    /\ \A s \in Servers : serve[s] = "stopped" => s \in crashed \/ Requested(s)
    /\ \A s \in Servers : errors[s] = "error" \/ watcher[s] = "failed" => s \in crashed
    /\ ~live => crashed # {}

\* Work in flight of a server that does not serve was cut off by a crash or a deadline.
WorkInv ==
    \A s \in busy : /\ serve[s] \in {"serving", "stopped", "over"}
                    /\ serve[s] # "serving" => s \in crashed \/ (s \in overran /\ s # "grpc")

\* The components asked so far are those up to the current one; the ones before it have
\* returned; and what is closed was asked to be.
SequenceInv ==
    /\ \A i \in DOMAIN Closers : Closers[i] \in asked <=> i < at
    /\ \A i \in DOMAIN Closers : i + 1 < at => Returns(Closers[i])
    /\ closed \subseteq asked \ {"http", "grpc"}
    /\ "events" \in closed => serve["events"] # "serving"
    /\ exit = "completed" => at = Done

LifecycleInv == TypeOK /\ StageInv /\ CrashInv /\ WorkInv /\ SequenceInv

-----------------------------------------------------------------------------
\* The order of shutdown numbers the components, the database after the servers.
LEMMA Order ==
    /\ Len(Closers) \in Nat /\ DOMAIN Closers = 1..Len(Closers)
    /\ \A c \in Closer : \E i \in DOMAIN Closers : Closers[i] = c
    /\ \A i \in DOMAIN Closers : Closers[i] \in Closer
    /\ \A i, j \in DOMAIN Closers : Closers[i] = Closers[j] => i = j
    /\ \A i, j \in DOMAIN Closers : Closers[i] \in Servers /\ Closers[j] = "db" => i < j
BY LifecycleAssumption DEF Closer

LEMMA Length == Len(Closers) \in Nat
BY LifecycleAssumption

LEMMA Number == \A i \in DOMAIN Closers : i \in Nat /\ i > 0
BY LifecycleAssumption

\* The state of a process that is not running yet.
LEMMA InitHolds == Init => LifecycleInv
<1> SUFFICES ASSUME Init PROVE LifecycleInv
  OBVIOUS
<1>1. TypeOK
  <2>1. at \in 0..(Len(Closers) + 2) /\ stage \in 0..Started
    BY Length DEF Init, Started
  <2>2. watching \in BOOLEAN /\ live \in BOOLEAN /\ cancelled \in BOOLEAN
    BY DEF Init
  <2> QED BY <2>1, <2>2 DEF Init, TypeOK
<1>2. StageInv BY DEF Init, StageInv, Started
<1>3. CrashInv BY DEF Init, CrashInv
<1>4. WorkInv BY DEF Init, WorkInv
<1>5. SequenceInv BY Number DEF Init, SequenceInv
<1> QED BY <1>1, <1>2, <1>3, <1>4, <1>5 DEF LifecycleInv

\* The state of a process that is no more.
LEMMA DiesStep ==
    ASSUME NEW how \in {"fatal", "killed", "expired"}, Dies(how)
    PROVE  LifecycleInv'
<1>1. TypeOK'
  <2>1. at' \in 0..(Len(Closers) + 2) /\ stage' \in 0..Started
    BY Length DEF Dies, Started
  <2>2. watching' \in BOOLEAN /\ live' \in BOOLEAN /\ cancelled' \in BOOLEAN
    BY DEF Dies
  <2> QED BY <2>1, <2>2 DEF Dies, TypeOK
<1>2. StageInv' BY DEF Dies, StageInv, Started
<1>3. CrashInv' BY DEF Dies, CrashInv
<1>4. WorkInv' BY DEF Dies, WorkInv
<1>5. SequenceInv'
  <2>1. at' = 0 /\ asked' = {} /\ closed' = {} /\ exit' # "completed"
    BY DEF Dies
  <2>2. \A i \in DOMAIN Closers : ~(i < at') /\ ~(i + 1 < at')
    BY <2>1, Number
  <2> QED BY <2>1, <2>2 DEF SequenceInv
<1> QED BY <1>1, <1>2, <1>3, <1>4, <1>5 DEF LifecycleInv

\* A Shutdown that has returned stays so: nothing that is over or closed opens again, and a
\* gRPC server that was asked to stop gets no work.
LEMMA ReturnsKept ==
    ASSUME NEW c, Returns(c),
           serve["http"] = "over" => serve'["http"] = "over",
           c = "grpc" /\ "grpc" \in busy' => "grpc" \in busy,
           closed \subseteq closed', overran \subseteq overran'
    PROVE  Returns(c)'
<1>1. CASE c = "http" BY <1>1 DEF Returns, Finished
<1>2. CASE c = "grpc" BY <1>2 DEF Returns, Finished
<1>3. CASE c \notin {"http", "grpc"} BY <1>3 DEF Returns, Finished
<1> QED BY <1>1, <1>2, <1>3

\* So the sequence is undisturbed by a step that calls no Shutdown.
LEMMA SequenceKept ==
    ASSUME SequenceInv, TypeOK,
           UNCHANGED <<at, asked, exit>>, closed' \subseteq asked \ {"http", "grpc"},
           serve["http"] = "over" => serve'["http"] = "over",
           "grpc" \in asked /\ "grpc" \in busy' => "grpc" \in busy,
           closed \subseteq closed', overran \subseteq overran',
           "events" \in closed' => serve'["events"] # "serving"
    PROVE  SequenceInv'
<1>1. \A i \in DOMAIN Closers : i + 1 < at' => Returns(Closers[i])'
  <2> SUFFICES ASSUME NEW i \in DOMAIN Closers, i + 1 < at' PROVE Returns(Closers[i])'
    OBVIOUS
  <2>1. Returns(Closers[i]) BY DEF SequenceInv
  <2>2. i < at BY Number DEF TypeOK
  <2>3. Closers[i] \in asked BY <2>2 DEF SequenceInv
  <2> HIDE DEF Returns
  <2> QED BY <2>1, <2>3, ReturnsKept
<1> QED BY <1>1 DEF SequenceInv, Done

-----------------------------------------------------------------------------
(* Startup. *)

\* A step that starts nothing.
LEMMA StartupStepHolds ==
    ASSUME LifecycleInv, NEW n \in 0..3, StartupStep(n), UNCHANGED serverVars
    PROVE  LifecycleInv'
<1> USE DEF LifecycleInv, StartupStep, serverVars, watchVars, shutdownVars
<1>1. TypeOK' BY DEF TypeOK, Started
<1>2. StageInv' BY DEF StageInv, Started
<1>3. CrashInv' BY DEF CrashInv, Requested
<1>4. WorkInv' BY DEF WorkInv
<1>5. SequenceInv' BY SequenceKept DEF SequenceInv
<1> QED BY <1>1, <1>2, <1>3, <1>4, <1>5

\* What StartRouter and StartServers share: a server that was down begins; none is asked for.
LEMMA LaunchHolds ==
    ASSUME LifecycleInv, NEW L \in SUBSET Servers,
           \A s \in L : serve[s] = "down" /\ serve'[s] \in {"launched", "serving"},
           \A s \in Servers \ L : serve'[s] = serve[s],
           stage < Started, UNCHANGED <<exit, busy, errors, crashed, live, shutdownVars>>,
           \A s \in Servers : watcher'[s] \in {watcher[s], "select"}
    PROVE  CrashInv' /\ WorkInv' /\ SequenceInv'
<1> USE DEF LifecycleInv, shutdownVars
<1>1. CrashInv' BY DEF CrashInv, Requested
<1>2. WorkInv' BY DEF WorkInv, TypeOK
<1>3. SequenceInv'
  <2>1. at = 0 BY DEF StageInv
  <2>2. asked = {} BY <2>1, Order, Number DEF SequenceInv, TypeOK
  <2>3. closed = {} BY <2>2 DEF SequenceInv
  <2>4. \A i \in DOMAIN Closers : ~(i + 1 < at) BY <2>1, Number
  <2> QED BY <2>1, <2>2, <2>3, <2>4 DEF SequenceInv, Done
<1> QED BY <1>1, <1>2, <1>3

LEMMA StartRouterHolds == LifecycleInv /\ StartRouter => LifecycleInv'
<1> SUFFICES ASSUME LifecycleInv, StartRouter PROVE LifecycleInv'
  OBVIOUS
<1> USE DEF LifecycleInv, StartRouter, StartupStep, watchVars, shutdownVars
<1>1. TypeOK' BY DEF TypeOK, Started
<1>2. StageInv' BY DEF StageInv, Started
<1>3. CrashInv' /\ WorkInv' /\ SequenceInv'
  <2> DEFINE L == Servers \cap {"events"}
  <2>1. stage < Started BY DEF Started
  <2>2. \A s \in L : serve[s] = "down" /\ serve'[s] = "serving" BY DEF StageInv
  <2>3. \A s \in Servers \ L : serve'[s] = serve[s] OBVIOUS
  <2>4. L \in SUBSET Servers OBVIOUS
  <2> HIDE DEF L, LifecycleInv
  <2> QED BY <2>1, <2>2, <2>3, <2>4, LaunchHolds
<1> QED BY <1>1, <1>2, <1>3

LEMMA StartServersHolds == LifecycleInv /\ StartServers => LifecycleInv'
<1> SUFFICES ASSUME LifecycleInv, StartServers PROVE LifecycleInv'
  OBVIOUS
<1> USE DEF LifecycleInv, StartServers, shutdownVars
<1>1. TypeOK' BY DEF TypeOK, Started
<1>2. StageInv' BY DEF StageInv, Started
<1>3. CrashInv' /\ WorkInv' /\ SequenceInv'
  <2> DEFINE L == Servers \ {"events"}
  <2>1. stage < Started BY DEF Started
  <2>2. \A s \in L : serve[s] = "down" /\ serve'[s] = "launched" BY DEF StageInv, Started
  <2>3. \A s \in Servers \ L : serve'[s] = serve[s] OBVIOUS
  <2>4. L \in SUBSET Servers OBVIOUS
  <2> HIDE DEF L, LifecycleInv
  <2> QED BY <2>1, <2>2, <2>3, <2>4, LaunchHolds
<1> QED BY <1>1, <1>2, <1>3

-----------------------------------------------------------------------------
(* The servers and their watchers. *)

LEMMA BeginServingHolds ==
    ASSUME LifecycleInv, NEW s \in Servers, BeginServing(s)
    PROVE  LifecycleInv'
<1> USE DEF LifecycleInv, BeginServing, ServerStep, watchVars, shutdownVars
<1>1. TypeOK' BY DEF TypeOK
<1>2. StageInv' BY DEF StageInv, TypeOK
<1>3. CrashInv' BY DEF CrashInv, Requested, TypeOK
<1>4. WorkInv' BY DEF WorkInv, TypeOK
<1>5. SequenceInv' BY SequenceKept DEF SequenceInv, TypeOK, StageInv
<1> QED BY <1>1, <1>2, <1>3, <1>4, <1>5

LEMMA StopsByItselfHolds ==
    ASSUME LifecycleInv, NEW s \in Servers, StopsByItself(s)
    PROVE  LifecycleInv'
<1> USE DEF LifecycleInv, StopsByItself, ServerStep, watchVars, shutdownVars
<1>1. TypeOK' BY DEF TypeOK
<1>2. StageInv' BY DEF StageInv, TypeOK
<1>3. CrashInv' BY DEF CrashInv, Requested, TypeOK
<1>4. WorkInv' BY DEF WorkInv, TypeOK
<1>5. SequenceInv' BY SequenceKept DEF SequenceInv, TypeOK
<1> QED BY <1>1, <1>2, <1>3, <1>4, <1>5

LEMMA StopsWhenAskedHolds ==
    ASSUME LifecycleInv, NEW s \in Servers, StopsWhenAsked(s)
    PROVE  LifecycleInv'
<1> USE DEF LifecycleInv, StopsWhenAsked, ServerStep, watchVars, shutdownVars
<1>1. TypeOK' BY DEF TypeOK
<1>2. StageInv' BY DEF StageInv, TypeOK
<1>3. CrashInv' BY DEF CrashInv, Requested, TypeOK
<1>4. WorkInv' BY DEF WorkInv, TypeOK
<1>5. SequenceInv' BY SequenceKept DEF SequenceInv, TypeOK
<1> QED BY <1>1, <1>2, <1>3, <1>4, <1>5

LEMMA ReportHolds ==
    ASSUME LifecycleInv, NEW s \in Servers, Report(s)
    PROVE  LifecycleInv'
<1> USE DEF LifecycleInv, Report, ServerStep, watchVars, shutdownVars
<1>1. TypeOK' BY DEF TypeOK, Reported
<1>2. StageInv' BY DEF StageInv, TypeOK
<1>3. CrashInv'
  <2>1. errors'[s] = "error" => s \in crashed
    BY DEF CrashInv, Reported, Quiet, TypeOK
  <2> QED BY <2>1 DEF CrashInv, Requested, TypeOK
<1>4. WorkInv' BY DEF WorkInv, TypeOK
<1>5. SequenceInv' BY SequenceKept DEF SequenceInv, TypeOK
<1> QED BY <1>1, <1>2, <1>3, <1>4, <1>5

LEMMA WorkHolds ==
    ASSUME LifecycleInv, NEW s \in Servers, WorkBegins(s) \/ WorkEnds(s)
    PROVE  LifecycleInv'
<1> USE DEF LifecycleInv, WorkBegins, WorkEnds, ServerStep, watchVars, shutdownVars
<1>1. TypeOK' BY DEF TypeOK
<1>2. StageInv' BY DEF StageInv
<1>3. CrashInv' BY DEF CrashInv, Requested
<1>4. WorkInv' BY DEF WorkInv
<1>5. SequenceInv'
  <2>1. "grpc" \in asked /\ "grpc" \in busy' => "grpc" \in busy BY DEF Requested
  <2> QED BY <2>1, SequenceKept DEF SequenceInv
<1> QED BY <1>1, <1>2, <1>3, <1>4, <1>5

LEMMA WatchHolds ==
    ASSUME LifecycleInv, NEW s \in Servers, WatchSelect(s) \/ MarkFailed(s)
    PROVE  LifecycleInv'
<1> USE DEF LifecycleInv, WatchSelect, MarkFailed, WatchStep, shutdownVars
<1>1. TypeOK'
  <2>1. watcher' \in [Servers -> {"none", "select", "failed", "done"}] BY DEF TypeOK
  <2>2. errors' \in [Servers -> {"open", "error", "closed"}] BY DEF TypeOK
  <2>3. watching' \in BOOLEAN /\ live' \in BOOLEAN BY DEF TypeOK
  <2> QED BY <2>1, <2>2, <2>3 DEF TypeOK
<1>2. StageInv' BY DEF StageInv
<1>3. CrashInv'
  <2>1. CASE WatchSelect(s) BY <2>1 DEF CrashInv, Requested, TypeOK
  <2>2. CASE MarkFailed(s) BY <2>2 DEF CrashInv, Requested, TypeOK
  <2> QED BY <2>1, <2>2
<1>4. WorkInv' BY DEF WorkInv
<1>5. SequenceInv' BY SequenceKept DEF SequenceInv
<1> QED BY <1>1, <1>2, <1>3, <1>4, <1>5

-----------------------------------------------------------------------------
(* Shutdown. *)

\* Signal and CancelMain: nobody is asked yet.
LEMMA SignalHolds ==
    ASSUME LifecycleInv, Signal \/ CancelMain
    PROVE  LifecycleInv'
<1> USE DEF LifecycleInv, Signal, CancelMain, serverVars, watchVars
<1>1. at \in {0, 1} /\ at' = 1 /\ exit = "no" OBVIOUS
<1>2. TypeOK'
  <2>1. at' \in 0..(Len(Closers) + 2) BY <1>1, Length
  <2>2. cancelled' \in BOOLEAN BY DEF TypeOK
  <2> QED BY <2>1, <2>2 DEF TypeOK
<1>3. StageInv' BY DEF StageInv, TypeOK, Started
<1>4. CrashInv' BY DEF CrashInv, Requested
<1>5. WorkInv' BY DEF WorkInv
<1>6. SequenceInv'
  <2>1. \A i \in DOMAIN Closers : ~(i < at) /\ ~(i < at') /\ ~(i + 1 < at') BY <1>1, Number
  <2> QED BY <1>1, <2>1 DEF SequenceInv
<1> QED BY <1>2, <1>3, <1>4, <1>5, <1>6

\* Calling the next Shutdown when the current one has returned.
LEMMA CallHolds ==
    ASSUME LifecycleInv, at > 0, at < Done, CallShutdown(at + 1), exit = "no",
           \A i \in DOMAIN Closers : i + 1 = at => Returns(Closers[i]),
           UNCHANGED <<stage, exit, serverVars, watchVars, cancelled, overran, closed>>
    PROVE  LifecycleInv'
<1> USE DEF LifecycleInv, serverVars, watchVars
<1>0. at \in Nat BY DEF TypeOK
<1>1. /\ at' = at + 1
      /\ asked' = asked \cup {Closers[i] : i \in DOMAIN Closers \cap {at}}
  BY <1>0 DEF CallShutdown
<1>2. TypeOK'
  <2>1. at' \in 0..(Len(Closers) + 2) BY <1>0, <1>1, Length DEF Done
  <2>2. asked' \subseteq Closer BY <1>1 DEF TypeOK, Closer
  <2> QED BY <2>1, <2>2 DEF TypeOK
<1>3. StageInv' BY <1>0 DEF StageInv, TypeOK, Started
<1>4. CrashInv' BY <1>1 DEF CrashInv, Requested
<1>5. WorkInv' BY DEF WorkInv
<1>6. SequenceInv'
  <2>1. ASSUME NEW i \in DOMAIN Closers PROVE Closers[i] \in asked' <=> i < at'
    <3>1. Closers[i] \in asked <=> i < at BY DEF SequenceInv
    <3>2. Closers[i] \in asked' <=> Closers[i] \in asked \/ i = at BY <1>1, Order
    <3>3. i < at' <=> i < at \/ i = at BY <1>0, <1>1, Number
    <3> QED BY <3>1, <3>2, <3>3
  <2>2. ASSUME NEW i \in DOMAIN Closers, i + 1 < at' PROVE Returns(Closers[i])'
    <3>1. i + 1 < at \/ i + 1 = at BY <1>0, <1>1, <2>2, Number
    <3>2. Returns(Closers[i]) BY <3>1 DEF SequenceInv
    <3> QED BY <3>2 DEF Returns, Finished
  <2>3. closed' \subseteq asked' \ {"http", "grpc"} BY <1>1 DEF SequenceInv
  <2>4. exit' # "completed" /\ ("events" \in closed' => serve'["events"] # "serving")
    BY DEF SequenceInv
  <2> QED BY <2>1, <2>2, <2>3, <2>4 DEF SequenceInv
<1> QED BY <1>2, <1>3, <1>4, <1>5, <1>6

LEMMA DrainOverHolds == LifecycleInv /\ DrainOver => LifecycleInv'
<1> SUFFICES ASSUME LifecycleInv, DrainOver PROVE LifecycleInv'
  OBVIOUS
<1>1. at = 1 /\ CallShutdown(at + 1) /\ exit = "no" BY DEF DrainOver
<1>2. at < Done BY <1>1, Length DEF Done
<1>3. \A i \in DOMAIN Closers : i + 1 # at BY <1>1, Number
<1> QED BY <1>1, <1>2, <1>3, CallHolds DEF DrainOver

LEMMA AdvanceHolds == LifecycleInv /\ Advance => LifecycleInv'
<1> SUFFICES ASSUME LifecycleInv, Advance PROVE LifecycleInv'
  OBVIOUS
<1>1. at \in 2..(Len(Closers) + 1) /\ Returns(Closers[at - 1])
  BY DEF Advance, Current
<1>2. at > 0 /\ at < Done BY <1>1, Length DEF Done
<1>3. \A i \in DOMAIN Closers : i + 1 = at => Returns(Closers[i])
  <2> SUFFICES ASSUME NEW i \in DOMAIN Closers, i + 1 = at PROVE i = at - 1
    BY <1>1
  <2> QED BY Number
<1> QED BY <1>2, <1>3, CallHolds DEF Advance

LEMMA OverrunHolds ==
    ASSUME LifecycleInv, NEW c \in Closer, Overrun(c)
    PROVE  LifecycleInv'
<1> USE DEF LifecycleInv, Overrun, serverVars, watchVars
<1>1. TypeOK' BY DEF TypeOK
<1>2. StageInv' BY DEF StageInv
<1>3. CrashInv' BY DEF CrashInv, Requested
<1>4. WorkInv' BY DEF WorkInv
<1>5. SequenceInv' BY SequenceKept DEF SequenceInv
<1> QED BY <1>1, <1>2, <1>3, <1>4, <1>5

LEMMA CloseHolds ==
    ASSUME LifecycleInv, NEW c \in Closer, Close(c)
    PROVE  LifecycleInv'
<1> USE DEF LifecycleInv, Close, serverVars, watchVars
<1>1. TypeOK' BY DEF TypeOK
<1>2. StageInv' BY DEF StageInv
<1>3. CrashInv' BY DEF CrashInv, Requested
<1>4. WorkInv' BY DEF WorkInv
<1>5. SequenceInv' BY SequenceKept DEF SequenceInv
<1> QED BY <1>1, <1>2, <1>3, <1>4, <1>5

LEMMA CompleteHolds == LifecycleInv /\ Complete => LifecycleInv'
<1> SUFFICES ASSUME LifecycleInv, Complete PROVE LifecycleInv'
  OBVIOUS
<1> USE DEF LifecycleInv, Complete, serverVars, watchVars, shutdownVars
<1>1. TypeOK' BY DEF TypeOK
<1>2. StageInv' BY DEF StageInv
<1>3. CrashInv' BY DEF CrashInv, Requested
<1>4. WorkInv' BY DEF WorkInv
<1>5. SequenceInv'
  <2>1. \A i \in DOMAIN Closers : i + 1 < at' => Returns(Closers[i])'
    BY DEF SequenceInv, Returns, Finished
  <2> QED BY <2>1 DEF SequenceInv, Done
<1> QED BY <1>1, <1>2, <1>3, <1>4, <1>5

-----------------------------------------------------------------------------
\* One step of the process preserves the invariant.
LEMMA StepHolds == LifecycleInv /\ [Next]_vars => LifecycleInv'
<1> SUFFICES ASSUME LifecycleInv, [Next]_vars PROVE LifecycleInv'
  OBVIOUS
<1>1. CASE Startup
  <2>1. CASE InitCore \/ OpenDatabase \/ OpenCache \/ OpenBackend
    <3>1. PICK n \in 0..3 : StartupStep(n) /\ UNCHANGED serverVars
      BY <2>1 DEF InitCore, OpenDatabase, OpenCache, OpenBackend
    <3> QED BY <3>1, StartupStepHolds
  <2> QED BY <1>1, <2>1, StartRouterHolds, StartServersHolds DEF Startup
<1>2. CASE StartupFails \/ Killed \/ GraceExpires
  <2>1. PICK how \in {"fatal", "killed", "expired"} : Dies(how)
    BY <1>2, Zenon DEF StartupFails, Killed, GraceExpires
  <2> QED BY <2>1, DiesStep
<1>3. CASE Signal BY <1>3, SignalHolds
<1>4. ASSUME NEW s \in Servers, ServerNext(s) PROVE LifecycleInv'
  BY <1>4, BeginServingHolds, StopsByItselfHolds, StopsWhenAskedHolds, ReportHolds, WorkHolds,
     WatchHolds DEF ServerNext
<1>5. CASE ShutdownNext
  BY <1>5, SignalHolds, DrainOverHolds, AdvanceHolds, CompleteHolds DEF ShutdownNext
<1>6. ASSUME NEW c \in Closer, Overrun(c) \/ Close(c) PROVE LifecycleInv'
  BY <1>6, OverrunHolds, CloseHolds
<1>7. CASE UNCHANGED vars
  <2> USE <1>7 DEF LifecycleInv, vars
  <2>1. TypeOK' BY DEF TypeOK
  <2>2. StageInv' BY DEF StageInv
  <2>3. CrashInv' BY DEF CrashInv, Requested
  <2>4. WorkInv' BY DEF WorkInv
  <2>5. SequenceInv' BY SequenceKept DEF SequenceInv
  <2> QED BY <2>1, <2>2, <2>3, <2>4, <2>5
<1> QED BY <1>1, <1>2, <1>3, <1>4, <1>5, <1>6, <1>7 DEF Next

\* Whatever the process does, its stage, its servers and the sequence of its shutdown
\* belong together.
THEOREM ProcessSafe == Spec => []LifecycleInv
BY InitHolds, StepHolds, PTL DEF Spec

\* Normal shutdown emits no error and fails no liveness (reportServeError, the router's
\* monitor, watchErrors): what is reported is a server that ended by itself.
THEOREM NoFalseAlarm == Spec => []OnlyCrashesReported
<1>1. LifecycleInv => OnlyCrashesReported
  BY DEF LifecycleInv, CrashInv, OnlyCrashesReported
<1> QED BY <1>1, ProcessSafe, PTL

\* The shutdown closes the database only when no gRPC handler runs, and no request or
\* delivery but those of a server that crashed or overran its deadline.
THEOREM DatabaseClosedLast == Spec => []DatabaseOutlivesWork
<1>1. ASSUME LifecycleInv, "db" \in closed, NEW s \in busy
      PROVE  s \in (overran \cup crashed) \ {"grpc"}
  <2> USE <1>1 DEF LifecycleInv
  <2>1. s \in Servers /\ s \in {"http", "grpc", "events"} BY LifecycleAssumption DEF TypeOK
  <2>2. PICK i \in DOMAIN Closers : Closers[i] = s
    BY <2>1, Order, LifecycleAssumption
  <2>3. PICK j \in DOMAIN Closers : Closers[j] = "db" BY Order, LifecycleAssumption
  <2>4. i < j BY <2>1, <2>2, <2>3, Order
  <2>5. j < at BY <2>3 DEF SequenceInv
  <2>6. i + 1 < at BY <2>4, <2>5, Number DEF TypeOK
  <2>7. Returns(s) BY <2>2, <2>6 DEF SequenceInv
  <2>8. s # "grpc" BY <2>7 DEF Returns, Finished
  <2>9. s \in overran \/ serve[s] # "serving"
    BY <2>1, <2>7, <2>8 DEF Returns, Finished, SequenceInv
  <2> QED BY <2>8, <2>9 DEF WorkInv
<1>2. LifecycleInv => DatabaseOutlivesWork
  BY <1>1 DEF DatabaseOutlivesWork
<1> QED BY <1>2, ProcessSafe, PTL

\* A shutdown that reports completion has called every component's Shutdown and waited for
\* it, at most until its deadline.
THEOREM NothingLeftOpen == Spec => []CompletedMeansClosed
<1>1. ASSUME LifecycleInv, exit = "completed", NEW c \in Closer
      PROVE  Finished(c) \/ c \in overran
  <2> USE <1>1 DEF LifecycleInv
  <2>1. PICK i \in DOMAIN Closers : Closers[i] = c BY Order
  <2>2. at = Len(Closers) + 2 BY DEF SequenceInv, Done
  <2>3. i + 1 < at BY <2>2, Order, Length
  <2> QED BY <2>1, <2>3 DEF SequenceInv, Returns
<1>2. LifecycleInv => CompletedMeansClosed
  BY <1>1 DEF CompletedMeansClosed
<1> QED BY <1>2, ProcessSafe, PTL

-----------------------------------------------------------------------------
(* What the process tells about itself. *)

\* readyStatus, the monitor, the health status and a probe are always in one of their states.
THEOREM ProbesTypes == ProbesSpec => []ProbesTypeOK
<1>1. ProbesInit => ProbesTypeOK
  <2> SUFFICES ASSUME ProbesInit PROVE ProbesTypeOK
    OBVIOUS
  <2>1. probe \in Probe BY DEF ProbesInit, ContextsInit, Probe
  <2> QED BY <2>1 DEF ProbesInit, ContextsInit, ProbesTypeOK
<1>2. ProbesTypeOK /\ [ProbesNext]_probesVars => ProbesTypeOK'
  <2> SUFFICES ASSUME ProbesTypeOK, [ProbesNext]_probesVars PROVE ProbesTypeOK'
    OBVIOUS
  <2>0. probe \in Probe BY DEF ProbesTypeOK
  <2>1. CASE ReadyLoads \/ ReadyAnswers \/ ProbeOver
    <3>1. CASE ReadyLoads
      <4>1. probe' \in Probe BY <3>1 DEF ReadyLoads, Probe
      <4> QED BY <3>1, <4>1 DEF ReadyLoads, ProbesTypeOK
    <3>2. CASE ReadyAnswers
      <4>1. probe' \in Probe BY <2>0, <3>2 DEF ReadyAnswers, Readiness, Probe
      <4> QED BY <3>2, <4>1 DEF ReadyAnswers, ProbesTypeOK
    <3>3. CASE ProbeOver
      <4>1. probe' \in Probe BY <3>3 DEF ProbeOver, Probe
      <4> QED BY <3>3, <4>1 DEF ProbeOver, ProbesTypeOK
    <3> QED BY <2>1, <3>1, <3>2, <3>3
  <2> USE DEF ProbesTypeOK
  <2>2. CASE LivenessFails \/ ContextEnds \/ Exit
    BY <2>2 DEF LivenessFails, LivenessCancelled, ContextEnds, ApplicationCancelled, Exit
  <2>3. CASE BeforeServe \/ WithdrawReady \/ HttpShutdown \/ GrpcShutdown
    BY <2>3 DEF BeforeServe, MarkReady, WithdrawReady, HttpShutdown, HttpAsked, GrpcShutdown, GrpcAsked
  <2>4. CASE MonitorNext
    BY <2>4 DEF MonitorNext, MonitorTick, MonitorCheck, MonitorDecide, MonitorPut, MonitorEnds, monitorRest
  <2>5. CASE UNCHANGED probesVars BY <2>5 DEF probesVars
  <2> QED BY <2>1, <2>2, <2>3, <2>4, <2>5 DEF ProbesNext
<1> QED BY <1>1, <1>2, PTL DEF ProbesSpec

\* A probe is late only when the process is unready, which it stays, and the check that it
\* still has to pass fails then.
LateInv ==
    /\ probe \in Probe
    /\ probe.late => (~live \/ cancelled) /\ probe.step # "ok"

\* A readiness probe of /ready that begins after liveness failed or the context was cancelled
\* is never answered 200, wherever the servers are in their start or shutdown.
THEOREM LateProbes == ProbesSpec => []LateProbeRefused
<1>1. ProbesInit => LateInv BY DEF ProbesInit, ContextsInit, LateInv, Probe
<1>2. LateInv /\ [ProbesNext]_probesVars => LateInv'
  <2> SUFFICES ASSUME LateInv, [ProbesNext]_probesVars PROVE LateInv'
    OBVIOUS
  <2> USE DEF LateInv, Probe
  <2>1. CASE ReadyLoads BY <2>1 DEF ReadyLoads
  <2>2. CASE ReadyAnswers BY <2>2 DEF ReadyAnswers, Readiness
  <2>3. CASE ProbeOver BY <2>3 DEF ProbeOver
  <2>4. CASE LivenessFails BY <2>4 DEF LivenessFails, LivenessCancelled
  <2>5. CASE ContextEnds BY <2>5 DEF ContextEnds, ApplicationCancelled
  <2>6. CASE Exit \/ BeforeServe \/ WithdrawReady \/ HttpShutdown \/ GrpcShutdown
    BY <2>6 DEF Exit, BeforeServe, WithdrawReady, HttpShutdown, HttpAsked, GrpcShutdown, GrpcAsked
  <2>7. CASE MonitorNext
    BY <2>7 DEF MonitorNext, MonitorTick, MonitorCheck, MonitorDecide, MonitorPut,
                MonitorEnds, monitorRest
  <2>8. CASE UNCHANGED probesVars BY <2>8 DEF probesVars
  <2> QED BY <2>1, <2>2, <2>3, <2>4, <2>5, <2>6, <2>7, <2>8 DEF ProbesNext
<1>3. LateInv => LateProbeRefused BY DEF LateInv, Probe, LateProbeRefused
<1> QED BY <1>1, <1>2, <1>3, PTL DEF ProbesSpec

\* Once the goroutine of WithReadinessContext or the HTTP server's Shutdown has withdrawn
\* the status no late markReady takes it back; and the monitor has the last word about the
\* gRPC health: when it is done nobody reports "serving" again.
WithdrawnForGood ==
    /\ withdrawn \/ "http" \in asked => ready = "shuttingDown"
    /\ monitor = "done" => ~health /\ MonitorOver

\* The same, as a theorem of the compare-and-swap of markReady and of the monitor goroutine.
THEOREM NoLateReady == ProbesSpec => []WithdrawnForGood
<1>1. ProbesInit => WithdrawnForGood BY DEF ProbesInit, ContextsInit, WithdrawnForGood
<1>2. WithdrawnForGood /\ [ProbesNext]_probesVars => WithdrawnForGood'
  <2> SUFFICES ASSUME WithdrawnForGood, [ProbesNext]_probesVars PROVE WithdrawnForGood'
    OBVIOUS
  <2> USE DEF WithdrawnForGood, MonitorOver
  <2>1. CASE BeforeServe BY <2>1 DEF BeforeServe, MarkReady
  <2>2. CASE WithdrawReady \/ HttpShutdown \/ GrpcShutdown
    BY <2>2 DEF WithdrawReady, HttpShutdown, HttpAsked, GrpcShutdown, GrpcAsked
  <2>3. CASE MonitorNext
    BY <2>3 DEF MonitorNext, MonitorTick, MonitorCheck, MonitorDecide, MonitorPut,
                MonitorEnds, monitorRest
  <2>4. CASE LivenessFails \/ ContextEnds \/ Exit
    BY <2>4 DEF LivenessFails, LivenessCancelled, ContextEnds, ApplicationCancelled, Exit
  <2>5. CASE ReadyLoads \/ ReadyAnswers \/ ProbeOver
    BY <2>5 DEF ReadyLoads, ReadyAnswers, ProbeOver
  <2>6. CASE UNCHANGED probesVars BY <2>6 DEF probesVars
  <2> QED BY <2>1, <2>2, <2>3, <2>4, <2>5, <2>6 DEF ProbesNext
<1> QED BY <1>1, <1>2, PTL DEF ProbesSpec

-----------------------------------------------------------------------------
(* Lifecycle makes the steps that Probes takes for granted. *)

\* The contexts and calls of Shutdown as the two servers see them.
Seen == INSTANCE AppContexts WITH asked <- asked \cap {"http", "grpc"}

\* The order of the closers in main.
HttpFirst ==
    /\ {"http", "grpc"} \subseteq Servers
    /\ \A i, j \in DOMAIN Closers : Closers[i] = "http" /\ Closers[j] = "grpc" => i < j

\* While the process runs, its contexts fail and its servers are asked as in AppContexts.
ContextsFollowed ==
    /\ Seen!ContextsInit
    /\ [][exit' # "no" \/ Seen!ContextsNext]_<<live, cancelled, asked \cap {"http", "grpc"}>>

\* No component is asked to stop before the application context is cancelled.
CancelledFirst == at > 1 => cancelled

LEMMA CancelledFirstHolds == LifecycleInv /\ CancelledFirst /\ [Next]_vars => CancelledFirst'
<1> SUFFICES ASSUME LifecycleInv, CancelledFirst, [Next]_vars PROVE CancelledFirst'
  OBVIOUS
<1> USE DEF CancelledFirst
<1>0. at \in Nat BY Length DEF LifecycleInv, TypeOK
<1>1. CASE StartupFails \/ Killed \/ GraceExpires
  BY <1>1 DEF StartupFails, Killed, GraceExpires, Dies
<1>2. CASE Startup
  BY <1>2 DEF Startup, InitCore, OpenDatabase, OpenCache, OpenBackend, StartRouter, StartServers,
              StartupStep, shutdownVars
<1>3. CASE Signal BY <1>3 DEF Signal
<1>4. ASSUME NEW s \in Servers, ServerNext(s) PROVE CancelledFirst'
  BY <1>4 DEF ServerNext, BeginServing, StopsByItself, StopsWhenAsked, Report, WorkBegins, WorkEnds,
              ServerStep, WatchSelect, MarkFailed, WatchStep, shutdownVars
<1>5. CASE ShutdownNext
  <2>1. CASE CancelMain BY <2>1 DEF CancelMain
  <2>2. CASE DrainOver BY <2>2 DEF DrainOver
  <2>3. CASE Advance BY <1>0, <2>3 DEF Advance, Current
  <2>4. CASE Complete BY <2>4 DEF Complete, shutdownVars
  <2> QED BY <1>5, <2>1, <2>2, <2>3, <2>4 DEF ShutdownNext
<1>6. ASSUME NEW c \in Closer, Overrun(c) \/ Close(c) PROVE CancelledFirst'
  BY <1>6 DEF Overrun, Close
<1>7. CASE UNCHANGED vars BY <1>7 DEF vars
<1> QED BY <1>1, <1>2, <1>3, <1>4, <1>5, <1>6, <1>7 DEF Next

\* The loop over the closers comes to the next one.
LEMMA CallSeen ==
    ASSUME LifecycleInv, HttpFirst, at \in Nat, cancelled, CallShutdown(at + 1),
           UNCHANGED <<live, cancelled>>
    PROVE  Seen!ContextsNext \/ UNCHANGED <<live, cancelled, asked \cap {"http", "grpc"}>>
<1>1. asked' = asked \cup {Closers[i] : i \in DOMAIN Closers \cap {at}} BY DEF CallShutdown
<1>2. \A i \in DOMAIN Closers : Closers[i] \in asked <=> i < at BY DEF LifecycleInv, SequenceInv
<1>3. PICK h \in DOMAIN Closers : Closers[h] = "http" BY Order, LifecycleAssumption DEF HttpFirst
<1>4. PICK g \in DOMAIN Closers : Closers[g] = "grpc" BY Order, LifecycleAssumption DEF HttpFirst
<1>5. h < g /\ h \in Nat /\ g \in Nat BY <1>3, <1>4, Number DEF HttpFirst
<1>6. CASE at = h
  <2>1. asked' = asked \cup {"http"} BY <1>1, <1>3, <1>6
  <2>2. "http" \notin asked /\ "grpc" \notin asked BY <1>2, <1>3, <1>4, <1>5, <1>6
  <2>3. asked \cap {"http", "grpc"} = {} /\ asked' \cap {"http", "grpc"} = {"http"} BY <2>1, <2>2
  <2> QED BY <2>3 DEF Seen!ContextsNext, Seen!HttpAsked
<1>7. CASE at = g
  <2>1. asked' = asked \cup {"grpc"} BY <1>1, <1>4, <1>7
  <2>2. "http" \in asked /\ "grpc" \notin asked BY <1>2, <1>3, <1>4, <1>5, <1>7
  <2>3. asked \cap {"http", "grpc"} = {"http"} /\ asked' \cap {"http", "grpc"} = {"http", "grpc"}
    BY <2>1, <2>2
  <2> QED BY <2>3 DEF Seen!ContextsNext, Seen!GrpcAsked
<1>8. CASE at # h /\ at # g
  <2>1. \A i \in DOMAIN Closers \cap {at} : Closers[i] \notin {"http", "grpc"} BY <1>3, <1>4, <1>8, Order
  <2> QED BY <1>1, <2>1
<1> QED BY <1>6, <1>7, <1>8

\* What Probes assumes of the rest of the process (shutdown and watchErrors in main.go) is
\* what Lifecycle does: no Shutdown before the cancellation, the HTTP server before the gRPC
\* server, and neither context is ever revived.
THEOREM LifecycleDrivesProbes == HttpFirst /\ Spec => ContextsFollowed
<1>1. SUFFICES ASSUME HttpFirst PROVE Spec => ContextsFollowed
  OBVIOUS
<1>2. Init => CancelledFirst /\ Seen!ContextsInit
  BY DEF Init, CancelledFirst, Seen!ContextsInit
<1>3. LifecycleInv /\ CancelledFirst /\ [Next]_vars =>
        [exit' # "no" \/ Seen!ContextsNext]_<<live, cancelled, asked \cap {"http", "grpc"}>>
  <2> SUFFICES ASSUME LifecycleInv, CancelledFirst, [Next]_vars
               PROVE  \/ exit' # "no" \/ Seen!ContextsNext
                      \/ UNCHANGED <<live, cancelled, asked \cap {"http", "grpc"}>>
    OBVIOUS
  <2>0. at \in Nat /\ live \in BOOLEAN BY Length DEF LifecycleInv, TypeOK
  <2>1. CASE StartupFails \/ Killed \/ GraceExpires
    BY <2>1 DEF StartupFails, Killed, GraceExpires, Dies
  <2>2. CASE Startup
    BY <2>2 DEF Startup, InitCore, OpenDatabase, OpenCache, OpenBackend, StartRouter, StartServers,
                StartupStep, shutdownVars, watchVars
  <2>3. CASE Signal BY <2>3 DEF Signal, watchVars
  <2>4. ASSUME NEW s \in Servers, ServerNext(s)
        PROVE  Seen!ContextsNext \/ UNCHANGED <<live, cancelled, asked>>
    <3>1. CASE MarkFailed(s)
      <4>1. live' = FALSE /\ UNCHANGED <<cancelled, asked>> BY <3>1 DEF MarkFailed, WatchStep, shutdownVars
      <4>2. CASE live BY <4>1, <4>2 DEF Seen!ContextsNext, Seen!LivenessCancelled
      <4>3. CASE ~live BY <2>0, <4>1, <4>3
      <4> QED BY <4>2, <4>3
    <3>2. CASE ~MarkFailed(s)
      BY <2>4, <3>2 DEF ServerNext, BeginServing, StopsByItself, StopsWhenAsked, Report, WorkBegins,
                WorkEnds, ServerStep, WatchSelect, WatchStep, shutdownVars, watchVars
    <3> QED BY <3>1, <3>2
  <2>5. CASE ShutdownNext
    <3>1. CASE CancelMain
      BY <3>1 DEF CancelMain, watchVars, Seen!ContextsNext, Seen!ApplicationCancelled
    <3>2. CASE DrainOver BY <1>1, <2>0, <3>2, CallSeen DEF DrainOver, watchVars
    <3>3. CASE Advance
      <4>1. at > 1 /\ CallShutdown(at + 1) /\ UNCHANGED <<live, cancelled>>
        BY <2>0, <3>3, Length DEF Advance, Current, watchVars
      <4> QED BY <1>1, <2>0, <4>1, CallSeen DEF CancelledFirst
    <3>4. CASE Complete BY <3>4 DEF Complete
    <3> QED BY <2>5, <3>1, <3>2, <3>3, <3>4 DEF ShutdownNext
  <2>6. ASSUME NEW c \in Closer, Overrun(c) \/ Close(c) PROVE UNCHANGED <<live, cancelled, asked>>
    BY <2>6 DEF Overrun, Close, watchVars
  <2>7. CASE UNCHANGED vars BY <2>7 DEF vars
  <2> QED BY <2>1, <2>2, <2>3, <2>4, <2>5, <2>6, <2>7 DEF Next
<1> QED BY <1>2, <1>3, CancelledFirstHolds, ProcessSafe, PTL DEF Spec, ContextsFollowed

-----------------------------------------------------------------------------
(* A shutdown goes forward. *)

\* A step of a process that is not ended from outside: the shutdown stays where it is or goes
\* on by one component, and that only when the one it was at has returned; nothing it did -
\* the cancellation, the calls of Shutdown, what was closed or overran - is undone.
Onward ==
    /\ exit = "no"
    /\ exit' \in {"no", "completed"} =>
          /\ at' = at \/ (at' = at + 1 /\ (Current # "none" => Returns(Current)))
          /\ cancelled => cancelled'
          /\ asked \subseteq asked' /\ overran \subseteq overran' /\ closed \subseteq closed'
          /\ crashed \subseteq crashed' /\ (~live => ~live')

ShutdownAdvances == [][Onward]_vars

\* shutdown in main.go works down the closers one by one and never comes back to one, in
\* every race with servers that end, watchers, deadlines and late closers; and a process
\* that has ended does nothing any more.  The measure at, bounded by the number of closers,
\* is the safety half of ShutdownTerminates.
THEOREM ShutdownGoesForward == Spec => ShutdownAdvances
<1>1. ASSUME LifecycleInv, [Next]_vars PROVE [Onward]_vars
  <2> SUFFICES ASSUME Next PROVE Onward
    BY <1>1
  <2>0. at \in Nat /\ cancelled \in BOOLEAN /\ live \in BOOLEAN BY <1>1, Length DEF LifecycleInv, TypeOK
  <2>1. CASE StartupFails \/ Killed \/ GraceExpires
    BY <2>1 DEF StartupFails, Killed, GraceExpires, Dies, Onward
  <2>2. CASE Startup
    BY <2>2 DEF Startup, InitCore, OpenDatabase, OpenCache, OpenBackend, StartRouter, StartServers,
                StartupStep, serverVars, shutdownVars, watchVars, Onward
  <2>3. CASE Signal
    <3>1. Current = "none" BY <2>3 DEF Signal, Current
    <3> QED BY <2>3, <3>1 DEF Signal, serverVars, watchVars, Onward
  <2>4. ASSUME NEW s \in Servers, ServerNext(s) PROVE Onward
    BY <2>4 DEF ServerNext, BeginServing, StopsByItself, StopsWhenAsked, Report, WorkBegins, WorkEnds,
                ServerStep, WatchSelect, MarkFailed, WatchStep, shutdownVars, watchVars, Onward
  <2>5. CASE ShutdownNext
    <3>1. CASE CancelMain BY <3>1 DEF CancelMain, serverVars, watchVars, Onward
    <3>2. CASE DrainOver
      <4>1. Current = "none" BY <3>2 DEF DrainOver, Current
      <4> QED BY <3>2, <4>1 DEF DrainOver, CallShutdown, serverVars, watchVars, Onward
    <3>3. CASE Advance BY <3>3 DEF Advance, CallShutdown, serverVars, watchVars, Onward
    <3>4. CASE Complete BY <3>4 DEF Complete, serverVars, shutdownVars, watchVars, Onward
    <3> QED BY <2>5, <3>1, <3>2, <3>3, <3>4 DEF ShutdownNext
  <2>6. ASSUME NEW c \in Closer, Overrun(c) \/ Close(c) PROVE Onward
    BY <2>6 DEF Overrun, Close, serverVars, watchVars, Onward
  <2> QED BY <2>1, <2>2, <2>3, <2>4, <2>5, <2>6 DEF Next
<1> QED BY <1>1, ProcessSafe, PTL DEF Spec, ShutdownAdvances
=============================================================================
