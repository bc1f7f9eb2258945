------------------------------ MODULE ApiTokens ------------------------------
(***************************************************************************)
(* The last use of API tokens: requests note it in a bounded channel, a    *)
(* collector goroutine gathers the channel in the updater's active buffer, *)
(* and on every tick the updater swaps its two buffers and writes the one  *)
(* put aside to the database, one transaction per token.  Several          *)
(* replicas write the same rows.                                           *)
(***************************************************************************)
EXTENDS Naturals, Sequences

CONSTANTS
    Tokens,     \* rows of auth_api_tokens
    Replicas,   \* processes
    Requests,   \* authentications with a token
    Capacity    \* size of tokensUsedChan

ASSUME TokensAssumption == Capacity \in Nat \ {0} /\ Tokens # {} /\ Replicas # {}

VARIABLES
    clock,      \* the clock's readings so far
    request,    \* request -> where it is, its replica, token and reading
    channel,    \* replica -> tokensUsedChan
    active,     \* replica -> activeBuffer: token -> time, 0 where it has none
    sleeper,    \* replica -> sleeperBuffer
    todo,       \* replica -> the tokens run has yet to write
    running,    \* replica -> run is between its swap and its clear
    up,         \* replicas whose context is not cancelled
    last,       \* token -> last_used_at, 0 for NULL
    failed      \* the notes whose update failed; the error was logged

vars == <<clock, request, channel, active, sleeper, todo, running, up, last, failed>>

Times  == Nat
NoUses == [t \in Tokens |-> 0]
Note   == [token: Tokens, when: Times]

TypeOK ==
    /\ clock \in Times
    /\ request \in [Requests -> [step: {"idle", "stamped", "noted", "dropped"}, replica: Replicas, token: Tokens, when: Times]]
    /\ channel \in [Replicas -> Seq(Note)] /\ \A r \in Replicas : Len(channel[r]) <= Capacity
    /\ active \in [Replicas -> [Tokens -> Times]] /\ sleeper \in [Replicas -> [Tokens -> Times]]
    /\ todo \in [Replicas -> SUBSET Tokens] /\ running \in [Replicas -> BOOLEAN]
    /\ up \subseteq Replicas
    /\ last \in [Tokens -> Times] /\ failed \subseteq Note

Init ==
    /\ clock = 0
    /\ request = [q \in Requests |-> [step |-> "idle", replica |-> CHOOSE r \in Replicas : TRUE,
                                       token |-> CHOOSE t \in Tokens : TRUE, when |-> 0]]
    /\ channel = [r \in Replicas |-> <<>>]
    /\ active = [r \in Replicas |-> NoUses] /\ sleeper = [r \in Replicas |-> NoUses]
    /\ todo = [r \in Replicas |-> {}] /\ running = [r \in Replicas |-> FALSE]
    /\ up = Replicas
    /\ last = NoUses /\ failed = {}

-----------------------------------------------------------------------------
(* validateAPIToken of a valid token: the time is read before the send. *)

Stamp(q, r, t) ==
    /\ request[q].step = "idle" /\ r \in up
    /\ clock' = clock + 1
    /\ request' = [request EXCEPT ![q] = [step |-> "stamped", replica |-> r, token |-> t, when |-> clock + 1]]
    /\ UNCHANGED <<channel, active, sleeper, todo, running, up, last, failed>>

\* The send does not wait: a full channel drops the note.
Send(q) ==
    /\ request[q].step = "stamped"
    /\ LET r == request[q].replica
       IN  \/ /\ Len(channel[r]) < Capacity
              /\ channel' = [channel EXCEPT ![r] = Append(@, [token |-> request[q].token, when |-> request[q].when])]
              /\ request' = [request EXCEPT ![q].step = "noted"]
           \/ /\ Len(channel[r]) = Capacity
              /\ request' = [request EXCEPT ![q].step = "dropped"]
              /\ UNCHANGED channel
    /\ UNCHANGED <<clock, active, sleeper, todo, running, up, last, failed>>

-----------------------------------------------------------------------------
(* TokenLastUsedUpdater. *)

\* Mutant: the latest note wins, whatever its time.
CollectAny(r) ==
    /\ r \in up /\ channel[r] # <<>>
    /\ LET e == Head(channel[r])
       IN  active' = [active EXCEPT ![r][e.token] = e.when]
    /\ channel' = [channel EXCEPT ![r] = Tail(@)]
    /\ UNCHANGED <<clock, request, sleeper, todo, running, up, last, failed>>

\* The collector goroutine, under the lock: it keeps the later time.
Collect(r) ==
    /\ r \in up /\ channel[r] # <<>>
    /\ LET e == Head(channel[r])
       IN  active' = [active EXCEPT ![r][e.token] = IF e.when > @ THEN e.when ELSE @]
    /\ channel' = [channel EXCEPT ![r] = Tail(@)]
    /\ UNCHANGED <<clock, request, sleeper, todo, running, up, last, failed>>

\* Mutant: the buffers stay where they are.
SwapNot(r) ==
    /\ r \in up /\ ~running[r]
    /\ todo' = [todo EXCEPT ![r] = {t \in Tokens : sleeper[r][t] # 0}]
    /\ running' = [running EXCEPT ![r] = TRUE]
    /\ UNCHANGED <<clock, request, channel, active, sleeper, up, last, failed>>

\* A tick: run swaps the buffers under the lock.
Swap(r) ==
    /\ r \in up /\ ~running[r]
    /\ active' = [active EXCEPT ![r] = sleeper[r]]
    /\ sleeper' = [sleeper EXCEPT ![r] = active[r]]
    /\ todo' = [todo EXCEPT ![r] = {t \in Tokens : active[r][t] # 0}]
    /\ running' = [running EXCEPT ![r] = TRUE]
    /\ UNCHANGED <<clock, request, channel, up, last, failed>>

\* Mutant: the row is written without comparing.
UpdateTokenLastUsedAlways(t, when) == [last EXCEPT ![t] = when]

\* UpdateTokenLastUsed: an older or repeated time changes nothing.
UpdateTokenLastUsed(t, when) == [last EXCEPT ![t] = IF @ < when THEN when ELSE @]

\* One iteration of run: a transaction for one token, which may fail.
Flush(r) ==
    /\ r \in up
    /\ \E t \in todo[r] :
          /\ todo' = [todo EXCEPT ![r] = @ \ {t}]
          /\ \/ last' = UpdateTokenLastUsed(t, sleeper[r][t]) /\ UNCHANGED failed
             \/ failed' = failed \union {[token |-> t, when |-> sleeper[r][t]]} /\ UNCHANGED last
    /\ UNCHANGED <<clock, request, channel, active, sleeper, running, up>>

\* The deferred clear.
Clear(r) ==
    /\ r \in up /\ running[r] /\ todo[r] = {}
    /\ sleeper' = [sleeper EXCEPT ![r] = NoUses]
    /\ running' = [running EXCEPT ![r] = FALSE]
    /\ UNCHANGED <<clock, request, channel, active, todo, up, last, failed>>

\* The context is cancelled, or the process dies: both goroutines return, and what was
\* not written is gone.
Stop(r) ==
    /\ r \in up
    /\ up' = up \ {r}
    /\ channel' = [channel EXCEPT ![r] = <<>>]
    /\ active' = [active EXCEPT ![r] = NoUses] /\ sleeper' = [sleeper EXCEPT ![r] = NoUses]
    /\ todo' = [todo EXCEPT ![r] = {}] /\ running' = [running EXCEPT ![r] = FALSE]
    /\ UNCHANGED <<clock, request, last, failed>>

Next ==
    \/ \E q \in Requests, r \in Replicas, t \in Tokens : Stamp(q, r, t)
    \/ \E q \in Requests : Send(q)
    \/ \E r \in Replicas : Collect(r) \/ Swap(r) \/ Flush(r) \/ Clear(r) \/ Stop(r)

Spec == Init /\ [][Next]_vars

\* The two goroutines are scheduled and the ticker ticks.
FairSpec ==
    /\ Spec
    /\ \A r \in Replicas : WF_vars(Collect(r)) /\ WF_vars(Swap(r)) /\ WF_vars(Flush(r)) /\ WF_vars(Clear(r))

-----------------------------------------------------------------------------
(* Properties. *)

\* A note of token t not older than when is still on its way in replica r.
OnItsWay(r, t, when) ==
    \/ \E k \in DOMAIN channel[r] : channel[r][k].token = t /\ channel[r][k].when >= when
    \/ active[r][t] >= when
    \/ t \in todo[r] /\ sleeper[r][t] >= when

\* The use is in the database, or its update failed and was logged.
Settled(t, when) == last[t] >= when \/ \E n \in failed : n.token = t /\ n.when >= when

\* A use that was noted is never forgotten, whatever the swap of the buffers interleaves
\* with: as long as its replica runs it is on its way, written, overtaken by a later use,
\* or its update was reported as failed.
NoUseForgotten ==
    \A q \in Requests : LET n == request[q] IN
        n.step = "noted" /\ n.replica \in up => OnItsWay(n.replica, n.token, n.when) \/ Settled(n.token, n.when)

\* last_used_at never goes back, and is always the time of a use of that token, although
\* replicas write it from buffers of different ages.
LastUsedAdvances ==
    [][\A t \in Tokens : last'[t] # last[t] =>
          last'[t] > last[t] /\ \E q \in Requests : request[q].token = t /\ request[q].when = last'[t]]_vars

\* A noted use reaches the database, or its failure the log, unless its replica stops.
UsesAreWritten ==
    \A q \in Requests : request[q].step = "noted" ~>
        Settled(request[q].token, request[q].when) \/ request[q].replica \notin up
=============================================================================
