--------------------------- MODULE ApiTokensProofs --------------------------
(***************************************************************************)
(* Proof, for any number of tokens, replicas and requests and any size of  *)
(* the channel, that the swapped buffers forget no noted use and that      *)
(* last_used_at only advances, to times of real uses.                      *)
(***************************************************************************)
EXTENDS ApiTokens, TLAPS

\* Request q noted in replica r that token t was used at time w.
Noted(q, r, t, w) ==
    request[q].step = "noted" /\ request[q].replica = r /\ request[q].token = t /\ request[q].when = w

\* Token t was used at time w.
Used(t, w) == \E q \in Requests : request[q].step # "idle" /\ request[q].token = t /\ request[q].when = w

\* Replica r has that time of the token somewhere.
Holds(r, t, w) ==
    \/ \E k \in DOMAIN channel[r] : channel[r][k].token = t /\ channel[r][k].when = w
    \/ active[r][t] = w
    \/ sleeper[r][t] = w

\* Every time a replica holds is that of a use; 0 stands for none.
Provenance == \A r \in Replicas, t \in Tokens, w \in Times : Holds(r, t, w) => w = 0 \/ Used(t, w)

\* Nothing is left to write between two runs, and what is left is in the buffer.
RunInv ==
    /\ \A r \in Replicas : ~running[r] => todo[r] = {}
    /\ \A q \in Requests : request[q].step # "idle" => request[q].when >= 1

\* NoUseForgotten, spelled out.
Remembered ==
    \A q \in Requests, r \in up, t \in Tokens, w \in Times :
        Noted(q, r, t, w) => OnItsWay(r, t, w) \/ Settled(t, w)

TokensInv == TypeOK /\ Provenance /\ RunInv /\ Remembered

-----------------------------------------------------------------------------
(* The channel. *)

LEMMA Appended ==
    ASSUME NEW s \in Seq(Note), NEW e \in Note
    PROVE  /\ Append(s, e) \in Seq(Note) /\ Len(Append(s, e)) = Len(s) + 1
           /\ \E k \in DOMAIN Append(s, e) : Append(s, e)[k] = e
           /\ \A k \in DOMAIN s : k \in DOMAIN Append(s, e) /\ Append(s, e)[k] = s[k]
           /\ \A k \in DOMAIN Append(s, e) : Append(s, e)[k] = e \/ (k \in DOMAIN s /\ Append(s, e)[k] = s[k])
<1>1. Append(s, e) \in Seq(Note) /\ Len(Append(s, e)) = Len(s) + 1 OBVIOUS
<1>2. DOMAIN s = 1..Len(s) /\ DOMAIN Append(s, e) = 1..(Len(s) + 1) /\ Len(s) \in Nat OBVIOUS
<1>3. Append(s, e)[Len(s) + 1] = e OBVIOUS
<1>4. \A k \in 1..Len(s) : Append(s, e)[k] = s[k] OBVIOUS
<1> QED BY <1>1, <1>2, <1>3, <1>4

LEMMA Received ==
    ASSUME NEW s \in Seq(Note), s # <<>>
    PROVE  /\ Head(s) \in Note /\ Tail(s) \in Seq(Note) /\ Len(Tail(s)) = Len(s) - 1
           /\ \E k \in DOMAIN s : Head(s) = s[k]
           /\ \A k \in DOMAIN s : s[k] = Head(s) \/ \E j \in DOMAIN Tail(s) : Tail(s)[j] = s[k]
           /\ \A j \in DOMAIN Tail(s) : \E k \in DOMAIN s : s[k] = Tail(s)[j]
<1>1. Len(s) \in Nat /\ Len(s) >= 1 /\ DOMAIN s = 1..Len(s) OBVIOUS
<1>2. Head(s) = s[1] /\ s[1] \in Note /\ 1 \in DOMAIN s BY <1>1
<1>3. Tail(s) \in Seq(Note) /\ Len(Tail(s)) = Len(s) - 1 /\ DOMAIN Tail(s) = 1..(Len(s) - 1) BY <1>1
<1>4. \A j \in 1..(Len(s) - 1) : Tail(s)[j] = s[j + 1] BY <1>1
<1>5. \A j \in DOMAIN Tail(s) : j + 1 \in DOMAIN s /\ s[j + 1] = Tail(s)[j] BY <1>1, <1>3, <1>4
<1>6. ASSUME NEW k \in DOMAIN s PROVE s[k] = Head(s) \/ \E j \in DOMAIN Tail(s) : Tail(s)[j] = s[k]
  <2>1. CASE k = 1 BY <1>2, <2>1
  <2>2. CASE k # 1
    <3>1. k - 1 \in 1..(Len(s) - 1) /\ (k - 1) + 1 = k BY <1>1, <2>2
    <3> QED BY <1>3, <1>4, <3>1
  <2> QED BY <2>1, <2>2
<1> QED BY <1>2, <1>3, <1>5, <1>6

-----------------------------------------------------------------------------
(* What the steps have in common. *)

\* What a step does to the requests, and to no more than one of them.
LEMMA RequestSteps ==
    ASSUME TypeOK, [Next]_vars
    PROVE  \/ request' = request
           \/ \E q \in Requests, v \in {"noted", "dropped"} :
                request[q].step = "stamped" /\ request' = [request EXCEPT ![q].step = v]
           \/ \E q \in Requests, r \in Replicas, t \in Tokens :
                request[q].step = "idle" /\ Stamp(q, r, t)
<1>1. ASSUME NEW q \in Requests, Send(q)
      PROVE  \E v \in {"noted", "dropped"} : request[q].step = "stamped" /\ request' = [request EXCEPT ![q].step = v]
  BY <1>1 DEF Send
<1> QED BY <1>1 DEF Next, vars, Collect, Swap, Flush, Clear, Stop, Stamp

\* Uses are for good: a request is stamped once.
LEMMA UsedStays ==
    ASSUME TypeOK, [Next]_vars, NEW t, NEW w, Used(t, w)
    PROVE  Used(t, w)'
<1>1. PICK q \in Requests : request[q].step # "idle" /\ request[q].token = t /\ request[q].when = w BY DEF Used
<1>2. request'[q].step # "idle" /\ request'[q].token = t /\ request'[q].when = w
  <2>1. ASSUME NEW p \in Requests, NEW r \in Replicas, NEW u \in Tokens, request[p].step = "idle", Stamp(p, r, u)
        PROVE  request'[q] = request[q]
    BY <1>1, <2>1 DEF Stamp, TypeOK
  <2>2. ASSUME NEW p \in Requests, NEW v \in {"noted", "dropped"}, request' = [request EXCEPT ![p].step = v]
        PROVE  request'[q].step # "idle" /\ request'[q].token = t /\ request'[q].when = w
    BY <1>1, <2>2 DEF TypeOK
  <2> QED BY <1>1, <2>1, <2>2, RequestSteps
<1> QED BY <1>2 DEF Used

\* A replica that holds nothing new holds times of uses.
LEMMA ProvenanceStays ==
    ASSUME TypeOK, Provenance, [Next]_vars,
           \A r \in Replicas, t \in Tokens, w \in Times :
               Holds(r, t, w)' => w = 0 \/ Holds(r, t, w) \/ Used(t, w)
    PROVE  Provenance'
<1> SUFFICES ASSUME NEW r \in Replicas, NEW t \in Tokens, NEW w \in Times, Holds(r, t, w)', w # 0
             PROVE  Used(t, w)'
  BY DEF Provenance
<1> QED BY UsedStays DEF Provenance

\* What is not noted in this step was remembered, and must be passed on.
LEMMA PassedOn ==
    ASSUME TokensInv, up' \subseteq up,
           \A q \in Requests, r \in Replicas, t \in Tokens, w \in Times :
               Noted(q, r, t, w)' => Noted(q, r, t, w) \/ OnItsWay(r, t, w)',
           \A r \in up', t \in Tokens, w \in Times :
               w >= 1 /\ OnItsWay(r, t, w) => OnItsWay(r, t, w)' \/ Settled(t, w)',
           \A t \in Tokens, w \in Times : Settled(t, w) => Settled(t, w)'
    PROVE  Remembered'
<1> SUFFICES ASSUME NEW q \in Requests, NEW r \in up', NEW t \in Tokens, NEW w \in Times, Noted(q, r, t, w)'
             PROVE  OnItsWay(r, t, w)' \/ Settled(t, w)'
  BY DEF Remembered
<1>1. r \in up /\ r \in Replicas BY DEF TokensInv, TypeOK
<1>2. CASE Noted(q, r, t, w)
  <2>1. w >= 1 BY <1>2 DEF Noted, TokensInv, RunInv
  <2>2. OnItsWay(r, t, w) \/ Settled(t, w) BY <1>1, <1>2 DEF TokensInv, Remembered
  <2> QED BY <2>1, <2>2
<1> QED BY <1>1, <1>2

-----------------------------------------------------------------------------
(* The requests. *)

LEMMA StampStep ==
    ASSUME TokensInv, NEW q \in Requests, NEW r \in Replicas, NEW t \in Tokens, Stamp(q, r, t)
    PROVE  TokensInv'
<1> USE DEF TokensInv
<1>0. UNCHANGED <<channel, active, sleeper, todo, running, up, last, failed>> BY DEF Stamp
<1>1. clock + 1 \in Times /\ clock + 1 >= 1 BY DEF TypeOK, Times
<1>2. request'[q] = [step |-> "stamped", replica |-> r, token |-> t, when |-> clock + 1]
      /\ \A p \in Requests : p # q => request'[p] = request[p]
  BY DEF Stamp, TypeOK
<1>3. TypeOK' BY <1>0, <1>1 DEF Stamp, TypeOK
<1>4. RunInv' BY <1>0, <1>1, <1>2 DEF RunInv
<1>5. Provenance' BY <1>0, ProvenanceStays DEF Next, Holds
<1>6. \A p \in Requests, s \in Replicas, u \in Tokens, w \in Times : Noted(p, s, u, w)' => Noted(p, s, u, w)
  BY <1>2 DEF Noted
<1>7. Remembered' BY <1>0, <1>6, PassedOn DEF OnItsWay, Settled
<1> QED BY <1>3, <1>4, <1>5, <1>7

LEMMA SendStep ==
    ASSUME TokensInv, NEW q \in Requests, Send(q)
    PROVE  TokensInv'
<1> USE DEF TokensInv
<1>0. UNCHANGED <<clock, active, sleeper, todo, running, up, last, failed>> BY DEF Send
<1>1. PICK r \in Replicas : r = request[q].replica BY DEF TypeOK
<1>2. PICK e \in Note : e = [token |-> request[q].token, when |-> request[q].when] BY DEF TypeOK, Note
<1>3. request[q].step = "stamped" BY DEF Send
<1>4. \A t \in Tokens, w \in Times : Settled(t, w) => Settled(t, w)' BY <1>0 DEF Settled
<1>5. CASE channel' = channel /\ request' = [request EXCEPT ![q].step = "dropped"]
  <2>1. TypeOK' BY <1>0, <1>5 DEF TypeOK
  <2>2. RunInv' BY <1>0, <1>3, <1>5 DEF RunInv, TypeOK
  <2>3. Provenance' BY <1>0, <1>5, ProvenanceStays DEF Next, Holds
  <2>4. \A p \in Requests, s \in Replicas, u \in Tokens, w \in Times : Noted(p, s, u, w)' => Noted(p, s, u, w)
    BY <1>5 DEF Noted, TypeOK
  <2>5. Remembered' BY <1>0, <1>4, <1>5, <2>4, PassedOn DEF OnItsWay
  <2> QED BY <2>1, <2>2, <2>3, <2>5
<1>6. CASE /\ Len(channel[r]) < Capacity
           /\ channel' = [channel EXCEPT ![r] = Append(@, e)]
           /\ request' = [request EXCEPT ![q].step = "noted"]
  <2>0. channel[r] \in Seq(Note) /\ channel'[r] = Append(channel[r], e)
        /\ \A s \in Replicas : s # r => channel'[s] = channel[s]
    BY <1>6 DEF TypeOK
  <2>1. TypeOK'
    <3>1. channel' \in [Replicas -> Seq(Note)] BY <1>6, <2>0, Appended DEF TypeOK
    <3>2. Len(channel'[r]) <= Capacity
      <4>1. Len(channel[r]) \in Nat BY <2>0
      <4> QED BY <1>6, <2>0, <4>1, Appended, TokensAssumption
    <3>3. \A s \in Replicas : Len(channel'[s]) <= Capacity BY <2>0, <3>2 DEF TypeOK
    <3>4. request' \in [Requests -> [step: {"idle", "stamped", "noted", "dropped"}, replica: Replicas, token: Tokens, when: Times]]
      BY <1>6 DEF TypeOK
    <3> QED BY <1>0, <3>1, <3>3, <3>4 DEF TypeOK
  <2>2. RunInv' BY <1>0, <1>3, <1>6 DEF RunInv, TypeOK
  <2>3. Provenance'
    <3> SUFFICES ASSUME NEW s \in Replicas, NEW t \in Tokens, NEW w \in Times, Holds(s, t, w)'
                 PROVE  Holds(s, t, w) \/ Used(t, w)
      BY ProvenanceStays DEF Next
    <3>1. CASE s # r BY <1>0, <2>0, <3>1 DEF Holds
    <3>2. CASE s = r
      <4>1. CASE active'[s][t] = w \/ sleeper'[s][t] = w BY <1>0, <4>1 DEF Holds
      <4>2. ASSUME NEW k \in DOMAIN channel'[r], channel'[r][k].token = t, channel'[r][k].when = w
            PROVE  Holds(r, t, w) \/ Used(t, w)
        <5>1. CASE channel'[r][k] = e BY <1>2, <1>3, <4>2, <5>1 DEF Used
        <5>2. CASE k \in DOMAIN channel[r] /\ channel'[r][k] = channel[r][k] BY <4>2, <5>2 DEF Holds
        <5> QED BY <2>0, <4>2, <5>1, <5>2, Appended
      <4> QED BY <3>2, <4>1, <4>2 DEF Holds
    <3> QED BY <3>1, <3>2
  <2>4. ASSUME NEW p \in Requests, NEW s \in Replicas, NEW u \in Tokens, NEW w \in Times, Noted(p, s, u, w)'
        PROVE  Noted(p, s, u, w) \/ OnItsWay(s, u, w)'
    <3>1. CASE p # q BY <1>6, <2>4, <3>1 DEF Noted, TypeOK
    <3>2. CASE p = q
      <4>1. s = r /\ u = e.token /\ w = e.when BY <1>1, <1>2, <1>6, <2>4, <3>2 DEF Noted, TypeOK
      <4>2. PICK k \in DOMAIN channel'[r] : channel'[r][k] = e BY <2>0, Appended
      <4>3. channel'[r][k].token = u /\ channel'[r][k].when >= w BY <4>1, <4>2 DEF Times
      <4> QED BY <4>1, <4>2, <4>3 DEF OnItsWay
    <3> QED BY <3>1, <3>2
  <2>5. ASSUME NEW s \in Replicas, NEW u \in Tokens, NEW w \in Times, OnItsWay(s, u, w)
        PROVE  OnItsWay(s, u, w)'
    <3>1. CASE s # r BY <1>0, <2>0, <2>5, <3>1 DEF OnItsWay
    <3>2. CASE s = r BY <1>0, <2>0, <2>5, <3>2, Appended DEF OnItsWay
    <3> QED BY <3>1, <3>2
  <2>6. Remembered' BY <1>0, <1>4, <2>4, <2>5, PassedOn DEF TypeOK
  <2> QED BY <2>1, <2>2, <2>3, <2>6
<1> QED BY <1>1, <1>2, <1>5, <1>6 DEF Send

-----------------------------------------------------------------------------
(* The updater. *)

\* The collector keeps the later time of the two it has of a token.
LEMMA CollectStep ==
    ASSUME TokensInv, NEW r \in Replicas, Collect(r)
    PROVE  TokensInv'
<1> USE DEF TokensInv
<1>0. UNCHANGED <<clock, request, sleeper, todo, running, up, last, failed>> BY DEF Collect
<1>1. channel[r] \in Seq(Note) /\ channel[r] # <<>> BY DEF Collect, TypeOK
<1>2. PICK e \in Note : e = Head(channel[r]) BY <1>1, Received
<1>3. channel'[r] = Tail(channel[r]) /\ channel' = [channel EXCEPT ![r] = Tail(channel[r])]
      /\ \A s \in Replicas : s # r => channel'[s] = channel[s]
  BY DEF Collect, TypeOK
<1>4. e.token \in Tokens /\ e.when \in Times BY <1>2 DEF Note
<1>5. active' = [active EXCEPT ![r][e.token] = IF e.when > active[r][e.token] THEN e.when ELSE active[r][e.token]]
  BY <1>2 DEF Collect
<1>6. /\ \A s \in Replicas : s # r => active'[s] = active[s]
      /\ \A t \in Tokens : t # e.token => active'[r][t] = active[r][t]
      /\ active'[r][e.token] \in {e.when, active[r][e.token]}
      /\ active'[r][e.token] >= e.when /\ active'[r][e.token] >= active[r][e.token]
      /\ active' \in [Replicas -> [Tokens -> Times]]
  BY <1>4, <1>5 DEF TypeOK, Times
<1>7. TypeOK'
  <2>1. channel' \in [Replicas -> Seq(Note)] BY <1>1, <1>3, Received DEF TypeOK
  <2>2. Len(channel'[r]) <= Capacity
    <3>1. Len(channel[r]) \in Nat /\ Len(channel[r]) <= Capacity BY <1>1 DEF TypeOK
    <3> QED BY <1>1, <1>3, <3>1, Received, TokensAssumption
  <2>3. \A s \in Replicas : Len(channel'[s]) <= Capacity BY <1>3, <2>2 DEF TypeOK
  <2> QED BY <1>0, <1>6, <2>1, <2>3 DEF TypeOK
<1>8. RunInv' BY <1>0 DEF RunInv
<1>9. Provenance'
  <2> SUFFICES ASSUME NEW s \in Replicas, NEW t \in Tokens, NEW w \in Times, Holds(s, t, w)'
               PROVE  Holds(s, t, w)
    BY ProvenanceStays DEF Next
  <2>1. CASE s # r BY <1>0, <1>3, <1>6, <2>1 DEF Holds
  <2>2. CASE s = r
    <3>1. CASE sleeper'[s][t] = w BY <1>0, <3>1 DEF Holds
    <3>2. CASE active'[s][t] = w
      <4>1. CASE active[r][t] = w BY <2>2, <4>1 DEF Holds
      <4>2. CASE t = e.token /\ w = e.when BY <1>1, <1>2, <2>2, <4>2, Received DEF Holds
      <4> QED BY <1>6, <2>2, <3>2, <4>1, <4>2
    <3>3. ASSUME NEW j \in DOMAIN channel'[r], channel'[r][j].token = t, channel'[r][j].when = w
          PROVE  Holds(r, t, w)
      <4>1. PICK k \in DOMAIN channel[r] : channel[r][k] = channel'[r][j] BY <1>1, <1>3, <3>3, Received
      <4> QED BY <3>3, <4>1 DEF Holds
    <3> QED BY <2>2, <3>1, <3>2, <3>3 DEF Holds
  <2> QED BY <2>1, <2>2
<1>10. ASSUME NEW s \in Replicas, NEW t \in Tokens, NEW w \in Times, OnItsWay(s, t, w)
       PROVE  OnItsWay(s, t, w)'
  <2>1. CASE s # r BY <1>0, <1>3, <1>6, <1>10, <2>1 DEF OnItsWay
  <2>2. CASE s = r
    <3>1. CASE t \in todo[s] /\ sleeper[s][t] >= w BY <1>0, <3>1 DEF OnItsWay
    <3>2. CASE active[s][t] >= w
      <4>1. active'[r][t] \in Nat /\ active[r][t] \in Nat /\ w \in Nat BY <1>6 DEF TypeOK, Times
      <4>2. active'[r][t] >= active[r][t]
        <5>1. CASE t = e.token BY <1>6, <5>1
        <5>2. CASE t # e.token BY <1>6, <4>1, <5>2
        <5> QED BY <5>1, <5>2
      <4>3. active'[s][t] >= w BY <2>2, <3>2, <4>1, <4>2
      <4> QED BY <4>3 DEF OnItsWay
    <3>3. ASSUME NEW k \in DOMAIN channel[r], channel[r][k].token = t, channel[r][k].when >= w
          PROVE  OnItsWay(r, t, w)'
      <4>1. CASE channel[r][k] = e
        <5>1. active'[r][t] >= e.when /\ e.when >= w BY <1>6, <3>3, <4>1
        <5>2. active'[r][t] \in Nat /\ e.when \in Nat /\ w \in Nat BY <1>4, <1>6 DEF Times
        <5>3. active'[r][t] >= w BY <5>1, <5>2
        <5> QED BY <5>3 DEF OnItsWay
      <4>2. ASSUME NEW j \in DOMAIN channel'[r], channel'[r][j] = channel[r][k] PROVE OnItsWay(r, t, w)'
        BY <3>3, <4>2 DEF OnItsWay
      <4> QED BY <1>1, <1>2, <1>3, <3>3, <4>1, <4>2, Received
    <3> QED BY <1>10, <2>2, <3>1, <3>2, <3>3 DEF OnItsWay
  <2> QED BY <2>1, <2>2
<1>11. Remembered'
  <2>1. \A t \in Tokens, w \in Times : Settled(t, w) => Settled(t, w)' BY <1>0 DEF Settled
  <2>2. \A q \in Requests, s \in Replicas, t \in Tokens, w \in Times : Noted(q, s, t, w)' => Noted(q, s, t, w)
    BY <1>0 DEF Noted
  <2> QED BY <1>0, <1>10, <2>1, <2>2, PassedOn DEF TypeOK
<1> QED BY <1>7, <1>8, <1>9, <1>11

\* The swap puts every time of the active buffer on the list of what is to be written.
LEMMA SwapStep ==
    ASSUME TokensInv, NEW r \in Replicas, Swap(r)
    PROVE  TokensInv'
<1> USE DEF TokensInv
<1>0. UNCHANGED <<clock, request, channel, up, last, failed>> BY DEF Swap
<1>1. /\ active'[r] = sleeper[r] /\ sleeper'[r] = active[r]
      /\ todo'[r] = {t \in Tokens : active[r][t] # 0} /\ todo[r] = {} /\ running'[r] = TRUE
      /\ \A s \in Replicas : s # r => active'[s] = active[s] /\ sleeper'[s] = sleeper[s]
                                      /\ todo'[s] = todo[s] /\ running'[s] = running[s]
  BY DEF Swap, TypeOK, RunInv
<1>2. TypeOK' BY <1>0 DEF Swap, TypeOK
<1>3. RunInv' BY <1>0, <1>1 DEF RunInv
<1>4. Provenance'
  <2>1. \A s \in Replicas, t \in Tokens, w \in Times : Holds(s, t, w)' => Holds(s, t, w)
    BY <1>0, <1>1 DEF Holds
  <2> QED BY <2>1, ProvenanceStays DEF Next
<1>5. ASSUME NEW s \in Replicas, NEW t \in Tokens, NEW w \in Times, w >= 1, OnItsWay(s, t, w)
      PROVE  OnItsWay(s, t, w)'
  <2>1. CASE s # r BY <1>0, <1>1, <1>5, <2>1 DEF OnItsWay
  <2>2. CASE s = r /\ active[r][t] >= w
    <3>1. active[r][t] # 0 BY <1>5, <2>2 DEF TypeOK, Times
    <3> QED BY <1>1, <2>2, <3>1 DEF OnItsWay
  <2>3. CASE s = r /\ ~(active[r][t] >= w) BY <1>0, <1>1, <1>5, <2>3 DEF OnItsWay
  <2> QED BY <2>1, <2>2, <2>3
<1>6. Remembered'
  <2>1. \A t \in Tokens, w \in Times : Settled(t, w) => Settled(t, w)' BY <1>0 DEF Settled
  <2>2. \A q \in Requests, s \in Replicas, t \in Tokens, w \in Times : Noted(q, s, t, w)' => Noted(q, s, t, w)
    BY <1>0 DEF Noted
  <2> QED BY <1>0, <1>5, <2>1, <2>2, PassedOn DEF TypeOK
<1> QED BY <1>2, <1>3, <1>4, <1>6

\* What a write does to the row.
LEMMA WrittenRow ==
    ASSUME TypeOK, NEW t \in Tokens, NEW w \in Times, last' = UpdateTokenLastUsed(t, w)
    PROVE  /\ last' \in [Tokens -> Times]
           /\ \A u \in Tokens : last'[u] >= last[u]
           /\ last'[t] >= w
           /\ \A u \in Tokens : last'[u] # last[u] => u = t /\ last'[u] = w /\ last'[u] > last[u]
BY DEF TypeOK, UpdateTokenLastUsed, Times

\* A write settles its token's use, in the row or in the log.
LEMMA FlushStep ==
    ASSUME TokensInv, NEW r \in Replicas, Flush(r)
    PROVE  TokensInv'
<1> USE DEF TokensInv
<1>0. UNCHANGED <<clock, request, channel, active, sleeper, running, up>> BY DEF Flush
<1>1. PICK t \in todo[r] :
        /\ todo' = [todo EXCEPT ![r] = @ \ {t}]
        /\ \/ last' = UpdateTokenLastUsed(t, sleeper[r][t]) /\ UNCHANGED failed
           \/ failed' = failed \union {[token |-> t, when |-> sleeper[r][t]]} /\ UNCHANGED last
  BY DEF Flush
<1>2. t \in Tokens /\ sleeper[r][t] \in Times BY DEF TypeOK
<1>3. PICK v \in Times : v = sleeper[r][t] BY <1>2
<1>4. /\ last' \in [Tokens -> Times] /\ failed \subseteq failed' /\ failed' \subseteq Note
      /\ \A u \in Tokens : last'[u] >= last[u]
      /\ last'[t] >= v \/ [token |-> t, when |-> v] \in failed'
  <2>1. CASE last' = UpdateTokenLastUsed(t, v) /\ UNCHANGED failed
    BY <1>2, <2>1, WrittenRow DEF TypeOK
  <2>2. CASE failed' = failed \union {[token |-> t, when |-> v]} /\ UNCHANGED last
    <3>1. \A u \in Tokens : last[u] \in Nat BY DEF TypeOK, Times
    <3> QED BY <1>2, <2>2, <3>1 DEF TypeOK, Note
  <2> QED BY <1>1, <1>3, <2>1, <2>2
<1>5. todo' \in [Replicas -> SUBSET Tokens] /\ todo'[r] = todo[r] \ {t}
      /\ \A s \in Replicas : s # r => todo'[s] = todo[s]
  BY <1>1 DEF TypeOK
<1>6. TypeOK' BY <1>0, <1>4, <1>5 DEF TypeOK
<1>7. RunInv' BY <1>0, <1>5 DEF RunInv
<1>8. Provenance' BY <1>0, ProvenanceStays DEF Next, Holds
<1>9. ASSUME NEW s \in Replicas, NEW u \in Tokens, NEW w \in Times, OnItsWay(s, u, w)
      PROVE  OnItsWay(s, u, w)' \/ Settled(u, w)'
  <2>1. CASE s = r /\ u = t /\ sleeper[r][t] >= w
    <3>1. CASE last'[t] >= v
      <4>1. last'[t] \in Nat /\ v \in Nat /\ w \in Nat BY <1>2, <1>4 DEF Times
      <4>2. last'[t] >= w BY <1>3, <2>1, <3>1, <4>1
      <4> QED BY <2>1, <4>2 DEF Settled
    <3>2. CASE [token |-> t, when |-> v] \in failed'
      <4>1. \E n \in failed' : n.token = u /\ n.when >= w BY <1>3, <2>1, <3>2
      <4> QED BY <4>1 DEF Settled
    <3> QED BY <1>4, <3>1, <3>2
  <2>2. CASE ~(s = r /\ u = t /\ sleeper[r][t] >= w) BY <1>0, <1>5, <1>9, <2>2 DEF OnItsWay
  <2> QED BY <2>1, <2>2
<1>10. ASSUME NEW u \in Tokens, NEW w \in Times, Settled(u, w) PROVE Settled(u, w)'
  <2>1. CASE last[u] >= w
    <3>1. last'[u] \in Nat /\ last[u] \in Nat /\ w \in Nat BY <1>4 DEF TypeOK, Times
    <3>2. last'[u] >= w BY <1>4, <2>1, <3>1
    <3> QED BY <3>2 DEF Settled
  <2> QED BY <1>4, <1>10, <2>1 DEF Settled
<1>11. Remembered'
  <2>1. \A q \in Requests, s \in Replicas, u \in Tokens, w \in Times : Noted(q, s, u, w)' => Noted(q, s, u, w)
    BY <1>0 DEF Noted
  <2> QED BY <1>0, <1>9, <1>10, <2>1, PassedOn DEF TypeOK
<1> QED BY <1>6, <1>7, <1>8, <1>11

\* The deferred clear comes when nothing is left to write.
LEMMA ClearStep ==
    ASSUME TokensInv, NEW r \in Replicas, Clear(r)
    PROVE  TokensInv'
<1> USE DEF TokensInv
<1>0. UNCHANGED <<clock, request, channel, active, todo, up, last, failed>> /\ todo[r] = {} BY DEF Clear
<1>1. sleeper'[r] = NoUses /\ \A s \in Replicas : s # r => sleeper'[s] = sleeper[s] /\ running'[s] = running[s]
  BY DEF Clear, TypeOK
<1>2. NoUses \in [Tokens -> Times] /\ \A t \in Tokens : NoUses[t] = 0 BY DEF NoUses, Times
<1>3. TypeOK' BY <1>0, <1>2 DEF Clear, TypeOK
<1>4. RunInv' BY <1>0, <1>1 DEF RunInv
<1>5. Provenance'
  <2>1. \A s \in Replicas, t \in Tokens, w \in Times : Holds(s, t, w)' => w = 0 \/ Holds(s, t, w)
    BY <1>0, <1>1, <1>2 DEF Holds
  <2> QED BY <2>1, ProvenanceStays DEF Next
<1>6. \A s \in Replicas, t \in Tokens, w \in Times : OnItsWay(s, t, w) => OnItsWay(s, t, w)'
  BY <1>0, <1>1 DEF OnItsWay
<1>7. Remembered'
  <2>1. \A t \in Tokens, w \in Times : Settled(t, w) => Settled(t, w)' BY <1>0 DEF Settled
  <2>2. \A q \in Requests, s \in Replicas, t \in Tokens, w \in Times : Noted(q, s, t, w)' => Noted(q, s, t, w)
    BY <1>0 DEF Noted
  <2> QED BY <1>0, <1>6, <2>1, <2>2, PassedOn DEF TypeOK
<1> QED BY <1>3, <1>4, <1>5, <1>7

LEMMA StopStep ==
    ASSUME TokensInv, NEW r \in Replicas, Stop(r)
    PROVE  TokensInv'
<1> USE DEF TokensInv
<1>0. UNCHANGED <<clock, request, last, failed>> /\ up' = up \ {r} BY DEF Stop
<1>1. NoUses \in [Tokens -> Times] /\ \A t \in Tokens : NoUses[t] = 0 BY DEF NoUses, Times
<1>2. /\ channel'[r] = <<>> /\ active'[r] = NoUses /\ sleeper'[r] = NoUses /\ todo'[r] = {}
      /\ \A s \in Replicas : s # r => /\ channel'[s] = channel[s] /\ active'[s] = active[s]
                                      /\ sleeper'[s] = sleeper[s] /\ todo'[s] = todo[s]
                                      /\ running'[s] = running[s]
  BY DEF Stop, TypeOK
<1>3. TypeOK'
  <2>1. <<>> \in Seq(Note) /\ Len(<<>>) = 0 OBVIOUS
  <2>2. channel' \in [Replicas -> Seq(Note)] BY <2>1 DEF Stop, TypeOK
  <2>3. ASSUME NEW s \in Replicas PROVE Len(channel'[s]) <= Capacity
    <3>1. CASE s = r
      <4>1. Len(channel'[r]) = 0 BY <1>2, <2>1
      <4> QED BY <3>1, <4>1, TokensAssumption
    <3>2. CASE s # r BY <1>2, <3>2 DEF TypeOK
    <3> QED BY <3>1, <3>2
  <2> QED BY <1>0, <1>1, <2>2, <2>3 DEF Stop, TypeOK
<1>4. RunInv' BY <1>0, <1>2 DEF RunInv
<1>5. Provenance'
  <2>1. DOMAIN channel'[r] = {} BY <1>2
  <2>2. \A s \in Replicas, t \in Tokens, w \in Times : Holds(s, t, w)' => w = 0 \/ Holds(s, t, w)
    BY <1>1, <1>2, <2>1 DEF Holds
  <2> QED BY <2>2, ProvenanceStays DEF Next
<1>6. \A s \in up', t \in Tokens, w \in Times : OnItsWay(s, t, w) => OnItsWay(s, t, w)'
  BY <1>0, <1>2 DEF OnItsWay, TypeOK
<1>7. Remembered'
  <2>1. \A t \in Tokens, w \in Times : Settled(t, w) => Settled(t, w)' BY <1>0 DEF Settled
  <2>2. \A q \in Requests, s \in Replicas, t \in Tokens, w \in Times : Noted(q, s, t, w)' => Noted(q, s, t, w)
    BY <1>0 DEF Noted
  <2> QED BY <1>0, <1>6, <2>1, <2>2, PassedOn
<1> QED BY <1>3, <1>4, <1>5, <1>7

-----------------------------------------------------------------------------
LEMMA TokensInvariant == Spec => []TokensInv
<1>1. Init => TokensInv
  <2> SUFFICES ASSUME Init PROVE TokensInv OBVIOUS
  <2> USE DEF Init
  <2>1. NoUses \in [Tokens -> Times] /\ \A t \in Tokens : NoUses[t] = 0 BY DEF NoUses, Times
  <2>2. <<>> \in Seq(Note) /\ Len(<<>>) = 0 /\ DOMAIN <<>> = {} OBVIOUS
  <2>3. (CHOOSE r \in Replicas : TRUE) \in Replicas /\ (CHOOSE t \in Tokens : TRUE) \in Tokens BY TokensAssumption
  <2>4. TypeOK
    <3>1. 0 \in Times BY DEF Times
    <3>2. request \in [Requests -> [step: {"idle", "stamped", "noted", "dropped"}, replica: Replicas, token: Tokens, when: Times]]
      BY <2>3, <3>1
    <3>3. channel \in [Replicas -> Seq(Note)] /\ \A r \in Replicas : Len(channel[r]) <= Capacity
      BY <2>2, TokensAssumption
    <3> QED BY <2>1, <3>1, <3>2, <3>3 DEF TypeOK
  <2>5. RunInv /\ Remembered BY DEF RunInv, Remembered, Noted
  <2>6. Provenance BY <2>1, <2>2 DEF Provenance, Holds
  <2> QED BY <2>4, <2>5, <2>6 DEF TokensInv
<1>2. TokensInv /\ [Next]_vars => TokensInv'
  <2> SUFFICES ASSUME TokensInv, [Next]_vars PROVE TokensInv' OBVIOUS
  <2>1. CASE UNCHANGED vars
    BY <2>1 DEF vars, TokensInv, TypeOK, Provenance, RunInv, Remembered, Holds, Used, Noted, OnItsWay, Settled
  <2> QED BY <2>1, StampStep, SendStep, CollectStep, SwapStep, FlushStep, ClearStep, StopStep DEF Next
<1> QED BY <1>1, <1>2, PTL DEF Spec

\* The updater forgets no noted use of a replica that runs, whatever its buffers and the
\* writes of other replicas do.
THEOREM NothingForgotten == Spec => []NoUseForgotten
<1>1. TokensInv => NoUseForgotten BY DEF TokensInv, TypeOK, Remembered, NoUseForgotten, Noted
<1> QED BY <1>1, TokensInvariant, PTL

\* last_used_at of a token only advances, and only to the time of a use of that token.
THEOREM LastUseMonotone == Spec => LastUsedAdvances
<1>1. TokensInv /\ [Next]_vars =>
        [\A t \in Tokens : last'[t] # last[t] =>
           last'[t] > last[t] /\ \E q \in Requests : request[q].token = t /\ request[q].when = last'[t]]_vars
  <2> SUFFICES ASSUME TokensInv, Next, NEW t \in Tokens, last'[t] # last[t]
               PROVE  last'[t] > last[t] /\ \E q \in Requests : request[q].token = t /\ request[q].when = last'[t]
    OBVIOUS
  <2>1. PICK r \in Replicas : Flush(r) BY DEF Next, Stamp, Send, Collect, Swap, Clear, Stop
  <2>2. PICK u \in todo[r] : last' = UpdateTokenLastUsed(u, sleeper[r][u]) BY <2>1 DEF Flush
  <2>3. u \in Tokens /\ sleeper[r][u] \in Times BY DEF TokensInv, TypeOK
  <2>4. u = t /\ last'[t] = sleeper[r][t] /\ last'[t] > last[t]
    BY <2>2, <2>3, WrittenRow DEF TokensInv
  <2>5. last'[t] # 0 BY <2>3, <2>4 DEF TokensInv, TypeOK, Times
  <2>6. Used(t, sleeper[r][t]) BY <2>3, <2>4, <2>5 DEF TokensInv, Provenance, Holds
  <2> QED BY <2>4, <2>6 DEF Used
<1> QED BY <1>1, TokensInvariant, PTL DEF Spec, LastUsedAdvances
=============================================================================
