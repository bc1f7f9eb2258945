----------------------------- MODULE EventRelay -----------------------------
(***************************************************************************)
(* What the outbox promises its producers, with no workers, transactions,  *)
(* locks, timeouts or clocks: an event that was stored with a business     *)
(* change reaches the broker at least once or is set aside as invalid, the *)
(* broker sees no event that was not stored, and an event is forgotten     *)
(* only after the broker has it.                                           *)
(***************************************************************************)
CONSTANT Messages

VARIABLES
    stage,     \* stage[m]: where the event is in its life
    accepted   \* the events the broker has accepted, perhaps several times

Stage == {"absent", "pending", "processed", "failed", "deleted"}

Init ==
    /\ stage = [m \in Messages |-> "absent"]
    /\ accepted = {}

In(s) == {m \in Messages : stage[m] = s}

\* The business transaction that stored m committed.
Store(m) ==
    /\ stage[m] = "absent"
    /\ stage' = [stage EXCEPT ![m] = "pending"]
    /\ UNCHANGED accepted

\* The broker accepts a stored event, for the first time or again.
Accept(m) ==
    /\ stage[m] # "absent"
    /\ accepted' = accepted \cup {m}
    /\ UNCHANGED stage

\* One run settles some events: D were delivered, F are invalid.
Settle(D, F) ==
    /\ D \subseteq In("pending") \cap accepted
    /\ F \subseteq In("pending")
    /\ stage' = [m \in Messages |-> IF m \in F THEN "failed"
                                    ELSE IF m \in D THEN "processed" ELSE stage[m]]
    /\ UNCHANGED accepted

\* Delivered events are removed from the table.
Forget(D) ==
    /\ D \subseteq In("processed")
    /\ stage' = [m \in Messages |-> IF m \in D THEN "deleted" ELSE stage[m]]
    /\ UNCHANGED accepted

Next ==
    \/ \E m \in Messages : Store(m) \/ Accept(m)
    \/ \E D, F \in SUBSET Messages : Settle(D, F)
    \/ \E D \in SUBSET Messages : Forget(D)

Spec == Init /\ [][Next]_<<stage, accepted>>

=============================================================================
