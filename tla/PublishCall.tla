---------------------------- MODULE PublishCall -----------------------------
(***************************************************************************)
(* What Router.Publish tells its caller about one message: "nil" means the *)
(* broker has it; "capacity" that the broker never saw it and never will;  *)
(* after an error of the broker or of the context it may have it, or take  *)
(* it later.                                                               *)
(***************************************************************************)
CONSTANTS Calls

VARIABLES ret, accepted

Answer == {"nil", "capacity", "error", "ctx"}

Init == ret = [c \in Calls |-> "none"] /\ accepted = {}

Accept(c) ==
    /\ ret[c] # "capacity"
    /\ accepted' = accepted \cup {c}
    /\ UNCHANGED ret

Return(c, a) ==
    /\ ret[c] = "none"
    /\ a = "nil" => c \in accepted
    /\ a = "capacity" => c \notin accepted
    /\ ret' = [ret EXCEPT ![c] = a]
    /\ UNCHANGED accepted

Next == \E c \in Calls : Accept(c) \/ \E a \in Answer : Return(c, a)

Spec == Init /\ [][Next]_<<ret, accepted>>

=============================================================================
