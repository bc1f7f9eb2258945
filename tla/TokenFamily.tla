---------------------------- MODULE TokenFamily -----------------------------
(***************************************************************************)
(* What a login session promises: it is a family of single-use refresh     *)
(* tokens.  A family is not yet issued (0), usable with its n-th token (n), *)
(* or dead.  Each token is exchanged once for its successor, and nothing - *)
(* no replay, race, password change or cleanup - revives a dead family.    *)
(***************************************************************************)
EXTENDS Naturals

CONSTANTS Sessions, MaxToken, Dead

VARIABLE family

Unissued == 0

Init == family = [s \in Sessions |-> Unissued]

\* A login; its family is dead at once if the credentials changed meanwhile.
Issue(s) ==
    /\ family[s] = Unissued
    /\ \E f \in {1, Dead} : family' = [family EXCEPT ![s] = f]

Exchange(s) ==
    /\ family[s] \in 1..(MaxToken - 1)
    /\ family' = [family EXCEPT ![s] = @ + 1]

\* Logout, replay, expiry, or a change of the account kills families.
Kill ==
    \E K \in SUBSET {s \in Sessions : family[s] # Unissued} :
      family' = [s \in Sessions |-> IF s \in K THEN Dead ELSE family[s]]

Next == Kill \/ \E s \in Sessions : Issue(s) \/ Exchange(s)

Spec == Init /\ [][Next]_family

=============================================================================
