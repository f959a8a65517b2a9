--------------------------- MODULE MCAccountLoader ---------------------------
EXTENDS AccountLoader

CONSTANTS s1, s2, a1

OneAccount == [s \in Subscribers |-> a1]

(* The account is created, or it changes.                                  *)
Created == <<[a \in Accounts |-> NoData], [a \in Accounts |-> "x"]>>
Changed == <<[a \in Accounts |-> "x"], [a \in Accounts |-> "y"]>>
CreatedOrChanged == {Created, Changed}
=============================================================================
