------------------------------- MODULE TxSend -------------------------------
(***************************************************************************)
(* What TxSender.send promises its caller about one transaction: copies of *)
(* it go out only while the call is unanswered, the answer is given once   *)
(* and never taken back, "ok" means that the transaction is on chain (a    *)
(* failure tells nothing), and once a node has accepted the transaction    *)
(* the caller does get an answer.                                          *)
(***************************************************************************)
EXTENDS Naturals

VARIABLES
    copies,     \* how many times the transaction was handed to the network
    accepted,   \* a node has acknowledged the first copy
    landed,     \* the transaction is on chain
    answer      \* "none" while the call runs, then "ok" or "failed"

vars == <<copies, accepted, landed, answer>>

Init == copies = 0 /\ ~ accepted /\ ~ landed /\ answer = "none"

Emit ==
    /\ answer = "none"
    /\ copies' > copies
    /\ UNCHANGED <<accepted, landed, answer>>

(* The node acknowledges; more copies may go out in the same step, and     *)
(* waiting for the confirmation may fail before it begins.                 *)
Accept ==
    /\ answer = "none" /\ ~ accepted
    /\ accepted' = TRUE
    /\ copies > 0 /\ copies' >= copies
    /\ answer' \in {"none", "failed"}
    /\ UNCHANGED landed

Land ==
    /\ copies > 0
    /\ landed' = TRUE
    /\ UNCHANGED <<copies, accepted, answer>>

(* The call fails before a node has acknowledged anything.                 *)
Refuse ==
    /\ answer = "none" /\ ~ accepted
    /\ answer' = "failed"
    /\ UNCHANGED <<copies, accepted, landed>>

Reply ==
    /\ answer = "none" /\ accepted
    /\ \/ answer' = "ok" /\ landed
       \/ answer' = "failed"
    /\ UNCHANGED <<copies, accepted, landed>>

Next == Emit \/ Accept \/ Land \/ Refuse \/ Reply

Spec == Init /\ [][Next]_vars /\ WF_vars(Reply)
=============================================================================
