--------------------------- MODULE MCRetryTxSender ---------------------------
EXTENDS RetryTxSender

CONSTANTS c1, c2, c3

(* The third connection is another object with the second one's endpoint.  *)
Endpoints == [c \in Connections |-> IF c = c3 THEN c2 ELSE c]
=============================================================================
