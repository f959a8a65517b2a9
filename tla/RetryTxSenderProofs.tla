------------------------ MODULE RetryTxSenderProofs ------------------------
(***************************************************************************)
(* RetryTxSender keeps TxSend's promise step by step, and leaves no        *)
(* listener behind, for any set of connections, any timeout and sleep and  *)
(* any subscription ids.                                                   *)
(***************************************************************************)
EXTENDS RetryTxSender, FiniteSetTheorems, TLAPS

USE DEF Undefined

(* What the fields can hold.                                               *)
SenderTypes ==
    /\ additionalConnections \subseteq Connections
    /\ pc \in {"called", "sending", "confirming", "answered"}
    /\ txid \in BOOLEAN /\ done \in BOOLEAN /\ landed \in BOOLEAN
    /\ retry \in [running : BOOLEAN, sleep : Nat]
    /\ unanswered \in Nat /\ copies \in Nat
    /\ subscriptionIds \in [Connections -> Int]
    /\ listeners \in [Connections -> SUBSET Nat]
    /\ next_id \in [Connections -> Nat]
    /\ answer \in {"none", "ok", "failed"}

(* Where the call is and what the retry loop, the listeners and the        *)
(* caller know about it.                                                   *)
SenderInv ==
    /\ SenderTypes
    /\ answer # "none" <=> pc = "answered"
    /\ pc \in {"called", "sending"} => ~ txid
    /\ pc \in {"called", "sending"} => ~ retry.running
    /\ pc = "confirming" => txid /\ copies > 0
    /\ pc = "sending" => copies > 0
    /\ pc = "answered" => done \/ ~ retry.running
    /\ pc \in {"called", "sending"} => \A c \in Connections : listeners[c] = {}
    /\ pc = "confirming" => \A c \in Connections : listeners[c] \subseteq {subscriptionIds[c]}
    /\ pc = "answered" => \A c \in Connections : listeners[c] \subseteq {0}

-----------------------------------------------------------------------------
(* Sending to every additional connection adds a number of copies.         *)
LEMMA ConnectionsCounted ==
    ASSUME additionalConnections \subseteq Connections
    PROVE  Cardinality(additionalConnections) \in Nat
BY SenderAssumption, FS_Subset, FS_CardinalityType DEF SenderAssumption

(* confirmTransaction's finally leaves at most the listener with id 0 of   *)
(* the one listener a connection got from it.                              *)
LEMMA FinallyRemoves ==
    ASSUME NEW ids \in [Connections -> Int], NEW of \in [Connections -> SUBSET Nat],
           \A c \in Connections : of[c] \subseteq {ids[c]}
    PROVE  /\ removeSignatureListeners(ids, of) \in [Connections -> SUBSET Nat]
           /\ \A c \in Connections : removeSignatureListeners(ids, of)[c] \subseteq {0}
<1>1. ASSUME NEW c \in Connections
      PROVE  /\ removeSignatureListeners(ids, of)[c] \in SUBSET Nat
             /\ removeSignatureListeners(ids, of)[c] \subseteq {0}
  BY DEF removeSignatureListeners
<1>. QED  BY <1>1 DEF removeSignatureListeners

LEMMA SenderInit == Init => SenderInv
<1>. SUFFICES ASSUME Init PROVE SenderInv
  OBVIOUS
<1>. USE DEF Init
<1>1. next_id \in [Connections -> Nat]
  BY SenderAssumption DEF SenderAssumption
<1>2. retry \in [running : BOOLEAN, sleep : Nat] /\ ~ retry.running
  BY DEF Idle
<1>3. /\ subscriptionIds \in [Connections -> Int]
      /\ listeners \in [Connections -> SUBSET Nat]
      /\ \A c \in Connections : listeners[c] = {}
  OBVIOUS
<1>4. SenderTypes
  BY <1>1, <1>2, <1>3 DEF SenderTypes
<1>. QED  BY <1>2, <1>3, <1>4 DEF SenderInv

(* The first acknowledgement: the listeners it registers carry the ids it  *)
(* remembers, and are gone again when one of them could not be registered. *)
LEMMA AcknowledgedKeeps == SenderInv /\ FirstSendAcknowledged => SenderInv'
<1>. SUFFICES ASSUME SenderInv, FirstSendAcknowledged PROVE SenderInv'
  OBVIOUS
<1>. USE DEF SenderInv, SenderTypes
<1>1. PICK throwing \in SUBSET ({provider} \cup additionalConnections) :
          LET listening == ({provider} \cup additionalConnections) \ throwing
              ids == [c \in Connections |-> IF c \in listening THEN next_id[c] ELSE Undefined]
              of == [c \in Connections |-> listeners[c] \cup IF c \in listening THEN {next_id[c]} ELSE {}]
          IN /\ pc = "sending"
             /\ copies' = copies + Cardinality(additionalConnections)
             /\ txid' = TRUE
             /\ retry' = retry_loop(FALSE)
             /\ wait' = Timeout
             /\ subscriptionIds' = ids
             /\ next_id' = [c \in Connections |-> IF c \in listening THEN next_id[c] + 1 ELSE next_id[c]]
             /\ \/ /\ throwing = {}
                   /\ pc' = "confirming" /\ listeners' = of
                   /\ UNCHANGED <<done, answer>>
                \/ throwing # {} /\ confirm_fails(ids, of)
             /\ UNCHANGED <<additionalConnections, age, unanswered, landed>>
  BY DEF FirstSendAcknowledged
<1>. DEFINE listening == ({provider} \cup additionalConnections) \ throwing
            ids == [c \in Connections |-> IF c \in listening THEN next_id[c] ELSE Undefined]
            of == [c \in Connections |-> listeners[c] \cup IF c \in listening THEN {next_id[c]} ELSE {}]
<1>2. /\ ids \in [Connections -> Int] /\ of \in [Connections -> SUBSET Nat]
      /\ \A c \in Connections : of[c] \subseteq {ids[c]}
  BY <1>1
<1>3. next_id' \in [Connections -> Nat] /\ subscriptionIds' \in [Connections -> Int]
  BY <1>1
<1>4. copies' \in Nat /\ copies' > 0
  BY <1>1, ConnectionsCounted
<1>5. retry' \in [running : BOOLEAN, sleep : Nat]
  BY <1>1, SenderAssumption DEF retry_loop, Idle, SenderAssumption
<1>6. CASE pc' = "confirming" /\ listeners' = of /\ UNCHANGED <<done, answer>>
  BY <1>1, <1>2, <1>3, <1>4, <1>5, <1>6
<1>7. CASE confirm_fails(ids, of)
  <2>1. /\ listeners' \in [Connections -> SUBSET Nat]
        /\ \A c \in Connections : listeners'[c] \subseteq {0}
    BY <1>2, <1>7, FinallyRemoves DEF confirm_fails
  <2>2. pc' = "answered" /\ answer' = "failed" /\ done' = TRUE
    BY <1>7 DEF confirm_fails, settle
  <2>. QED  BY <1>1, <1>3, <1>4, <1>5, <2>1, <2>2
<1>. QED  BY <1>1, <1>6, <1>7

(* A notice takes its listener away and, when it is the one the call waits *)
(* for, the call's other listeners too.                                    *)
LEMMA NoticeKeeps == ASSUME SenderInv, NEW c \in Connections, Notice(c) PROVE SenderInv'
<1>. USE DEF SenderInv, SenderTypes
<1>1. PICK id \in listeners[c] :
          LET others == [listeners EXCEPT ![c] = @ \ {id}]
              ids == [subscriptionIds EXCEPT ![c] = Undefined]
          IN /\ landed
             /\ subscriptionIds' = ids
             /\ \/ /\ pc = "confirming"
                   /\ listeners' = removeSignatureListeners(ids, others)
                   /\ settle("ok")
                \/ /\ pc = "answered"
                   /\ listeners' = others
                   /\ UNCHANGED <<pc, answer, done>>
             /\ UNCHANGED <<additionalConnections, retry, age, wait, unanswered,
                            txid, next_id, copies, landed>>
  BY DEF Notice
<1>. DEFINE others == [listeners EXCEPT ![c] = @ \ {id}]
            ids == [subscriptionIds EXCEPT ![c] = Undefined]
<1>2. ids \in [Connections -> Int] /\ others \in [Connections -> SUBSET Nat]
  OBVIOUS
<1>3. CASE pc = "confirming" /\ listeners' = removeSignatureListeners(ids, others) /\ settle("ok")
  <2>1. \A d \in Connections : others[d] \subseteq {ids[d]}
    BY <1>3
  <2>2. /\ listeners' \in [Connections -> SUBSET Nat]
        /\ \A d \in Connections : listeners'[d] \subseteq {0}
    BY <1>2, <1>3, <2>1, FinallyRemoves
  <2>. QED  BY <1>1, <1>2, <1>3, <2>2 DEF settle
<1>4. CASE pc = "answered" /\ listeners' = others /\ UNCHANGED <<pc, answer, done>>
  <2>1. \A d \in Connections : others[d] \subseteq {0}
    BY <1>4
  <2>. QED  BY <1>1, <1>2, <1>4, <2>1
<1>. QED  BY <1>1, <1>3, <1>4

LEMMA TimesOutKeeps == SenderInv /\ ConfirmTimesOut => SenderInv'
<1>. SUFFICES ASSUME SenderInv, ConfirmTimesOut PROVE SenderInv'
  OBVIOUS
<1>1. /\ listeners' \in [Connections -> SUBSET Nat]
      /\ \A d \in Connections : listeners'[d] \subseteq {0}
  BY FinallyRemoves DEF ConfirmTimesOut, SenderInv, SenderTypes
<1>. QED  BY <1>1 DEF ConfirmTimesOut, settle, SenderInv, SenderTypes

LEMMA WakesKeeps == SenderInv /\ RetryWakes => SenderInv'
<1>. SUFFICES ASSUME SenderInv, RetryWakes PROVE SenderInv'
  OBVIOUS
<1>. USE DEF SenderInv, SenderTypes, RetryWakes
<1>1. retry' \in [running : BOOLEAN, sleep : Nat] /\ (done => ~ retry'.running)
  BY SenderAssumption DEF retry_loop, Idle, SenderAssumption
<1>2. copies' \in Nat /\ unanswered' \in Nat /\ copies' >= copies
  BY ConnectionsCounted
<1>. QED  BY <1>1, <1>2

(* No step of the call, its loop, the nodes or the clock breaks SenderInv. *)
LEMMA SenderNext == SenderInv /\ [Next]_vars => SenderInv'
<1>. SUFFICES ASSUME SenderInv, [Next]_vars PROVE SenderInv'
  OBVIOUS
<1>1. CASE Prepared
  BY <1>1 DEF Prepared, SenderInv, SenderTypes
<1>2. CASE FirstSendFails
  BY <1>2 DEF FirstSendFails, SenderInv, SenderTypes
<1>3. CASE FirstSendAcknowledged
  BY <1>3, AcknowledgedKeeps
<1>4. CASE \E c \in Connections : Notice(c)
  BY <1>4, NoticeKeeps
<1>5. CASE ConfirmTimesOut
  BY <1>5, TimesOutKeeps
<1>6. CASE RetryWakes
  BY <1>6, WakesKeeps
<1>7. CASE ResendAcknowledged
  BY <1>7 DEF ResendAcknowledged, SenderInv, SenderTypes
<1>8. CASE ResendRejected
  BY <1>8 DEF ResendRejected, SenderInv, SenderTypes
<1>9. CASE \E c \in Connections : addAdditionalConnection(c)
  BY <1>9 DEF addAdditionalConnection, SenderInv, SenderTypes
<1>10. CASE Land
  BY <1>10 DEF Land, SenderInv, SenderTypes
<1>11. CASE Tick
  BY <1>11 DEF Tick, CountDown, SenderInv, SenderTypes
<1>12. CASE UNCHANGED vars
  BY <1>12 DEF vars, SenderInv, SenderTypes
<1>. QED  BY <1>1, <1>2, <1>3, <1>4, <1>5, <1>6, <1>7, <1>8, <1>9, <1>10, <1>11, <1>12 DEF Next

LEMMA SenderAlways == Spec => []SenderInv
BY SenderInit, SenderNext, PTL DEF Spec

(* Whatever the order of notices, rejections, retries and the timeout, a   *)
(* call that has answered has no listener left on any connection but one   *)
(* with the id 0.                                                          *)
THEOREM ListenersGone == Spec => []ListenersRemoved
<1>1. SenderInv => ListenersRemoved
  BY DEF SenderInv, ListenersRemoved
<1>. QED  BY <1>1, SenderAlways, PTL

-----------------------------------------------------------------------------
(* Every step of the sender is a step of TxSend or changes nothing of it.  *)
LEMMA StepSends == SenderInv /\ [Next]_vars => [Sends!Next]_(Sends!vars)
<1>. SUFFICES ASSUME SenderInv, [Next]_vars PROVE Sends!Next \/ UNCHANGED Sends!vars
  OBVIOUS
<1>. USE DEF SenderInv, SenderTypes
<1>1. CASE Prepared
  <2>1. Sends!Emit
    BY <1>1 DEF Prepared, Sends!Emit
  <2>. QED  BY <2>1 DEF Sends!Next
<1>2. CASE FirstSendFails
  <2>1. Sends!Refuse
    BY <1>2 DEF FirstSendFails, Sends!Refuse
  <2>. QED  BY <2>1 DEF Sends!Next
<1>3. CASE FirstSendAcknowledged
  <2>1. /\ pc = "sending" /\ txid' = TRUE /\ UNCHANGED landed
        /\ copies' = copies + Cardinality(additionalConnections)
        /\ answer' = answer \/ answer' = "failed"
    BY <1>3 DEF FirstSendAcknowledged, confirm_fails, settle
  <2>2. Sends!Accept
    BY <2>1, ConnectionsCounted DEF Sends!Accept
  <2>. QED  BY <2>2 DEF Sends!Next
<1>4. CASE \E c \in Connections : Notice(c)
  <2>1. /\ landed /\ UNCHANGED <<copies, txid, landed>>
        /\ (pc = "confirming" /\ answer' = "ok") \/ UNCHANGED answer
    BY <1>4 DEF Notice, settle
  <2>2. Sends!Reply \/ UNCHANGED Sends!vars
    BY <2>1 DEF Sends!Reply, Sends!vars
  <2>. QED  BY <2>2 DEF Sends!Next
<1>5. CASE ConfirmTimesOut
  <2>1. Sends!Reply
    BY <1>5 DEF ConfirmTimesOut, settle, Sends!Reply
  <2>. QED  BY <2>1 DEF Sends!Next
<1>6. CASE RetryWakes
  <2>1. Sends!Emit \/ UNCHANGED Sends!vars
    BY <1>6, ConnectionsCounted DEF RetryWakes, Sends!Emit, Sends!vars
  <2>. QED  BY <2>1 DEF Sends!Next
<1>7. CASE ResendAcknowledged \/ ResendRejected \/ \E c \in Connections : addAdditionalConnection(c)
  BY <1>7 DEF ResendAcknowledged, ResendRejected, addAdditionalConnection, Sends!vars
<1>8. CASE Land
  <2>1. Sends!Land
    BY <1>8 DEF Land, Sends!Land
  <2>. QED  BY <2>1 DEF Sends!Next
<1>9. CASE Tick \/ UNCHANGED vars
  BY <1>9 DEF Tick, vars, Sends!vars
<1>. QED  BY <1>1, <1>2, <1>3, <1>4, <1>5, <1>6, <1>7, <1>8, <1>9 DEF Next

(* The safety half of SendsOnce: nothing is sent once the caller has its   *)
(* answer, the answer is given once, and it is "ok" only for a transaction *)
(* that is on chain.                                                       *)
THEOREM SendsSafely == Spec => Sends!Init /\ [][Sends!Next]_(Sends!vars)
<1>1. Init => Sends!Init
  BY DEF Init, Sends!Init
<1>. QED  BY <1>1, SenderAlways, StepSends, PTL DEF Spec
=============================================================================
