--------------------------- MODULE RetryTxSender ---------------------------
(***************************************************************************)
(* RetryTxSender.send of the SDK: one call that sends a transaction, sends *)
(* it again every retrySleep to every connection, and waits for the first  *)
(* connection to confirm it or for the timeout.                            *)
(*                                                                         *)
(* The call, its retry loop, the timers and the answers of the nodes       *)
(* interleave; what runs between two awaits is one action, the microtasks  *)
(* that follow a resolved promise included.  Time passes in ticks, and a   *)
(* timer that is due fires at any later moment, as on a busy event loop.   *)
(***************************************************************************)
EXTENDS Integers, FiniteSets

CONSTANTS
    Connections,    \* every connection object that may be used
    provider,       \* provider.connection
    EndpointOf,     \* connection |-> its rpc endpoint
    Timeout,        \* DEFAULT_TIMEOUT, in ticks
    RetrySleep,     \* DEFAULT_RETRY, in ticks
    FirstIds        \* the subscription ids a connection may give out next

ASSUME SenderAssumption ==
    /\ IsFiniteSet(Connections) /\ provider \in Connections
    /\ DOMAIN EndpointOf = Connections
    /\ Timeout \in Nat \ {0} /\ RetrySleep \in Nat \ {0}
    /\ FirstIds \subseteq Nat

VARIABLES
    additionalConnections,
    pc,                 \* where send() is: which await it is in
    txid,               \* whether the first sendRawTransaction has answered
    retry,              \* the loop: running or not, and what is left of its sleep
    done,
    age,                \* time since startTime, no longer counted from Timeout on
    wait,               \* what is left of promiseTimeout's timer
    unanswered,         \* resends to the provider whose promise is not settled
    subscriptionIds,    \* connection |-> id of its signature listener, or Undefined
    listeners,          \* connection |-> ids of the listeners it still has
    next_id,            \* connection |-> the id it gives out next
    copies, landed, answer      \* as in TxSend

vars == <<additionalConnections, pc, txid, retry, done, age, wait, unanswered,
          subscriptionIds, listeners, next_id, copies, landed, answer>>

Undefined == -1

Idle == [running |-> FALSE, sleep |-> 0]

Init ==
    /\ additionalConnections \in SUBSET (Connections \ {provider})
    /\ pc = "called" /\ txid = FALSE /\ retry = Idle /\ done = FALSE
    /\ age = 0 /\ wait = 0 /\ unanswered = 0
    /\ subscriptionIds = [c \in Connections |-> Undefined]
    /\ listeners = [c \in Connections |-> {}]
    /\ next_id \in [Connections -> FirstIds]
    /\ copies = 0 /\ landed = FALSE /\ answer = "none"

-----------------------------------------------------------------------------
(* Pieces of the code that several steps run.                              *)

(* The head of the while loop, up to the next sleep.                       *)
retry_loop(is_done) ==
    IF ~ is_done /\ age < Timeout THEN [running |-> TRUE, sleep |-> RetrySleep] ELSE Idle

(* The listeners of connections `of` that confirmTransaction's finally     *)
(* removes: it skips an undefined id, and with it the id 0.                *)
removeSignatureListeners(ids, of) ==
    [c \in Connections |-> IF ids[c] > 0 THEN of[c] \ {ids[c]} ELSE of[c]]

(* Mutant: the caller learns of the failure while the retries go on.       *)
settle_Waiting(result) ==
    /\ pc' = "answered"
    /\ answer' = result
    /\ done' = (done \/ result = "ok")

(* send() returns or throws; its finally has called stopWaiting().         *)
settle(result) ==
    /\ pc' = "answered"
    /\ answer' = result
    /\ done' = TRUE

-----------------------------------------------------------------------------
(* send(), from one await to the next.                                     *)

(* prepareTx got a blockhash and signatures; the first copy goes out.      *)
Prepared ==
    /\ pc = "called"
    /\ pc' = "sending" /\ age' = 0
    /\ copies' = copies + 1
    /\ UNCHANGED <<additionalConnections, retry, done, wait, unanswered,
                   subscriptionIds, listeners, txid, next_id, landed, answer>>

(* prepareTx or the first sendRawTransaction throws.                       *)
FirstSendFails ==
    /\ pc \in {"called", "sending"}
    /\ pc' = "answered" /\ answer' = "failed"
    /\ UNCHANGED <<additionalConnections, retry, done, age, wait, unanswered,
                   subscriptionIds, listeners, txid, next_id, copies, landed>>

(* Mutant: an error of the confirmation leaves its listeners behind.       *)
confirm_fails_Listening(ids, of) == listeners' = of /\ settle("failed")

(* A listener could not be registered: the race is lost at once.           *)
confirm_fails(ids, of) ==
    /\ listeners' = removeSignatureListeners(ids, of)
    /\ settle("failed")

(* The first copy is acknowledged: the additional connections get one, the *)
(* retry loop starts, and confirmTransaction registers its listeners,      *)
(* which fails on the connections of `throwing`.                           *)
FirstSendAcknowledged ==
    \E throwing \in SUBSET ({provider} \cup additionalConnections) :
        LET listening == ({provider} \cup additionalConnections) \ throwing
            ids == [c \in Connections |-> IF c \in listening THEN next_id[c] ELSE Undefined]
            of == [c \in Connections |-> listeners[c] \cup IF c \in listening THEN {next_id[c]} ELSE {}]
        IN /\ pc = "sending"
           /\ copies' = copies + Cardinality(additionalConnections)
           /\ txid' = TRUE
           /\ retry' = retry_loop(FALSE)
           /\ wait' = Timeout
           /\ subscriptionIds' = ids
           /\ next_id' = [c \in Connections |-> IF c \in listening THEN next_id[c] + 1 ELSE next_id[c]]
           /\ \/ /\ throwing = {}
                 /\ pc' = "confirming" /\ listeners' = of
                 /\ UNCHANGED <<done, answer>>
              \/ throwing # {} /\ confirm_fails(ids, of)
           /\ UNCHANGED <<additionalConnections, age, unanswered, landed>>

(* A connection reports the signature.  It drops the listener by itself,   *)
(* whether or not anybody still waits for it.  The status that comes along *)
(* may be an error of the transaction; nobody looks at it.                 *)
Notice(c) ==
    \E id \in listeners[c] :
        LET others == [listeners EXCEPT ![c] = @ \ {id}]
            ids == [subscriptionIds EXCEPT ![c] = Undefined]
        IN /\ landed
           /\ subscriptionIds' = ids
           /\ \/ /\ pc = "confirming"
                 /\ listeners' = removeSignatureListeners(ids, others)
                 /\ settle("ok")
              \/ /\ pc = "answered"
                 /\ listeners' = others
                 /\ UNCHANGED <<pc, answer, done>>
           /\ UNCHANGED <<additionalConnections, retry, age, wait, unanswered,
                          txid, next_id, copies, landed>>

(* The timer wins the race; response is still null.                        *)
ConfirmTimesOut ==
    /\ pc = "confirming" /\ wait = 0
    /\ listeners' = removeSignatureListeners(subscriptionIds, listeners)
    /\ settle("failed")
    /\ UNCHANGED <<additionalConnections, retry, age, wait, unanswered,
                   subscriptionIds, txid, next_id, copies, landed>>

-----------------------------------------------------------------------------
(* The retry loop.                                                         *)

(* The sleep is over, by its timer or by stopWaiting().                    *)
RetryWakes ==
    /\ retry.running
    /\ retry.sleep = 0 \/ done
    /\ \/ /\ ~ done
          /\ copies' = copies + 1 + Cardinality(additionalConnections)
          /\ unanswered' = unanswered + 1
       \/ done /\ UNCHANGED <<copies, unanswered>>
    /\ retry' = retry_loop(done)
    /\ UNCHANGED <<additionalConnections, pc, done, age, wait,
                   subscriptionIds, listeners, txid, next_id, landed, answer>>

ResendAcknowledged ==
    /\ unanswered > 0
    /\ unanswered' = unanswered - 1
    /\ UNCHANGED <<additionalConnections, pc, retry, done, age, wait,
                   subscriptionIds, listeners, txid, next_id, copies, landed, answer>>

(* The provider rejects a resend: no more of them, the call still waits.   *)
ResendRejected ==
    /\ unanswered > 0
    /\ unanswered' = unanswered - 1
    /\ done' = TRUE
    /\ UNCHANGED <<additionalConnections, pc, retry, age, wait,
                   subscriptionIds, listeners, txid, next_id, copies, landed, answer>>

-----------------------------------------------------------------------------
(* The rest of the program, the chain and the clock.                       *)

(* The provider's own endpoint is not looked at.  Its very connection      *)
(* object would be taken too, and get two listeners; an application adds   *)
(* others, and ids are kept here per connection.                           *)
addAdditionalConnection(c) ==
    /\ c \in Connections \ ({provider} \cup additionalConnections)
    /\ EndpointOf[c] \notin {EndpointOf[d] : d \in additionalConnections}
    /\ additionalConnections' = additionalConnections \cup {c}
    /\ UNCHANGED <<pc, retry, done, age, wait, unanswered, subscriptionIds,
                   listeners, txid, next_id, copies, landed, answer>>

(* A copy reaches a leader; the others are dropped as duplicates.          *)
Land ==
    /\ copies > 0 /\ ~ landed
    /\ landed' = TRUE
    /\ UNCHANGED <<additionalConnections, pc, retry, done, age, wait, unanswered,
                   subscriptionIds, listeners, txid, next_id, copies, answer>>

CountDown(n) == IF n > 0 THEN n - 1 ELSE 0

Tick ==
    /\ age' = IF pc # "called" /\ age < Timeout THEN age + 1 ELSE age
    /\ wait' = CountDown(wait)
    /\ retry' = [retry EXCEPT !.sleep = CountDown(@)]
    /\ UNCHANGED <<additionalConnections, pc, done, unanswered, subscriptionIds,
                   listeners, txid, next_id, copies, landed, answer>>

Next ==
    \/ Prepared \/ FirstSendFails \/ FirstSendAcknowledged
    \/ \E c \in Connections : Notice(c)
    \/ ConfirmTimesOut
    \/ RetryWakes \/ ResendAcknowledged \/ ResendRejected
    \/ \E c \in Connections : addAdditionalConnection(c)
    \/ Land \/ Tick

(* The clock runs and the event loop serves what is due.  No node has to   *)
(* answer, and no transaction has to land.                                 *)
Fairness == WF_vars(Tick) /\ WF_vars(RetryWakes) /\ WF_vars(ConfirmTimesOut)

Spec == Init /\ [][Next]_vars /\ Fairness

-----------------------------------------------------------------------------
(* However the call ends (confirmed by one connection of several, timed    *)
(* out, or failed while registering), the listeners it put on its          *)
(* connections are gone when it answers.  The exception is a connection's  *)
(* very first subscription, whose id 0 the test `if (subscriptionId)`      *)
(* takes for none.                                                         *)
ListenersRemoved == answer # "none" => \A c \in Connections : listeners[c] \subseteq {0}

(* The sender keeps the promise of TxSend for every timing of resends,     *)
(* rejections, notices of several connections and the timeout: nothing is  *)
(* sent once the caller has its answer, a confirmation is never invented,  *)
(* and an acknowledged transaction gets an answer.                         *)
Sends == INSTANCE TxSend WITH accepted <- txid

SendsOnce == Sends!Spec
=============================================================================
