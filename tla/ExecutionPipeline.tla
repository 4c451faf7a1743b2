-------------------------- MODULE ExecutionPipeline --------------------------
(***************************************************************************)
(* The execution pipeline: a request becomes an order, is validated and    *)
(* queued; the sender takes the next order out, hands it to the gateway    *)
(* and reports what became of it.                                          *)
(*                                                                         *)
(* Orders are numbered.  The queue belongs to the pipeline, but its owner  *)
(* may pause it and remove or retry what is in it.                         *)
(***************************************************************************)
EXTENDS Integers, SequencesExt

CONSTANTS
  Clients,           \* client order ids
  Priorities,        \* numbers; a request without a priority has 0
  DefaultPriority, MaxSize, MaxRetries,
  MaxOrders          \* bound: orders

VARIABLES
  orders,            \* number -> client, status, priority, retries
  queue, buffer,     \* numbers of queued orders, and of those to be tried again
  paused,
  sending,           \* taken out of the queue and not reported on yet
  done,              \* all_orders
  clientIds,
  totals

vars == <<orders, queue, buffer, paused, sending, done, clientIds, totals>>

(* What a gateway answers to an order it takes.                            *)
Accepted == {"Accepted", "PartiallyFilled", "Filled"}

Init ==
  /\ orders = << >> /\ queue = << >> /\ buffer = << >>
  /\ paused = FALSE
  /\ sending = {} /\ done = {} /\ clientIds = {}
  /\ totals = [submitted |-> 0, accepted |-> 0, rejected |-> 0, enqueued |-> 0, dequeued |-> 0, retries |-> 0]

--------------------------------------------------------------------------------
(* submit *)

Built(c, priority) == [client |-> c, status |-> "Created", priority |-> priority, retries |-> 0]

Number == Len(orders) + 1

QueueRefuses == paused \/ Len(queue) >= MaxSize

(* The rules of the validator judge the order by the caller's context:     *)
(* whether they pass it is any choice.                                     *)
SubmitInvalid(c, priority) ==
  /\ orders' = Append(orders, [Built(c, priority) EXCEPT !.status = "Rejected"])
  /\ clientIds' = clientIds \cup {c}
  /\ done' = done \cup {Number}
  /\ totals' = [totals EXCEPT !.submitted = @ + 1, !.rejected = @ + 1]
  /\ UNCHANGED <<queue, buffer, paused, sending>>

SubmitQueued(c, priority) ==
  /\ ~ QueueRefuses
  /\ orders' = Append(orders, [Built(c, IF priority = 0 THEN DefaultPriority ELSE priority)
                                 EXCEPT !.status = "Queued"])
  /\ clientIds' = clientIds \cup {c}
  /\ queue' = Append(queue, Number)
  /\ totals' = [totals EXCEPT !.submitted = @ + 1, !.accepted = @ + 1, !.enqueued = @ + 1]
  /\ UNCHANGED <<buffer, paused, sending, done>>

(* The queue keeps nothing of an order it does not take: the order is gone *)
(* when the pipeline looks for it there to reject it.                      *)
SubmitUnqueued(c, priority) ==
  /\ QueueRefuses
  /\ orders' = Append(orders, [Built(c, priority) EXCEPT !.status = "Validated"])
  /\ clientIds' = clientIds \cup {c}
  /\ totals' = [totals EXCEPT !.submitted = @ + 1, !.rejected = @ + 1]
  /\ UNCHANGED <<queue, buffer, paused, sending, done>>

Submit ==
  /\ Len(orders) < MaxOrders
  /\ \E c \in Clients, priority \in Priorities :
       SubmitInvalid(c, priority) \/ SubmitQueued(c, priority) \/ SubmitUnqueued(c, priority)

--------------------------------------------------------------------------------
(* The queue *)

(* A stable sort.                                                          *)
ByPriority == SortSeq(queue, LAMBDA m, n :
                        \/ orders[m].priority > orders[n].priority
                        \/ /\ orders[m].priority = orders[n].priority
                           /\ SelectInSeq(queue, LAMBDA k : k = m) < SelectInSeq(queue, LAMBDA k : k = n))

Dequeue ==
  /\ ~ paused
  /\ IF buffer # << >>
       THEN /\ sending' = sending \cup {Head(buffer)}
            /\ buffer' = Tail(buffer)
            /\ UNCHANGED queue
       ELSE /\ queue # << >>
            /\ sending' = sending \cup {Head(ByPriority)}
            /\ queue' = Tail(ByPriority)
            /\ UNCHANGED buffer
  /\ totals' = [totals EXCEPT !.dequeued = @ + 1]
  /\ UNCHANGED <<orders, paused, done, clientIds>>

Waiting == Range(queue) \cup Range(buffer)

RemoveOrder(n) ==
  /\ n \in Waiting
  /\ queue' = Remove(queue, n) /\ buffer' = Remove(buffer, n)
  /\ UNCHANGED <<orders, paused, sending, done, clientIds, totals>>

Retryable(n) == n \in Waiting /\ orders[n].retries < MaxRetries

(* The queue's retry, of an order in it or not: one without retries left   *)
(* is taken out and not put anywhere.                                      *)
QueueRetry(n, book) ==
  /\ queue' = Remove(queue, n)
  /\ IF Retryable(n)
       THEN /\ buffer' = Append(Remove(buffer, n), n)
            /\ orders' = [book EXCEPT ![n].retries = @ + 1, ![n].status = "Queued"]
            /\ totals' = [totals EXCEPT !.retries = @ + 1]
       ELSE /\ buffer' = Remove(buffer, n)
            /\ orders' = book
            /\ UNCHANGED totals

Retry(n) ==
  /\ n \in Waiting
  /\ QueueRetry(n, orders)
  /\ UNCHANGED <<paused, sending, done, clientIds>>

Pause  == ~ paused /\ paused' = TRUE /\ UNCHANGED <<orders, queue, buffer, sending, done, clientIds, totals>>
Resume == paused /\ paused' = FALSE /\ UNCHANGED <<orders, queue, buffer, sending, done, clientIds, totals>>

--------------------------------------------------------------------------------
(* handle_gateway_result *)

Reported(n) ==
  /\ sending' = sending \ {n}
  /\ done' = done \cup {n}
  /\ UNCHANGED <<paused, clientIds>>

SendSucceeds(n) ==
  /\ \E status \in Accepted : orders' = [orders EXCEPT ![n].status = status]
  /\ Reported(n)
  /\ UNCHANGED <<queue, buffer, totals>>

(* The queue is asked to try the order again, by its number.               *)
SendFails(n) ==
  /\ QueueRetry(n, IF Retryable(n) THEN orders ELSE [orders EXCEPT ![n].status = "Failed"])
  /\ Reported(n)

HandleGatewayResult == \E n \in sending : SendSucceeds(n) \/ SendFails(n)

Next ==
  \/ Submit
  \/ Dequeue
  \/ \E n \in Waiting : RemoveOrder(n) \/ Retry(n)
  \/ Pause
  \/ Resume
  \/ HandleGatewayResult

Spec == Init /\ [][Next]_vars

--------------------------------------------------------------------------------
(* Properties *)

(* An order fails for good only after all its retries: "try again", says   *)
(* handle_gateway_result of an order that was not sent, and the queue that *)
(* a failed order is queued again until max_retries.                       *)
FailedMeansRetried ==
  \A n \in done : orders[n].status = "Failed" => orders[n].retries >= MaxRetries

================================================================================
