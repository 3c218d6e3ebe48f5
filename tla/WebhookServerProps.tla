------------------------- MODULE WebhookServerProps -------------------------
(***************************************************************************)
(* What the webhook server promises, stated over WebhookServer.            *)
(***************************************************************************)
EXTENDS WebhookServer

-----------------------------------------------------------------------------
(***************************************************************************)
(* Safety.                                                                 *)
(***************************************************************************)

\* A queued message is in the queue of its provider, once, and in no other.
QueuesHoldQueued ==
  /\ \A r \in Request :
       (fate[r] = "queued") <=> \E i \in 1 .. Len(queue[ProviderOf(r)]) : queue[ProviderOf(r)][i] = r
  /\ \A p \in Providers : \A i \in 1 .. Len(queue[p]) : ProviderOf(queue[p][i]) = p
  /\ \A p \in Providers : \A i, j \in 1 .. Len(queue[p]) :
       queue[p][i] = queue[p][j] => i = j

\* A held message is in the hands of one worker, of its provider.
HandsHoldHeld ==
  /\ \A r \in Request : (fate[r] = "held") <=> \E w \in Worker : hand[w] = r
  /\ \A w \in Worker : hand[w] # NoRequest => ProviderOf(hand[w]) = w[1]
  /\ \A v, w \in Worker : hand[v] = hand[w] /\ hand[v] # NoRequest => v = w

\* A message is in one place: a queued one is in the queue of its provider,
\* once, and a held one in the hands of one worker of its provider. No two
\* goroutines ever publish the same message.
OnePlace == QueuesHoldQueued /\ HandsHoldHeld

\* The workers share the producer's answers and take each other's, yet there is
\* one answer, given or to come, for each of them that waits: none waits for
\* ever, and no answer is left to block the producer.
AnswersMatchWaits ==
  /\ acks \cap InFlight = {}
  /\ Cardinality(Awaiting) = Cardinality(InFlight \cup acks)

\* "all clear" is true of the messages: each one that was queued has been
\* published or given up by the producer before AsyncClose.
AllClearIsClear ==
  main = "clear" =>
    /\ \A r \in Request : fate[r] \notin {"queued", "held", "sent"}
    /\ acks = {}

\* Stop waits for the handlers before the queues are closed, if there was a
\* server to stop and its listener could be closed. What it does not wait for
\* is the goroutine a handler leaves behind with the message: only that of a
\* closed queue can panic, and after such a Stop only that of an answered
\* request.
QueuesOutliveHandlers ==
  /\ Closed # {} /\ server \in {"closing", "closed"} => Open = {}
  /\ main = "panicked" =>
       \E r \in Request :
         /\ fate[r] = "offered" /\ ProviderOf(r) \in Closed
         /\ server \in {"closing", "closed"} => conn[r] = "answered"

\* What the producer reports is true of the brokers as far as it goes: what is
\* published is stored, what was refused or dropped, or still waits, is not, and
\* what failed may be either. Each copy but the one acknowledged cost a fault.
StoredAsReported ==
  \A r \in Request :
    /\ copies[r] # << >> => fate[r] \in {"sent", "published", "failed"}
    /\ fate[r] = "published" => copies[r] # << >>
    /\ Len(copies[r]) <= faults + (IF fate[r] = "published" THEN 1 ELSE 0)

\* A copy has the bytes of its request, or, once that is answered, those of a
\* later one that was read into the same context.
BytesOfItsContext ==
  \A r \in Request : \A i \in DOMAIN copies[r] :
    \/ copies[r][i] = r
    \/ conn[r] = "answered" /\ context[copies[r][i]] = context[r]

\* The copies the brokers get of a message are what the producer says and the
\* context holds, with retries, lost acknowledgements and messages given up.
CopiesAccounted == StoredAsReported /\ BytesOfItsContext

-----------------------------------------------------------------------------
(***************************************************************************)
(* Liveness.                                                               *)
(***************************************************************************)

Ended == ~Alive

\* A message that a queue or a worker took is published or given up, even while
\* the process shuts down, unless a panic ends the process.
QueuedIsSettled ==
  \A r \in Request :
    fate[r] \in {"queued", "held"} ~> fate[r] \in {"published", "failed"} \/ Ended

\* A signal that finds the server serving ends the process.
SignalEnds == (signal = "stop" /\ server = "serving") ~> Ended

-----------------------------------------------------------------------------
(***************************************************************************)
(* What documents, comments and tests of the repository say and the code   *)
(* does not do. Each is refuted by a run.                                  *)
(***************************************************************************)

\* gitlabwebhookhandler_test.go:422: the value of the message is the body of
\* the request it came from.
PayloadIsTheRequest ==
  \A r \in Request : \A i \in DOMAIN copies[r] : copies[r][i] = r

\* webhookserver.go:81: Stop stops the fast http server.
StopStops == signal = "done" => server # "serving"
=============================================================================
