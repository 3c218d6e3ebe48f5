--------------------------- MODULE WebhookServer ---------------------------
(***************************************************************************)
(* cmd/webhookserver: the process that receives webhooks over HTTP and     *)
(* publishes them to Kafka. Inside it run, concurrently,                   *)
(*   - the fasthttp server, one goroutine per connection, which calls the  *)
(*     Handle of the request's provider;                                   *)
(*   - for each accepted request, a goroutine that offers its message to   *)
(*     the bounded queue of the provider, and drops it if it does not fit; *)
(*   - the workers of each provider, which range over its queue, give a    *)
(*     message to the producer and wait for an answer of the producer;     *)
(*   - the signal goroutine, which stops the server and closes the queues; *)
(*   - main, which waits for all of them.                                  *)
(* The producer is shared by all workers, and so are its answers.          *)
(*                                                                         *)
(* A message is the request it came from. Its value and most of its        *)
(* headers are slices of the buffers of the fasthttp context the request   *)
(* was read into, and fasthttp uses a context again for other requests.    *)
(***************************************************************************)
EXTENDS Integers, Sequences, FiniteSets

CONSTANTS
  GitHubRequests, GitLabRequests,   \* the webhook requests of each provider
  WorkerIds,   \* the workers each provider has (numMessageWorkers)
  Contexts,    \* the fasthttp request contexts and their buffers
  QueueCap,    \* the capacity of each message queue; 0: a message is only handed over
  MaxFaults,   \* bound: faults, of every kind together
  NoRequest,   \* no request
  NoContext    \* no request context

Providers == {"github", "gitlab"}
Request   == GitHubRequests \cup GitLabRequests
Worker    == Providers \X WorkerIds

ProviderOf(r) == IF r \in GitHubRequests THEN "github" ELSE "gitlab"

ASSUME CapAssumption       == QueueCap \in Nat
ASSUME FaultAssumption     == MaxFaults \in Nat
ASSUME NoRequestAssumption == NoRequest \notin Request
ASSUME NoContextAssumption == NoContext \notin Contexts
ASSUME FiniteAssumption    == IsFiniteSet(Request) /\ IsFiniteSet(WorkerIds)
ASSUME WorkerAssumption    == WorkerIds # {}

VARIABLES
  server,    \* fasthttp: "init", "failed", "serving", "closing", "broken", "closed"
  conn,      \* [Request -> "none", "read", "handled" or "answered"]
  context,   \* [Request -> the context it was read into]
  buffer,    \* [Contexts -> the request whose bytes are in its buffers]
  fate,      \* [Request -> where its message is]
  queue,     \* [Providers -> Seq(Request)], the two message queues
  wpc,       \* [Worker -> "range", "input", "await" or "stopped"]
  hand,      \* [Worker -> the message it gives to the producer]
  acks,      \* what Successes() and Errors() hold: messages answered for
  copies,    \* [Request -> the copies of its message the brokers get, oldest first:
             \*  of each, the request whose bytes it has]
  signal,    \* pc of the signal goroutine
  main,      \* pc of main
  faults     \* history: faults so far, bounded by MaxFaults

http    == << conn, context, buffer >>
workers == << wpc, hand >>
kafka   == << acks, copies >>
control == << server, signal, main >>
vars    == << http, workers, kafka, control, fate, queue, faults >>

Fates == { "none", "refused", "offered", "dropped",
           "queued", "held", "sent", "published", "failed" }

TypeOK ==
  /\ server  \in {"init", "failed", "serving", "closing", "broken", "closed"}
  /\ conn    \in [Request -> {"none", "read", "handled", "answered"}]
  /\ context \in [Request -> Contexts \cup {NoContext}]
  /\ buffer  \in [Contexts -> Request \cup {NoRequest}]
  /\ fate    \in [Request -> Fates]
  /\ queue   \in [Providers -> Seq(Request)]
  /\ \A p \in Providers : Len(queue[p]) <= QueueCap
  /\ wpc     \in [Worker -> {"range", "input", "await", "stopped"}]
  /\ hand    \in [Worker -> Request \cup {NoRequest}]
  /\ acks    \subseteq Request
  /\ copies  \in [Request -> Seq(Request)]
  /\ signal  \in {"wait", "stop", "stopping", "stopped", "github", "gitlab", "done"}
  /\ main    \in {"start", "serve", "await", "clear", "panicked"}
  /\ faults  \in 0 .. MaxFaults

-----------------------------------------------------------------------------

Alive == main \notin {"clear", "panicked"}

\* The queues the signal goroutine has closed.
Closed == CASE signal = "github"             -> {"github"}
            [] signal \in {"gitlab", "done"} -> Providers
            [] OTHER                         -> {}

\* Requests whose connection fasthttp counts as open.
Open == { r \in Request : conn[r] \in {"read", "handled"} }

Free == Contexts \ { context[r] : r \in Open }

\* Messages the producer has and has not answered for.
InFlight == { r \in Request : fate[r] = "sent" }

Awaiting == { w \in Worker : wpc[w] = "await" }

Fault == faults < MaxFaults /\ faults' = faults + 1

Init ==
  /\ server  = "init"
  /\ conn    = [r \in Request |-> "none"]
  /\ context = [r \in Request |-> NoContext]
  /\ buffer  = [c \in Contexts |-> NoRequest]
  /\ fate    = [r \in Request |-> "none"]
  /\ queue   = [p \in Providers |-> << >>]
  /\ wpc     = [w \in Worker |-> "range"]
  /\ hand    = [w \in Worker |-> NoRequest]
  /\ acks    = {}
  /\ copies  = [r \in Request |-> << >>]
  /\ signal  = "wait"
  /\ main    = "start"
  /\ faults  = 0

-----------------------------------------------------------------------------
(***************************************************************************)
(* The fasthttp server and the handlers.                                   *)
(***************************************************************************)

\* A request is read into a context no open connection uses; the bytes of an
\* earlier request of that context are overwritten.
Read(r) ==
  /\ Alive /\ server = "serving" /\ conn[r] = "none"
  /\ \E c \in Free :
       /\ context' = [context EXCEPT ![r] = c]
       /\ buffer'  = [buffer EXCEPT ![c] = r]
  /\ conn' = [conn EXCEPT ![r] = "read"]
  /\ UNCHANGED << workers, kafka, control, fate, queue, faults >>

\* Handle finds the request wanting: 400.
HandleRefuses(r) ==
  /\ Alive /\ conn[r] = "read"
  /\ conn' = [conn EXCEPT ![r] = "handled"]
  /\ fate' = [fate EXCEPT ![r] = "refused"]
  /\ UNCHANGED << context, buffer, workers, kafka, control, queue, faults >>

\* Handle makes the message, starts the goroutine that offers it to the queue,
\* and answers 202 (GitHub) or 200 (GitLab) without waiting for that goroutine.
HandleAccepts(r) ==
  /\ Alive /\ conn[r] = "read"
  /\ conn' = [conn EXCEPT ![r] = "handled"]
  /\ fate' = [fate EXCEPT ![r] = "offered"]
  /\ UNCHANGED << context, buffer, workers, kafka, control, queue, faults >>

\* The answer is written; the context may be used again.
Respond(r) ==
  /\ Alive /\ conn[r] = "handled"
  /\ conn' = [conn EXCEPT ![r] = "answered"]
  /\ UNCHANGED << context, buffer, workers, kafka, control, fate, queue, faults >>

\* Mutant of Enqueue: a queue without a bound.
EnqueueUnbounded(r) ==
  /\ Alive /\ fate[r] = "offered" /\ ProviderOf(r) \notin Closed
  /\ queue' = [queue EXCEPT ![ProviderOf(r)] = Append(@, r)]
  /\ fate'  = [fate EXCEPT ![r] = "queued"]
  /\ UNCHANGED << http, workers, kafka, control, faults >>

\* Mutant of Enqueue: both handlers are given the GitHub queue.
EnqueueGitHub(r) ==
  /\ Alive /\ fate[r] = "offered"
  /\ "github" \notin Closed /\ Len(queue["github"]) < QueueCap
  /\ queue' = [queue EXCEPT !["github"] = Append(@, r)]
  /\ fate'  = [fate EXCEPT ![r] = "queued"]
  /\ UNCHANGED << http, workers, kafka, control, faults >>

\* case h.MessageQueue <- message
Enqueue(r) ==
  /\ Alive /\ fate[r] = "offered"
  /\ ProviderOf(r) \notin Closed /\ Len(queue[ProviderOf(r)]) < QueueCap
  /\ queue' = [queue EXCEPT ![ProviderOf(r)] = Append(@, r)]
  /\ fate'  = [fate EXCEPT ![r] = "queued"]
  /\ UNCHANGED << http, workers, kafka, control, faults >>

\* case h.MessageQueue <- message, straight to a worker that waits for one: the
\* only way past the handler if the queue has no room at all.
HandOver(r, w) ==
  /\ Alive /\ fate[r] = "offered" /\ w[1] = ProviderOf(r)
  /\ w[1] \notin Closed /\ queue[w[1]] = << >> /\ wpc[w] = "range"
  /\ hand' = [hand EXCEPT ![w] = r]
  /\ fate' = [fate EXCEPT ![r] = "held"]
  /\ wpc'  = [wpc EXCEPT ![w] = "input"]
  /\ UNCHANGED << http, kafka, control, queue, faults >>

\* case <-ctx.Done(), a channel the server closes when it begins to shut down
\* and forgets when it has; or default, because the queue is full.
Drop(r) ==
  /\ Alive /\ fate[r] = "offered"
  /\ \/ server = "closing"
     \/ ProviderOf(r) \notin Closed /\ Len(queue[ProviderOf(r)]) = QueueCap
  /\ fate' = [fate EXCEPT ![r] = "dropped"]
  /\ UNCHANGED << http, workers, kafka, control, queue, faults >>

\* The queue is closed: the send panics, and the panic ends the process.
EnqueuePanics(r) ==
  /\ Alive /\ fate[r] = "offered" /\ ProviderOf(r) \in Closed
  /\ main' = "panicked"
  /\ UNCHANGED << http, workers, kafka, server, signal, fate, queue, faults >>

-----------------------------------------------------------------------------
(***************************************************************************)
(* The workers and the producer.                                           *)
(***************************************************************************)

\* Mutant of WorkerTake: the message stays on the queue.
WorkerTakePeeks(w) ==
  /\ Alive /\ wpc[w] = "range" /\ queue[w[1]] # << >>
  /\ hand' = [hand EXCEPT ![w] = Head(queue[w[1]])]
  /\ fate' = [fate EXCEPT ![Head(queue[w[1]])] = "held"]
  /\ wpc'  = [wpc EXCEPT ![w] = "input"]
  /\ UNCHANGED << http, kafka, control, queue, faults >>

\* for msg := range queue
WorkerTake(w) ==
  /\ Alive /\ wpc[w] = "range" /\ queue[w[1]] # << >>
  /\ hand'  = [hand EXCEPT ![w] = Head(queue[w[1]])]
  /\ fate'  = [fate EXCEPT ![Head(queue[w[1]])] = "held"]
  /\ queue' = [queue EXCEPT ![w[1]] = Tail(@)]
  /\ wpc'   = [wpc EXCEPT ![w] = "input"]
  /\ UNCHANGED << http, kafka, control, faults >>

\* Mutant of WorkerInput: the worker does not wait for an answer.
WorkerInputForgets(w) ==
  /\ Alive /\ wpc[w] = "input"
  /\ fate' = [fate EXCEPT ![hand[w]] = "sent"]
  /\ hand' = [hand EXCEPT ![w] = NoRequest]
  /\ wpc'  = [wpc EXCEPT ![w] = "range"]
  /\ UNCHANGED << http, kafka, control, queue, faults >>

\* kafkaProducer.Input() <- msg
WorkerInput(w) ==
  /\ Alive /\ wpc[w] = "input"
  /\ fate' = [fate EXCEPT ![hand[w]] = "sent"]
  /\ hand' = [hand EXCEPT ![w] = NoRequest]
  /\ wpc'  = [wpc EXCEPT ![w] = "await"]
  /\ UNCHANGED << http, kafka, control, queue, faults >>

\* Mutant of WorkerAnswered: Errors() is not read.
WorkerSucceeds(w) ==
  /\ Alive /\ wpc[w] = "await"
  /\ \E r \in acks : fate[r] = "published" /\ acks' = acks \ {r}
  /\ wpc' = [wpc EXCEPT ![w] = "range"]
  /\ UNCHANGED << http, hand, copies, control, fate, queue, faults >>

\* Mutant of WorkerAnswered: Successes() is not read.
WorkerHearsErrors(w) ==
  /\ Alive /\ wpc[w] = "await"
  /\ \E r \in acks : fate[r] = "failed" /\ acks' = acks \ {r}
  /\ wpc' = [wpc EXCEPT ![w] = "range"]
  /\ UNCHANGED << http, hand, copies, control, fate, queue, faults >>

\* select on Successes() and Errors(): any answer will do, whosesoever it is.
WorkerAnswered(w) ==
  /\ Alive /\ wpc[w] = "await"
  /\ \E r \in acks : acks' = acks \ {r}
  /\ wpc' = [wpc EXCEPT ![w] = "range"]
  /\ UNCHANGED << http, hand, copies, control, fate, queue, faults >>

\* Mutant of WorkerReturn: the worker leaves what is on the closed queue.
WorkerReturnEarly(w) ==
  /\ Alive /\ wpc[w] = "range" /\ w[1] \in Closed
  /\ wpc' = [wpc EXCEPT ![w] = "stopped"]
  /\ UNCHANGED << http, hand, kafka, control, fate, queue, faults >>

\* The queue is closed and empty.
WorkerReturn(w) ==
  /\ Alive /\ wpc[w] = "range" /\ w[1] \in Closed /\ queue[w[1]] = << >>
  /\ wpc' = [wpc EXCEPT ![w] = "stopped"]
  /\ UNCHANGED << http, hand, kafka, control, fate, queue, faults >>

\* Mutant of Publish: the producer calls published what it has merely sent, as
\* it does if it waits for no acknowledgement.
PublishUnstored(r) ==
  /\ Alive /\ fate[r] = "sent"
  /\ fate' = [fate EXCEPT ![r] = "published"]
  /\ acks' = acks \cup {r}
  /\ UNCHANGED << http, workers, copies, control, queue, faults >>

\* The producer encodes the message, from whatever its slices hold by now, and
\* sends it; all in-sync replicas acknowledge it.
Publish(r) ==
  /\ Alive /\ fate[r] = "sent"
  /\ copies' = [copies EXCEPT ![r] = Append(@, buffer[context[r]])]
  /\ fate'   = [fate EXCEPT ![r] = "published"]
  /\ acks'   = acks \cup {r}
  /\ UNCHANGED << http, workers, control, queue, faults >>

\* So it does, but the acknowledgement is lost. The producer is not idempotent:
\* it will send the message once more, or give it up although it is stored.
PublishUnacknowledged(r) ==
  /\ Alive /\ fate[r] = "sent"
  /\ Fault
  /\ copies' = [copies EXCEPT ![r] = Append(@, buffer[context[r]])]
  /\ UNCHANGED << http, workers, acks, control, fate, queue >>

\* The producer gives the message up, wherever copies of it may be.
PublishFails(r) ==
  /\ Alive /\ fate[r] = "sent"
  /\ Fault
  /\ fate' = [fate EXCEPT ![r] = "failed"]
  /\ acks' = acks \cup {r}
  /\ UNCHANGED << http, workers, copies, control, queue >>

-----------------------------------------------------------------------------
(***************************************************************************)
(* main and the signal goroutine.                                          *)
(***************************************************************************)

\* server.Start(): the listener is open.
Listen ==
  /\ main = "start"
  /\ main' = "serve" /\ server' = "serving"
  /\ UNCHANGED << http, workers, kafka, signal, fate, queue, faults >>

\* server.Start() returns an error. main tests another variable and waits for
\* doneChannel all the same.
ListenFails ==
  /\ main = "start"
  /\ Fault
  /\ main' = "await" /\ server' = "failed"
  /\ UNCHANGED << http, workers, kafka, signal, fate, queue >>

\* ListenAndServe returns once its listener is closed.
StartReturns ==
  /\ main = "serve" /\ server \in {"closing", "broken", "closed"}
  /\ main' = "await"
  /\ UNCHANGED << http, workers, kafka, server, signal, fate, queue, faults >>

\* SIGINT or SIGTERM. There is no second one: nobody receives it.
Signal ==
  /\ Alive /\ signal = "wait"
  /\ signal' = "stop"
  /\ UNCHANGED << http, workers, kafka, server, main, fate, queue, faults >>

\* server.Stop() closes the listener and ctx.Done(), and waits for open
\* connections. If there is no listener (yet) it returns at once.
StopBegins ==
  /\ Alive /\ signal = "stop"
  /\ \/ server = "serving" /\ server' = "closing" /\ signal' = "stopping"
     \/ server # "serving" /\ UNCHANGED server /\ signal' = "stopped"
  /\ UNCHANGED << http, workers, kafka, main, fate, queue, faults >>

\* Closing the listener reports an error, and Stop returns it without waiting
\* for anything. The signal goroutine goes on all the same.
StopFails ==
  /\ Alive /\ signal = "stop" /\ server = "serving"
  /\ Fault
  /\ server' = "broken" /\ signal' = "stopped"
  /\ UNCHANGED << http, workers, kafka, main, fate, queue >>

\* Mutant of StopReturns: open connections are not waited for.
StopReturnsAtOnce ==
  /\ Alive /\ signal = "stopping"
  /\ server' = "closed" /\ signal' = "stopped"
  /\ UNCHANGED << http, workers, kafka, main, fate, queue, faults >>

StopReturns ==
  /\ Alive /\ signal = "stopping" /\ Open = {}
  /\ server' = "closed" /\ signal' = "stopped"
  /\ UNCHANGED << http, workers, kafka, main, fate, queue, faults >>

\* Mutant of CloseNext: doneChannel is not closed.
CloseQueuesOnly ==
  /\ Alive
  /\ \/ signal = "stopped" /\ signal' = "github"
     \/ signal = "github"  /\ signal' = "gitlab"
  /\ UNCHANGED << http, workers, kafka, server, main, fate, queue, faults >>

\* close(githubWebhookMessageQueue); close(gitlabWebhookMessageQueue);
\* close(doneChannel)
CloseNext ==
  /\ Alive
  /\ \/ signal = "stopped" /\ signal' = "github"
     \/ signal = "github"  /\ signal' = "gitlab"
     \/ signal = "gitlab"  /\ signal' = "done"
  /\ UNCHANGED << http, workers, kafka, server, main, fate, queue, faults >>

\* <-doneChannel; wg.Wait(); log "terminating webhookserver, all clear"
AllClear ==
  /\ main = "await" /\ signal = "done"
  /\ \A w \in Worker : wpc[w] = "stopped"
  /\ main' = "clear"
  /\ UNCHANGED << http, workers, kafka, server, signal, fate, queue, faults >>

-----------------------------------------------------------------------------

RequestStep(r) == HandleRefuses(r) \/ HandleAccepts(r) \/ Respond(r)
OfferStep(r)   ==
  Enqueue(r) \/ (\E w \in Worker : HandOver(r, w)) \/ Drop(r) \/ EnqueuePanics(r)
WorkerStep(w)  == WorkerTake(w) \/ WorkerInput(w) \/ WorkerAnswered(w) \/ WorkerReturn(w)
Produce(r)     == Publish(r) \/ PublishFails(r)
StopStep       == StopBegins \/ StopFails \/ StopReturns \/ CloseNext
MainStep       == Listen \/ ListenFails \/ StartReturns \/ AllClear

Next ==
  \/ \E r \in Request : Read(r) \/ RequestStep(r) \/ OfferStep(r) \/ Produce(r)
  \/ \E r \in Request : PublishUnacknowledged(r)
  \/ \E w \in Worker : WorkerStep(w)
  \/ Signal \/ StopStep \/ MainStep

\* Every goroutine that can run does, handlers return and their answers are
\* written (or the write times out), and the producer answers for each message
\* (it retries a bounded number of times). Requests and signals need not come.
Fairness ==
  /\ \A r \in Request :
       WF_vars(RequestStep(r)) /\ WF_vars(OfferStep(r)) /\ WF_vars(Produce(r))
  /\ \A w \in Worker : WF_vars(WorkerStep(w))
  /\ WF_vars(StopStep) /\ WF_vars(MainStep)

Spec == Init /\ [][Next]_vars

FairSpec == Spec /\ Fairness
=============================================================================
