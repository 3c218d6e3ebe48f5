----------------------- MODULE WebhookServerProofs -----------------------
(***************************************************************************)
(* Theorems about WebhookServer, for every value of its constants.         *)
(*                                                                         *)
(* One inductive invariant carries them all. Its parts depend on one       *)
(* another only as the lemmas say:                                         *)
(*   Contexted      a request that was read has a context that holds       *)
(*                  bytes, and one that Handle has not seen no message;    *)
(*   HandsInInput   a worker holds a message only until it has given it    *)
(*                  to the producer;                                       *)
(*   OnePlace       see WebhookServerProps;                                *)
(*   AcksSettled    the producer answers for what it has settled;          *)
(*   StoppedDry     a worker that returned left a closed and empty queue;  *)
(*   ClearStopped   all clear: every worker returned, after the closing;   *)
(*   ServerSignal   server and signal goroutine agree about the shutdown;  *)
(*   BuffersOwned   the bytes of a context are of a request read into it,  *)
(*                  an open one's if there is one.                         *)
(***************************************************************************)
EXTENDS WebhookServerProps, FiniteSetTheorems, TLAPS

\* A request that was read has a context that was read into; before Handle it
\* has no message.
Contexted ==
  \A r \in Request :
    /\ conn[r] # "none" => context[r] \in Contexts /\ buffer[context[r]] # NoRequest
    /\ conn[r] \in {"none", "read"} => fate[r] = "none"

\* A worker holds a message exactly while it gives it to the producer.
HandsInInput == \A w \in Worker : wpc[w] = "input" <=> hand[w] # NoRequest

\* The producer has settled what it has answered for.
AcksSettled == \A r \in acks : fate[r] \in {"published", "failed"}

\* A worker returns when its queue is closed and empty, and it stays so.
StoppedDry ==
  \A w \in Worker : wpc[w] = "stopped" => w[1] \in Closed /\ queue[w[1]] = << >>

\* main says "all clear" only after every worker returned.
ClearStopped == main = "clear" => \A w \in Worker : wpc[w] = "stopped"

\* What the signal goroutine has done to the server, and when. A closed server
\* has no open connection and takes none.
ServerSignal ==
  /\ main = "start" => server = "init"
  /\ server = "closing" <=> signal = "stopping"
  /\ server = "closed" => Open = {}

\* What the messages are part of.
MessageInv == TypeOK /\ Contexted /\ HandsInInput /\ OnePlace

-----------------------------------------------------------------------------
(***************************************************************************)
(* The messages: TypeOK is not inductive, because what the producer        *)
(* encodes is in the buffers of a context only if the request has one, and *)
(* that it has follows from where its message is.                          *)
(***************************************************************************)

LEMMA ProviderTyped == \A r \in Request : ProviderOf(r) \in Providers
BY DEF ProviderOf, Providers

LEMMA MessageInit == Init => MessageInv
<1> SUFFICES ASSUME Init PROVE MessageInv
  OBVIOUS
<1> USE CapAssumption, FaultAssumption, NoRequestAssumption
<1>1. TypeOK
  <2>1. << >> \in Seq(Request) /\ Len(<< >>) = 0
    OBVIOUS
  <2> QED BY <2>1 DEF Init, TypeOK, Fates
<1>2. Contexted /\ HandsInInput
  BY DEF Init, Contexted, HandsInInput
<1>3. OnePlace
  BY ProviderTyped DEF Init, OnePlace, QueuesHoldQueued, HandsHoldHeld
<1> QED BY <1>1, <1>2, <1>3 DEF MessageInv

LEMMA TypeNext == MessageInv /\ [Next]_vars => TypeOK'
<1> SUFFICES ASSUME TypeOK, Contexted, HandsInInput, OnePlace, [Next]_vars PROVE TypeOK'
  BY DEF MessageInv
<1> USE CapAssumption, FaultAssumption DEF TypeOK, Fates
<1>1. ASSUME NEW r \in Request, Read(r) PROVE TypeOK'
  BY <1>1 DEF Read, Free, workers, kafka, control
<1>2. ASSUME NEW r \in Request, HandleRefuses(r) PROVE TypeOK'
  BY <1>2 DEF HandleRefuses, workers, kafka, control
<1>3. ASSUME NEW r \in Request, HandleAccepts(r) PROVE TypeOK'
  BY <1>3 DEF HandleAccepts, workers, kafka, control
<1>4. ASSUME NEW r \in Request, Respond(r) PROVE TypeOK'
  BY <1>4 DEF Respond, workers, kafka, control
<1>5. ASSUME NEW r \in Request, Enqueue(r) PROVE TypeOK'
  <2>1. ProviderOf(r) \in Providers
    BY ProviderTyped
  <2>2. Append(queue[ProviderOf(r)], r) \in Seq(Request)
    BY <2>1
  <2>3. Len(Append(queue[ProviderOf(r)], r)) <= QueueCap
    BY <1>5, <2>1 DEF Enqueue
  <2>4. queue' \in [Providers -> Seq(Request)] /\ \A p \in Providers : Len(queue'[p]) <= QueueCap
    BY <1>5, <2>1, <2>2, <2>3 DEF Enqueue
  <2> QED BY <1>5, <2>4 DEF Enqueue, http, workers, kafka, control
<1>6. ASSUME NEW r \in Request, Drop(r) PROVE TypeOK'
  BY <1>6 DEF Drop, http, workers, kafka, control
<1>7. ASSUME NEW r \in Request, EnqueuePanics(r) PROVE TypeOK'
  BY <1>7 DEF EnqueuePanics, http, workers, kafka
<1>8. ASSUME NEW r \in Request, Publish(r) PROVE TypeOK'
  <2>1. buffer[context[r]] \in Request
    BY <1>8 DEF Publish, Contexted
  <2>2. Append(copies[r], buffer[context[r]]) \in Seq(Request)
    BY <2>1
  <2> QED BY <1>8, <2>2 DEF Publish, http, workers, control
<1>9. ASSUME NEW r \in Request, PublishFails(r) PROVE TypeOK'
  BY <1>9 DEF PublishFails, Fault, http, workers, control
<1>10. ASSUME NEW w \in Worker, WorkerTake(w) PROVE TypeOK'
  <2>1. w[1] \in Providers
    BY DEF Worker
  <2>2. /\ Head(queue[w[1]]) \in Request
        /\ Tail(queue[w[1]]) \in Seq(Request)
        /\ Len(Tail(queue[w[1]])) <= QueueCap
    BY <1>10, <2>1 DEF WorkerTake
  <2>3. queue' \in [Providers -> Seq(Request)] /\ \A p \in Providers : Len(queue'[p]) <= QueueCap
    BY <1>10, <2>1, <2>2 DEF WorkerTake
  <2> QED BY <1>10, <2>2, <2>3 DEF WorkerTake, http, kafka, control
<1>11. ASSUME NEW w \in Worker, WorkerInput(w) PROVE TypeOK'
  BY <1>11 DEF WorkerInput, http, kafka, control
<1>12. ASSUME NEW w \in Worker, WorkerAnswered(w) PROVE TypeOK'
  BY <1>12 DEF WorkerAnswered, http, control
<1>13. ASSUME NEW w \in Worker, WorkerReturn(w) PROVE TypeOK'
  BY <1>13 DEF WorkerReturn, http, kafka, control
<1>14. ASSUME Signal PROVE TypeOK'
  BY <1>14 DEF Signal, http, workers, kafka
<1>15. ASSUME StopBegins PROVE TypeOK'
  BY <1>15 DEF StopBegins, http, workers, kafka
<1>16. ASSUME StopFails PROVE TypeOK'
  BY <1>16 DEF StopFails, http, workers, kafka, Fault
<1>17. ASSUME StopReturns PROVE TypeOK'
  BY <1>17 DEF StopReturns, http, workers, kafka
<1>18. ASSUME CloseNext PROVE TypeOK'
  BY <1>18 DEF CloseNext, http, workers, kafka
<1>19. ASSUME Listen PROVE TypeOK'
  BY <1>19 DEF Listen, http, workers, kafka
<1>20. ASSUME ListenFails PROVE TypeOK'
  BY <1>20 DEF ListenFails, http, workers, kafka, Fault
<1>21. ASSUME StartReturns PROVE TypeOK'
  BY <1>21 DEF StartReturns, http, workers, kafka
<1>22. ASSUME AllClear PROVE TypeOK'
  BY <1>22 DEF AllClear, http, workers, kafka
<1>23. ASSUME NEW r \in Request, PublishUnacknowledged(r) PROVE TypeOK'
  <2>1. buffer[context[r]] \in Request
    BY <1>23 DEF PublishUnacknowledged, Contexted
  <2>2. Append(copies[r], buffer[context[r]]) \in Seq(Request)
    BY <2>1
  <2> QED BY <1>23, <2>2 DEF PublishUnacknowledged, Fault, http, workers, control
<1>24. ASSUME NEW r \in Request, NEW w \in Worker, HandOver(r, w) PROVE TypeOK'
  BY <1>24 DEF HandOver, http, workers, kafka, control
<1>25. CASE UNCHANGED vars
  BY <1>25 DEF vars, http, workers, kafka, control
<1> QED
  BY <1>1, <1>2, <1>3, <1>4, <1>5, <1>6, <1>7, <1>8, <1>9, <1>10, <1>11, <1>12,
     <1>13, <1>14, <1>15, <1>16, <1>17, <1>18, <1>19, <1>20, <1>21, <1>22, <1>23, <1>24, <1>25
  DEF Next, RequestStep, OfferStep, WorkerStep, Produce, StopStep, MainStep

LEMMA ContextedNext == MessageInv /\ [Next]_vars => Contexted'
<1> SUFFICES ASSUME TypeOK, Contexted, HandsInInput, OnePlace, [Next]_vars PROVE Contexted'
  BY DEF MessageInv
<1> USE DEF Contexted
<1>1. ASSUME NEW r \in Request, Read(r) PROVE Contexted'
  BY <1>1, NoRequestAssumption DEF Read, Free, workers, kafka, control, TypeOK
<1>2. ASSUME NEW r \in Request, HandleRefuses(r) PROVE Contexted'
  BY <1>2 DEF HandleRefuses, workers, kafka, control, TypeOK
<1>3. ASSUME NEW r \in Request, HandleAccepts(r) PROVE Contexted'
  BY <1>3 DEF HandleAccepts, workers, kafka, control, TypeOK
<1>4. ASSUME NEW r \in Request, Respond(r) PROVE Contexted'
  BY <1>4 DEF Respond, workers, kafka, control, TypeOK
<1>5. ASSUME NEW r \in Request, Enqueue(r) PROVE Contexted'
  BY <1>5 DEF Enqueue, http, workers, kafka, control, TypeOK
<1>6. ASSUME NEW r \in Request, Drop(r) PROVE Contexted'
  BY <1>6 DEF Drop, http, workers, kafka, control, TypeOK
<1>7. ASSUME NEW r \in Request, EnqueuePanics(r) PROVE Contexted'
  BY <1>7 DEF EnqueuePanics, http, workers, kafka, TypeOK
<1>8. ASSUME NEW r \in Request, Publish(r) PROVE Contexted'
  BY <1>8 DEF Publish, http, workers, control, TypeOK
<1>9. ASSUME NEW r \in Request, PublishFails(r) PROVE Contexted'
  BY <1>9 DEF PublishFails, Fault, http, workers, control, TypeOK
<1>10. ASSUME NEW w \in Worker, WorkerTake(w) PROVE Contexted'
  <2>1. w[1] \in Providers /\ queue[w[1]] \in Seq(Request) /\ queue[w[1]] # << >>
    BY <1>10 DEF WorkerTake, Worker, TypeOK
  <2>2. Head(queue[w[1]]) = queue[w[1]][1] /\ 1 \in 1 .. Len(queue[w[1]])
    BY <2>1
  <2>3. Head(queue[w[1]]) \in Request /\ fate[Head(queue[w[1]])] = "queued"
    BY <2>1, <2>2 DEF OnePlace, QueuesHoldQueued
  <2> QED BY <1>10, <2>3 DEF WorkerTake, http, kafka, control, TypeOK
<1>11. ASSUME NEW w \in Worker, WorkerInput(w) PROVE Contexted'
  <2>1. hand[w] \in Request /\ fate[hand[w]] = "held"
    BY <1>11 DEF WorkerInput, HandsInInput, OnePlace, HandsHoldHeld, TypeOK
  <2> QED BY <1>11, <2>1 DEF WorkerInput, http, kafka, control, TypeOK
<1>12. ASSUME NEW w \in Worker, WorkerAnswered(w) PROVE Contexted'
  BY <1>12 DEF WorkerAnswered, http, control, TypeOK
<1>13. ASSUME NEW w \in Worker, WorkerReturn(w) PROVE Contexted'
  BY <1>13 DEF WorkerReturn, http, kafka, control, TypeOK
<1>14. ASSUME Signal PROVE Contexted'
  BY <1>14 DEF Signal, http, workers, kafka, TypeOK
<1>15. ASSUME StopBegins PROVE Contexted'
  BY <1>15 DEF StopBegins, http, workers, kafka, TypeOK
<1>16. ASSUME StopFails PROVE Contexted'
  BY <1>16 DEF StopFails, http, workers, kafka, Fault, TypeOK
<1>17. ASSUME StopReturns PROVE Contexted'
  BY <1>17 DEF StopReturns, http, workers, kafka, TypeOK
<1>18. ASSUME CloseNext PROVE Contexted'
  BY <1>18 DEF CloseNext, http, workers, kafka, TypeOK
<1>19. ASSUME Listen PROVE Contexted'
  BY <1>19 DEF Listen, http, workers, kafka, TypeOK
<1>20. ASSUME ListenFails PROVE Contexted'
  BY <1>20 DEF ListenFails, http, workers, kafka, Fault, TypeOK
<1>21. ASSUME StartReturns PROVE Contexted'
  BY <1>21 DEF StartReturns, http, workers, kafka, TypeOK
<1>22. ASSUME AllClear PROVE Contexted'
  BY <1>22 DEF AllClear, http, workers, kafka, TypeOK
<1>23. ASSUME NEW r \in Request, PublishUnacknowledged(r) PROVE Contexted'
  BY <1>23 DEF PublishUnacknowledged, Fault, http, workers, control, TypeOK
<1>24. ASSUME NEW r \in Request, NEW w \in Worker, HandOver(r, w) PROVE Contexted'
  BY <1>24 DEF HandOver, http, workers, kafka, control, TypeOK
<1>25. CASE UNCHANGED vars
  BY <1>25 DEF vars, http, workers, kafka, control
<1> QED
  BY <1>1, <1>2, <1>3, <1>4, <1>5, <1>6, <1>7, <1>8, <1>9, <1>10, <1>11, <1>12,
     <1>13, <1>14, <1>15, <1>16, <1>17, <1>18, <1>19, <1>20, <1>21, <1>22, <1>23, <1>24, <1>25
  DEF Next, RequestStep, OfferStep, WorkerStep, Produce, StopStep, MainStep

LEMMA HandsInInputNext == MessageInv /\ [Next]_vars => HandsInInput'
<1> SUFFICES ASSUME TypeOK, HandsInInput, [Next]_vars PROVE HandsInInput'
  BY DEF MessageInv
<1> USE DEF HandsInInput
<1>1. ASSUME NEW r \in Request, Read(r) PROVE HandsInInput'
  BY <1>1 DEF Read, workers
<1>2. ASSUME NEW r \in Request, HandleRefuses(r) PROVE HandsInInput'
  BY <1>2 DEF HandleRefuses, workers
<1>3. ASSUME NEW r \in Request, HandleAccepts(r) PROVE HandsInInput'
  BY <1>3 DEF HandleAccepts, workers
<1>4. ASSUME NEW r \in Request, Respond(r) PROVE HandsInInput'
  BY <1>4 DEF Respond, workers
<1>5. ASSUME NEW r \in Request, Enqueue(r) PROVE HandsInInput'
  BY <1>5 DEF Enqueue, workers
<1>6. ASSUME NEW r \in Request, Drop(r) PROVE HandsInInput'
  BY <1>6 DEF Drop, workers
<1>7. ASSUME NEW r \in Request, EnqueuePanics(r) PROVE HandsInInput'
  BY <1>7 DEF EnqueuePanics, workers
<1>8. ASSUME NEW r \in Request, Publish(r) PROVE HandsInInput'
  BY <1>8 DEF Publish, workers
<1>9. ASSUME NEW r \in Request, PublishFails(r) PROVE HandsInInput'
  BY <1>9 DEF PublishFails, workers
<1>10. ASSUME NEW w \in Worker, WorkerTake(w) PROVE HandsInInput'
  <2>1. w[1] \in Providers /\ queue[w[1]] \in Seq(Request) /\ queue[w[1]] # << >>
    BY <1>10 DEF WorkerTake, Worker, TypeOK
  <2>2. Head(queue[w[1]]) # NoRequest
    BY <2>1, NoRequestAssumption
  <2> QED BY <1>10, <2>2 DEF WorkerTake, TypeOK
<1>11. ASSUME NEW w \in Worker, WorkerInput(w) PROVE HandsInInput'
  BY <1>11 DEF WorkerInput, TypeOK
<1>12. ASSUME NEW w \in Worker, WorkerAnswered(w) PROVE HandsInInput'
  BY <1>12 DEF WorkerAnswered, TypeOK
<1>13. ASSUME NEW w \in Worker, WorkerReturn(w) PROVE HandsInInput'
  BY <1>13 DEF WorkerReturn, TypeOK
<1>14. ASSUME Signal PROVE HandsInInput'
  BY <1>14 DEF Signal, workers
<1>15. ASSUME StopBegins PROVE HandsInInput'
  BY <1>15 DEF StopBegins, workers
<1>16. ASSUME StopFails PROVE HandsInInput'
  BY <1>16 DEF StopFails, workers
<1>17. ASSUME StopReturns PROVE HandsInInput'
  BY <1>17 DEF StopReturns, workers
<1>18. ASSUME CloseNext PROVE HandsInInput'
  BY <1>18 DEF CloseNext, workers
<1>19. ASSUME Listen PROVE HandsInInput'
  BY <1>19 DEF Listen, workers
<1>20. ASSUME ListenFails PROVE HandsInInput'
  BY <1>20 DEF ListenFails, workers
<1>21. ASSUME StartReturns PROVE HandsInInput'
  BY <1>21 DEF StartReturns, workers
<1>22. ASSUME AllClear PROVE HandsInInput'
  BY <1>22 DEF AllClear, workers
<1>23. ASSUME NEW r \in Request, PublishUnacknowledged(r) PROVE HandsInInput'
  BY <1>23 DEF PublishUnacknowledged, workers
<1>24. ASSUME NEW r \in Request, NEW w \in Worker, HandOver(r, w) PROVE HandsInInput'
  BY <1>24, NoRequestAssumption DEF HandOver, TypeOK
<1>25. CASE UNCHANGED vars
  BY <1>25 DEF vars, http, workers, kafka, control
<1> QED
  BY <1>1, <1>2, <1>3, <1>4, <1>5, <1>6, <1>7, <1>8, <1>9, <1>10, <1>11, <1>12,
     <1>13, <1>14, <1>15, <1>16, <1>17, <1>18, <1>19, <1>20, <1>21, <1>22, <1>23, <1>24, <1>25
  DEF Next, RequestStep, OfferStep, WorkerStep, Produce, StopStep, MainStep

LEMMA QueuesNext == MessageInv /\ [Next]_vars => QueuesHoldQueued'
<1> SUFFICES ASSUME TypeOK, Contexted, HandsInInput, QueuesHoldQueued, HandsHoldHeld, [Next]_vars
             PROVE  QueuesHoldQueued'
  BY DEF MessageInv, OnePlace
<1>1. ASSUME NEW r \in Request, Read(r) PROVE QueuesHoldQueued'
  BY <1>1 DEF Read, QueuesHoldQueued, ProviderOf, http, workers, kafka, control
<1>2. ASSUME NEW r \in Request, HandleRefuses(r) PROVE QueuesHoldQueued'
  BY <1>2 DEF HandleRefuses, Contexted, TypeOK, QueuesHoldQueued, ProviderOf, http, workers, kafka, control
<1>3. ASSUME NEW r \in Request, HandleAccepts(r) PROVE QueuesHoldQueued'
  BY <1>3 DEF HandleAccepts, Contexted, TypeOK, QueuesHoldQueued, ProviderOf, http, workers, kafka, control
<1>4. ASSUME NEW r \in Request, Respond(r) PROVE QueuesHoldQueued'
  BY <1>4 DEF Respond, QueuesHoldQueued, ProviderOf, http, workers, kafka, control
<1>5. ASSUME NEW r \in Request, Enqueue(r) PROVE QueuesHoldQueued'
  <2> DEFINE p == ProviderOf(r)
             s == queue[p]
  <2>1. p \in Providers /\ s \in Seq(Request)
    BY ProviderTyped DEF TypeOK
  <2>2. \A i \in 1 .. Len(s) : s[i] # r
    BY <1>5 DEF Enqueue, QueuesHoldQueued
  <2>3. /\ Len(Append(s, r)) = Len(s) + 1
        /\ \A i \in 1 .. Len(s) : Append(s, r)[i] = s[i]
        /\ Append(s, r)[Len(s) + 1] = r
    BY <2>1
  <2>4. queue'[p] = Append(s, r) /\ \A o \in Providers \ {p} : queue'[o] = queue[o]
    BY <1>5, <2>1 DEF Enqueue, TypeOK
  <2>5. fate'[r] = "queued" /\ \A t \in Request \ {r} : fate'[t] = fate[t]
    BY <1>5 DEF Enqueue, TypeOK
  <2> HIDE DEF p, s
  <2>6. ASSUME NEW t \in Request
        PROVE  (fate'[t] = "queued") <=>
                 \E i \in 1 .. Len(queue'[ProviderOf(t)]) : queue'[ProviderOf(t)][i] = t
    <3>1. CASE t = r
      BY <3>1, <2>1, <2>3, <2>4, <2>5 DEF p
    <3>2. CASE t # r /\ ProviderOf(t) = p
      <4>1. (fate'[t] = "queued") <=> \E i \in 1 .. Len(s) : s[i] = t
        BY <3>2, <2>5 DEF QueuesHoldQueued, s
      <4> QED BY <4>1, <3>2, <2>1, <2>3, <2>4
    <3>3. CASE ProviderOf(t) # p
      BY <3>3, <2>4, <2>5, ProviderTyped DEF QueuesHoldQueued, p
    <3> QED BY <3>1, <3>2, <3>3
  <2>7. ASSUME NEW o \in Providers, NEW i \in 1 .. Len(queue'[o])
        PROVE  ProviderOf(queue'[o][i]) = o
    <3>1. CASE o = p
      <4>1. \A k \in 1 .. Len(s) : ProviderOf(s[k]) = p
        BY <2>1 DEF QueuesHoldQueued, s
      <4>2. ProviderOf(r) = p
        BY DEF p
      <4> QED BY <4>1, <4>2, <3>1, <2>1, <2>3, <2>4
    <3>2. CASE o # p
      BY <3>2, <2>4 DEF QueuesHoldQueued
    <3> QED BY <3>1, <3>2
  <2>8. ASSUME NEW o \in Providers, NEW i \in 1 .. Len(queue'[o]), NEW j \in 1 .. Len(queue'[o]),
               queue'[o][i] = queue'[o][j]
        PROVE  i = j
    <3>1. CASE o = p
      <4>1. \A k, l \in 1 .. Len(s) : s[k] = s[l] => k = l
        BY <2>1 DEF QueuesHoldQueued, s
      <4> QED BY <4>1, <3>1, <2>1, <2>2, <2>3, <2>4, <2>8
    <3>2. CASE o # p
      BY <3>2, <2>4, <2>8 DEF QueuesHoldQueued
    <3> QED BY <3>1, <3>2
  <2> QED BY <2>6, <2>7, <2>8 DEF QueuesHoldQueued, ProviderOf
<1>6. ASSUME NEW r \in Request, Drop(r) PROVE QueuesHoldQueued'
  BY <1>6 DEF Drop, Contexted, TypeOK, QueuesHoldQueued, ProviderOf, http, workers, kafka, control
<1>7. ASSUME NEW r \in Request, EnqueuePanics(r) PROVE QueuesHoldQueued'
  BY <1>7 DEF EnqueuePanics, QueuesHoldQueued, ProviderOf, http, workers, kafka, control
<1>8. ASSUME NEW r \in Request, Publish(r) PROVE QueuesHoldQueued'
  BY <1>8 DEF Publish, Contexted, TypeOK, QueuesHoldQueued, ProviderOf, http, workers, kafka, control
<1>9. ASSUME NEW r \in Request, PublishFails(r) PROVE QueuesHoldQueued'
  BY <1>9 DEF PublishFails, Contexted, TypeOK, QueuesHoldQueued, ProviderOf, http, workers, kafka, control, Fault
<1>10. ASSUME NEW w \in Worker, WorkerTake(w) PROVE QueuesHoldQueued'
  <2> DEFINE p == w[1]
             s == queue[p]
             r == Head(s)
  <2>1. p \in Providers /\ s \in Seq(Request) /\ s # << >>
    BY <1>10 DEF WorkerTake, Worker, TypeOK
  <2>2. /\ r \in Request /\ r = s[1] /\ 1 \in 1 .. Len(s)
        /\ Len(Tail(s)) = Len(s) - 1 /\ Len(s) \in Nat
        /\ \A i \in 1 .. Len(Tail(s)) : Tail(s)[i] = s[i + 1] /\ i + 1 \in 1 .. Len(s)
    BY <2>1
  <2>3. ProviderOf(r) = p /\ fate[r] = "queued"
    BY <2>1, <2>2 DEF QueuesHoldQueued
  <2>4. queue'[p] = Tail(s) /\ \A o \in Providers \ {p} : queue'[o] = queue[o]
    BY <1>10, <2>1 DEF WorkerTake, TypeOK
  <2>5. fate'[r] = "held" /\ \A t \in Request \ {r} : fate'[t] = fate[t]
    BY <1>10, <2>2 DEF WorkerTake, TypeOK
  <2>6. \A i, j \in 1 .. Len(s) : s[i] = s[j] => i = j
    BY <2>1 DEF QueuesHoldQueued
  <2>7. \A i \in 1 .. Len(s) : ProviderOf(s[i]) = p
    BY <2>1 DEF QueuesHoldQueued
  <2> HIDE DEF p, s, r
  <2>8. ASSUME NEW t \in Request
        PROVE  (fate'[t] = "queued") <=>
                 \E i \in 1 .. Len(queue'[ProviderOf(t)]) : queue'[ProviderOf(t)][i] = t
    <3>1. CASE t = r
      <4>1. \A i \in 1 .. Len(Tail(s)) : Tail(s)[i] # r
        BY <2>2, <2>6
      <4> QED BY <4>1, <3>1, <2>3, <2>4, <2>5
    <3>2. CASE t # r /\ ProviderOf(t) = p
      <4>1. (fate'[t] = "queued") <=> \E i \in 1 .. Len(s) : s[i] = t
        BY <3>2, <2>5 DEF QueuesHoldQueued, s
      <4>2. (\E i \in 1 .. Len(s) : s[i] = t) <=> \E i \in 1 .. Len(Tail(s)) : Tail(s)[i] = t
        <5>1. ASSUME NEW i \in 1 .. Len(s), s[i] = t PROVE \E k \in 1 .. Len(Tail(s)) : Tail(s)[k] = t
          <6>1. i # 1 /\ i - 1 \in 1 .. Len(Tail(s)) /\ (i - 1) + 1 = i
            BY <5>1, <3>2, <2>2
          <6> QED BY <6>1, <5>1, <2>2
        <5> QED BY <5>1, <2>2
      <4> QED BY <4>1, <4>2, <3>2, <2>4
    <3>3. CASE ProviderOf(t) # p
      BY <3>3, <2>3, <2>4, <2>5, ProviderTyped DEF QueuesHoldQueued
    <3> QED BY <3>1, <3>2, <3>3
  <2>9. ASSUME NEW o \in Providers, NEW i \in 1 .. Len(queue'[o])
        PROVE  ProviderOf(queue'[o][i]) = o
    BY <2>2, <2>4, <2>7 DEF QueuesHoldQueued
  <2>10. ASSUME NEW o \in Providers, NEW i \in 1 .. Len(queue'[o]), NEW j \in 1 .. Len(queue'[o]),
                queue'[o][i] = queue'[o][j]
         PROVE  i = j
    <3>1. CASE o = p
      <4>1. i + 1 = j + 1
        BY <3>1, <2>2, <2>4, <2>6, <2>10
      <4> QED BY <4>1, <3>1, <2>2, <2>4
    <3>2. CASE o # p
      BY <3>2, <2>4, <2>10 DEF QueuesHoldQueued
    <3> QED BY <3>1, <3>2
  <2> QED BY <2>8, <2>9, <2>10 DEF QueuesHoldQueued, ProviderOf
<1>11. ASSUME NEW w \in Worker, WorkerInput(w) PROVE QueuesHoldQueued'
  <2>1. hand[w] \in Request /\ fate[hand[w]] = "held"
    BY <1>11 DEF WorkerInput, HandsInInput, HandsHoldHeld, TypeOK
  <2> QED BY <1>11, <2>1 DEF WorkerInput, TypeOK, QueuesHoldQueued, ProviderOf
<1>12. ASSUME NEW w \in Worker, WorkerAnswered(w) PROVE QueuesHoldQueued'
  BY <1>12 DEF WorkerAnswered, QueuesHoldQueued, ProviderOf, http, workers, kafka, control
<1>13. ASSUME NEW w \in Worker, WorkerReturn(w) PROVE QueuesHoldQueued'
  BY <1>13 DEF WorkerReturn, QueuesHoldQueued, ProviderOf, http, workers, kafka, control
<1>14. ASSUME Signal PROVE QueuesHoldQueued'
  BY <1>14 DEF Signal, QueuesHoldQueued, ProviderOf, http, workers, kafka, control
<1>15. ASSUME StopBegins PROVE QueuesHoldQueued'
  BY <1>15 DEF StopBegins, QueuesHoldQueued, ProviderOf, http, workers, kafka, control
<1>16. ASSUME StopFails PROVE QueuesHoldQueued'
  BY <1>16 DEF StopFails, QueuesHoldQueued, ProviderOf, http, workers, kafka, control, Fault
<1>17. ASSUME StopReturns PROVE QueuesHoldQueued'
  BY <1>17 DEF StopReturns, QueuesHoldQueued, ProviderOf, http, workers, kafka, control
<1>18. ASSUME CloseNext PROVE QueuesHoldQueued'
  BY <1>18 DEF CloseNext, QueuesHoldQueued, ProviderOf, http, workers, kafka, control
<1>19. ASSUME Listen PROVE QueuesHoldQueued'
  BY <1>19 DEF Listen, QueuesHoldQueued, ProviderOf, http, workers, kafka, control
<1>20. ASSUME ListenFails PROVE QueuesHoldQueued'
  BY <1>20 DEF ListenFails, QueuesHoldQueued, ProviderOf, http, workers, kafka, control, Fault
<1>21. ASSUME StartReturns PROVE QueuesHoldQueued'
  BY <1>21 DEF StartReturns, QueuesHoldQueued, ProviderOf, http, workers, kafka, control
<1>22. ASSUME AllClear PROVE QueuesHoldQueued'
  BY <1>22 DEF AllClear, QueuesHoldQueued, ProviderOf, http, workers, kafka, control
<1>23. ASSUME NEW r \in Request, PublishUnacknowledged(r) PROVE QueuesHoldQueued'
  BY <1>23 DEF PublishUnacknowledged, Contexted, TypeOK, QueuesHoldQueued, ProviderOf, http, workers, kafka, control, Fault
<1>24. ASSUME NEW r \in Request, NEW w \in Worker, HandOver(r, w) PROVE QueuesHoldQueued'
  BY <1>24 DEF HandOver, Contexted, TypeOK, QueuesHoldQueued, ProviderOf, http, workers, kafka, control
<1>25. CASE UNCHANGED vars
  BY <1>25 DEF vars, http, workers, kafka, control, QueuesHoldQueued, ProviderOf
<1> QED
  BY <1>1, <1>2, <1>3, <1>4, <1>5, <1>6, <1>7, <1>8, <1>9, <1>10, <1>11, <1>12,
     <1>13, <1>14, <1>15, <1>16, <1>17, <1>18, <1>19, <1>20, <1>21, <1>22, <1>23, <1>24, <1>25
  DEF Next, RequestStep, OfferStep, WorkerStep, Produce, StopStep, MainStep

LEMMA HandsNext == MessageInv /\ [Next]_vars => HandsHoldHeld'
<1> SUFFICES ASSUME TypeOK, Contexted, HandsInInput, QueuesHoldQueued, HandsHoldHeld, [Next]_vars
             PROVE  HandsHoldHeld'
  BY DEF MessageInv, OnePlace
<1>1. ASSUME NEW r \in Request, Read(r) PROVE HandsHoldHeld'
  BY <1>1 DEF Read, HandsHoldHeld, http, workers, kafka, control
<1>2. ASSUME NEW r \in Request, HandleRefuses(r) PROVE HandsHoldHeld'
  BY <1>2 DEF HandleRefuses, Contexted, TypeOK, HandsHoldHeld, http, workers, kafka, control
<1>3. ASSUME NEW r \in Request, HandleAccepts(r) PROVE HandsHoldHeld'
  BY <1>3 DEF HandleAccepts, Contexted, TypeOK, HandsHoldHeld, http, workers, kafka, control
<1>4. ASSUME NEW r \in Request, Respond(r) PROVE HandsHoldHeld'
  BY <1>4 DEF Respond, HandsHoldHeld, http, workers, kafka, control
<1>5. ASSUME NEW r \in Request, Enqueue(r) PROVE HandsHoldHeld'
  BY <1>5 DEF Enqueue, Contexted, TypeOK, HandsHoldHeld, http, workers, kafka, control
<1>6. ASSUME NEW r \in Request, Drop(r) PROVE HandsHoldHeld'
  BY <1>6 DEF Drop, Contexted, TypeOK, HandsHoldHeld, http, workers, kafka, control
<1>7. ASSUME NEW r \in Request, EnqueuePanics(r) PROVE HandsHoldHeld'
  BY <1>7 DEF EnqueuePanics, HandsHoldHeld, http, workers, kafka, control
<1>8. ASSUME NEW r \in Request, Publish(r) PROVE HandsHoldHeld'
  BY <1>8 DEF Publish, Contexted, TypeOK, HandsHoldHeld, http, workers, kafka, control
<1>9. ASSUME NEW r \in Request, PublishFails(r) PROVE HandsHoldHeld'
  BY <1>9 DEF PublishFails, Contexted, TypeOK, HandsHoldHeld, http, workers, kafka, control, Fault
<1>10. ASSUME NEW w \in Worker, WorkerTake(w) PROVE HandsHoldHeld'
  <2> DEFINE r == Head(queue[w[1]])
  <2>1. w[1] \in Providers /\ queue[w[1]] \in Seq(Request) /\ queue[w[1]] # << >>
    BY <1>10 DEF WorkerTake, Worker, TypeOK
  <2>2. r = queue[w[1]][1] /\ 1 \in 1 .. Len(queue[w[1]])
    BY <2>1
  <2>3. r \in Request /\ fate[r] = "queued" /\ ProviderOf(r) = w[1]
    BY <2>1, <2>2 DEF QueuesHoldQueued
  <2>4. \A v \in Worker : hand[v] # r
    BY <2>3 DEF HandsHoldHeld
  <2>5. hand[w] = NoRequest
    BY <1>10 DEF WorkerTake, HandsInInput, TypeOK
  <2>6. /\ hand' = [hand EXCEPT ![w] = r]
        /\ fate' = [fate EXCEPT ![r] = "held"]
    BY <1>10 DEF WorkerTake
  <2> HIDE DEF r
  <2> QED BY <2>3, <2>4, <2>5, <2>6, NoRequestAssumption DEF HandsHoldHeld, TypeOK, ProviderOf
<1>11. ASSUME NEW w \in Worker, WorkerInput(w) PROVE HandsHoldHeld'
  <2>1. hand[w] \in Request /\ fate[hand[w]] = "held"
    BY <1>11 DEF WorkerInput, HandsInInput, HandsHoldHeld, TypeOK
  <2>2. /\ hand' = [hand EXCEPT ![w] = NoRequest]
        /\ fate' = [fate EXCEPT ![hand[w]] = "sent"]
    BY <1>11 DEF WorkerInput
  <2> QED BY <2>1, <2>2, NoRequestAssumption DEF HandsHoldHeld, TypeOK, ProviderOf
<1>12. ASSUME NEW w \in Worker, WorkerAnswered(w) PROVE HandsHoldHeld'
  BY <1>12 DEF WorkerAnswered, HandsHoldHeld, http, workers, kafka, control
<1>13. ASSUME NEW w \in Worker, WorkerReturn(w) PROVE HandsHoldHeld'
  BY <1>13 DEF WorkerReturn, HandsHoldHeld, http, workers, kafka, control
<1>14. ASSUME Signal PROVE HandsHoldHeld'
  BY <1>14 DEF Signal, HandsHoldHeld, http, workers, kafka, control
<1>15. ASSUME StopBegins PROVE HandsHoldHeld'
  BY <1>15 DEF StopBegins, HandsHoldHeld, http, workers, kafka, control
<1>16. ASSUME StopFails PROVE HandsHoldHeld'
  BY <1>16 DEF StopFails, HandsHoldHeld, http, workers, kafka, control, Fault
<1>17. ASSUME StopReturns PROVE HandsHoldHeld'
  BY <1>17 DEF StopReturns, HandsHoldHeld, http, workers, kafka, control
<1>18. ASSUME CloseNext PROVE HandsHoldHeld'
  BY <1>18 DEF CloseNext, HandsHoldHeld, http, workers, kafka, control
<1>19. ASSUME Listen PROVE HandsHoldHeld'
  BY <1>19 DEF Listen, HandsHoldHeld, http, workers, kafka, control
<1>20. ASSUME ListenFails PROVE HandsHoldHeld'
  BY <1>20 DEF ListenFails, HandsHoldHeld, http, workers, kafka, control, Fault
<1>21. ASSUME StartReturns PROVE HandsHoldHeld'
  BY <1>21 DEF StartReturns, HandsHoldHeld, http, workers, kafka, control
<1>22. ASSUME AllClear PROVE HandsHoldHeld'
  BY <1>22 DEF AllClear, HandsHoldHeld, http, workers, kafka, control
<1>23. ASSUME NEW r \in Request, PublishUnacknowledged(r) PROVE HandsHoldHeld'
  BY <1>23 DEF PublishUnacknowledged, Contexted, TypeOK, HandsHoldHeld, http, workers, kafka, control, Fault
<1>24. ASSUME NEW r \in Request, NEW w \in Worker, HandOver(r, w) PROVE HandsHoldHeld'
  <2>1. fate[r] = "offered" /\ ProviderOf(r) = w[1]
    BY <1>24 DEF HandOver
  <2>2. \A v \in Worker : hand[v] # r
    BY <2>1 DEF HandsHoldHeld
  <2>3. hand[w] = NoRequest
    BY <1>24 DEF HandOver, HandsInInput, TypeOK
  <2>4. /\ hand' = [hand EXCEPT ![w] = r]
        /\ fate' = [fate EXCEPT ![r] = "held"]
    BY <1>24 DEF HandOver
  <2> QED BY <2>1, <2>2, <2>3, <2>4, NoRequestAssumption DEF HandsHoldHeld, TypeOK, ProviderOf
<1>25. CASE UNCHANGED vars
  BY <1>25 DEF vars, http, workers, kafka, control, HandsHoldHeld, ProviderOf
<1> QED
  BY <1>1, <1>2, <1>3, <1>4, <1>5, <1>6, <1>7, <1>8, <1>9, <1>10, <1>11, <1>12,
     <1>13, <1>14, <1>15, <1>16, <1>17, <1>18, <1>19, <1>20, <1>21, <1>22, <1>23, <1>24, <1>25
  DEF Next, RequestStep, OfferStep, WorkerStep, Produce, StopStep, MainStep

LEMMA MessageNext == MessageInv /\ [Next]_vars => MessageInv'
BY TypeNext, ContextedNext, HandsInInputNext, QueuesNext, HandsNext DEF MessageInv, OnePlace

\* The variables keep their types: a message is always one of a request, and
\* what the producer encodes is in the buffers of a context. In particular no
\* message queue outgrows its capacity.
THEOREM TypeCorrect == Spec => []TypeOK
<1>1. Init => MessageInv
  BY MessageInit
<1>2. MessageInv /\ [Next]_vars => MessageInv'
  BY MessageNext
<1>3. MessageInv => TypeOK
  BY DEF MessageInv
<1> QED BY <1>1, <1>2, <1>3, PTL DEF Spec

\* A message is in one place only, with any number of requests and workers.
THEOREM EveryMessageInOnePlace == Spec => []OnePlace
<1>1. Init => MessageInv
  BY MessageInit
<1>2. MessageInv /\ [Next]_vars => MessageInv'
  BY MessageNext
<1>3. MessageInv => OnePlace
  BY DEF MessageInv
<1> QED BY <1>1, <1>2, <1>3, PTL DEF Spec

-----------------------------------------------------------------------------
(***************************************************************************)
(* The producer's answers: workers take each other's, and still each of    *)
(* those that wait has one.                                                *)
(***************************************************************************)

LEMMA AcksInit == Init => AcksSettled /\ AnswersMatchWaits
<1> SUFFICES ASSUME Init PROVE AcksSettled /\ AnswersMatchWaits
  OBVIOUS
<1>1. Awaiting = {} /\ InFlight = {} /\ acks = {}
  BY DEF Init, Awaiting, InFlight
<1> QED BY <1>1 DEF AcksSettled, AnswersMatchWaits

LEMMA AcksSettledNext == MessageInv /\ AcksSettled /\ [Next]_vars => AcksSettled'
<1> SUFFICES ASSUME TypeOK, Contexted, HandsInInput, OnePlace, AcksSettled, [Next]_vars
             PROVE  AcksSettled'
  BY DEF MessageInv
<1>1. ASSUME NEW r \in Request, Read(r) PROVE AcksSettled'
  BY <1>1 DEF Read, AcksSettled, Contexted, TypeOK, http, workers, kafka, control
<1>2. ASSUME NEW r \in Request, HandleRefuses(r) PROVE AcksSettled'
  BY <1>2 DEF HandleRefuses, AcksSettled, Contexted, TypeOK, http, workers, kafka, control
<1>3. ASSUME NEW r \in Request, HandleAccepts(r) PROVE AcksSettled'
  BY <1>3 DEF HandleAccepts, AcksSettled, Contexted, TypeOK, http, workers, kafka, control
<1>4. ASSUME NEW r \in Request, Respond(r) PROVE AcksSettled'
  BY <1>4 DEF Respond, AcksSettled, Contexted, TypeOK, http, workers, kafka, control
<1>5. ASSUME NEW r \in Request, Enqueue(r) PROVE AcksSettled'
  BY <1>5 DEF Enqueue, AcksSettled, Contexted, TypeOK, http, workers, kafka, control
<1>6. ASSUME NEW r \in Request, Drop(r) PROVE AcksSettled'
  BY <1>6 DEF Drop, AcksSettled, Contexted, TypeOK, http, workers, kafka, control
<1>7. ASSUME NEW r \in Request, EnqueuePanics(r) PROVE AcksSettled'
  BY <1>7 DEF EnqueuePanics, AcksSettled, Contexted, TypeOK, http, workers, kafka, control
<1>8. ASSUME NEW r \in Request, Publish(r) PROVE AcksSettled'
  BY <1>8 DEF Publish, AcksSettled, Contexted, TypeOK, http, workers, kafka, control
<1>9. ASSUME NEW r \in Request, PublishFails(r) PROVE AcksSettled'
  BY <1>9 DEF PublishFails, AcksSettled, Contexted, TypeOK, http, workers, kafka, control, Fault
<1>10. ASSUME NEW w \in Worker, WorkerTake(w) PROVE AcksSettled'
  <2>1. w[1] \in Providers /\ queue[w[1]] \in Seq(Request) /\ queue[w[1]] # << >>
    BY <1>10 DEF WorkerTake, Worker, TypeOK
  <2>2. Head(queue[w[1]]) = queue[w[1]][1] /\ 1 \in 1 .. Len(queue[w[1]])
    BY <2>1
  <2>3. fate[Head(queue[w[1]])] = "queued"
    BY <2>1, <2>2 DEF OnePlace, QueuesHoldQueued
  <2> QED BY <1>10, <2>3 DEF WorkerTake, kafka, AcksSettled, TypeOK
<1>11. ASSUME NEW w \in Worker, WorkerInput(w) PROVE AcksSettled'
  <2>1. fate[hand[w]] = "held"
    BY <1>11 DEF WorkerInput, HandsInInput, OnePlace, HandsHoldHeld, TypeOK
  <2> QED BY <1>11, <2>1 DEF WorkerInput, kafka, AcksSettled, TypeOK
<1>12. ASSUME NEW w \in Worker, WorkerAnswered(w) PROVE AcksSettled'
  BY <1>12 DEF WorkerAnswered, AcksSettled, Contexted, TypeOK, http, workers, kafka, control
<1>13. ASSUME NEW w \in Worker, WorkerReturn(w) PROVE AcksSettled'
  BY <1>13 DEF WorkerReturn, AcksSettled, Contexted, TypeOK, http, workers, kafka, control
<1>14. ASSUME Signal PROVE AcksSettled'
  BY <1>14 DEF Signal, AcksSettled, Contexted, TypeOK, http, workers, kafka, control
<1>15. ASSUME StopBegins PROVE AcksSettled'
  BY <1>15 DEF StopBegins, AcksSettled, Contexted, TypeOK, http, workers, kafka, control
<1>16. ASSUME StopFails PROVE AcksSettled'
  BY <1>16 DEF StopFails, AcksSettled, Contexted, TypeOK, http, workers, kafka, control, Fault
<1>17. ASSUME StopReturns PROVE AcksSettled'
  BY <1>17 DEF StopReturns, AcksSettled, Contexted, TypeOK, http, workers, kafka, control
<1>18. ASSUME CloseNext PROVE AcksSettled'
  BY <1>18 DEF CloseNext, AcksSettled, Contexted, TypeOK, http, workers, kafka, control
<1>19. ASSUME Listen PROVE AcksSettled'
  BY <1>19 DEF Listen, AcksSettled, Contexted, TypeOK, http, workers, kafka, control
<1>20. ASSUME ListenFails PROVE AcksSettled'
  BY <1>20 DEF ListenFails, AcksSettled, Contexted, TypeOK, http, workers, kafka, control, Fault
<1>21. ASSUME StartReturns PROVE AcksSettled'
  BY <1>21 DEF StartReturns, AcksSettled, Contexted, TypeOK, http, workers, kafka, control
<1>22. ASSUME AllClear PROVE AcksSettled'
  BY <1>22 DEF AllClear, AcksSettled, Contexted, TypeOK, http, workers, kafka, control
<1>23. ASSUME NEW r \in Request, PublishUnacknowledged(r) PROVE AcksSettled'
  BY <1>23 DEF PublishUnacknowledged, AcksSettled, Contexted, TypeOK, http, workers, kafka, control, Fault
<1>24. ASSUME NEW r \in Request, NEW w \in Worker, HandOver(r, w) PROVE AcksSettled'
  BY <1>24 DEF HandOver, AcksSettled, Contexted, TypeOK, http, workers, kafka, control
<1>25. CASE UNCHANGED vars
  BY <1>25 DEF vars, http, workers, kafka, control, AcksSettled
<1> QED
  BY <1>1, <1>2, <1>3, <1>4, <1>5, <1>6, <1>7, <1>8, <1>9, <1>10, <1>11, <1>12,
     <1>13, <1>14, <1>15, <1>16, <1>17, <1>18, <1>19, <1>20, <1>21, <1>22, <1>23, <1>24, <1>25
  DEF Next, RequestStep, OfferStep, WorkerStep, Produce, StopStep, MainStep

LEMMA AnswersFinite == TypeOK => IsFiniteSet(InFlight \cup acks)
<1> SUFFICES ASSUME TypeOK PROVE IsFiniteSet(InFlight \cup acks)
  OBVIOUS
<1>1. InFlight \cup acks \in SUBSET Request
  BY DEF InFlight, TypeOK
<1> QED BY <1>1, FiniteAssumption, FS_Subset

LEMMA AwaitingFinite == IsFiniteSet(Awaiting)
<1>1. Providers = {"github"} \cup {"gitlab"}
  BY DEF Providers
<1>2. IsFiniteSet({"github"})
  <2>1. IsFiniteSet({} \cup {"github"})
    BY FS_EmptySet, FS_AddElement
  <2>2. {} \cup {"github"} = {"github"}
    OBVIOUS
  <2> QED BY <2>1, <2>2
<1>3. IsFiniteSet(Providers)
  BY <1>1, <1>2, FS_AddElement
<1>4. IsFiniteSet(Worker)
  BY <1>3, FiniteAssumption, FS_Product DEF Worker
<1>5. Awaiting \in SUBSET Worker
  BY DEF Awaiting
<1> QED BY <1>4, <1>5, FS_Subset

LEMMA AnswersNext ==
  MessageInv /\ AcksSettled /\ AnswersMatchWaits /\ [Next]_vars => AnswersMatchWaits'
<1> SUFFICES ASSUME TypeOK, Contexted, HandsInInput, OnePlace, AcksSettled, AnswersMatchWaits, [Next]_vars
             PROVE  AnswersMatchWaits'
  BY DEF MessageInv
<1>1. ASSUME NEW r \in Request, Read(r) PROVE AnswersMatchWaits'
  <2>1. InFlight' = InFlight /\ acks' = acks
    BY <1>1 DEF Read, InFlight, Contexted, TypeOK, workers, kafka, control
  <2>2. Awaiting' = Awaiting
    BY <1>1 DEF Read, Awaiting, TypeOK, workers, kafka, control
  <2> QED BY <2>1, <2>2 DEF AnswersMatchWaits
<1>2. ASSUME NEW r \in Request, HandleRefuses(r) PROVE AnswersMatchWaits'
  <2>1. InFlight' = InFlight /\ acks' = acks
    BY <1>2 DEF HandleRefuses, InFlight, Contexted, TypeOK, workers, kafka, control
  <2>2. Awaiting' = Awaiting
    BY <1>2 DEF HandleRefuses, Awaiting, TypeOK, workers, kafka, control
  <2> QED BY <2>1, <2>2 DEF AnswersMatchWaits
<1>3. ASSUME NEW r \in Request, HandleAccepts(r) PROVE AnswersMatchWaits'
  <2>1. InFlight' = InFlight /\ acks' = acks
    BY <1>3 DEF HandleAccepts, InFlight, Contexted, TypeOK, workers, kafka, control
  <2>2. Awaiting' = Awaiting
    BY <1>3 DEF HandleAccepts, Awaiting, TypeOK, workers, kafka, control
  <2> QED BY <2>1, <2>2 DEF AnswersMatchWaits
<1>4. ASSUME NEW r \in Request, Respond(r) PROVE AnswersMatchWaits'
  <2>1. InFlight' = InFlight /\ acks' = acks
    BY <1>4 DEF Respond, InFlight, Contexted, TypeOK, workers, kafka, control
  <2>2. Awaiting' = Awaiting
    BY <1>4 DEF Respond, Awaiting, TypeOK, workers, kafka, control
  <2> QED BY <2>1, <2>2 DEF AnswersMatchWaits
<1>5. ASSUME NEW r \in Request, Enqueue(r) PROVE AnswersMatchWaits'
  <2>1. InFlight' = InFlight /\ acks' = acks
    BY <1>5 DEF Enqueue, InFlight, Contexted, TypeOK, http, workers, kafka, control
  <2>2. Awaiting' = Awaiting
    BY <1>5 DEF Enqueue, Awaiting, TypeOK, http, workers, kafka, control
  <2> QED BY <2>1, <2>2 DEF AnswersMatchWaits
<1>6. ASSUME NEW r \in Request, Drop(r) PROVE AnswersMatchWaits'
  <2>1. InFlight' = InFlight /\ acks' = acks
    BY <1>6 DEF Drop, InFlight, Contexted, TypeOK, http, workers, kafka, control
  <2>2. Awaiting' = Awaiting
    BY <1>6 DEF Drop, Awaiting, TypeOK, http, workers, kafka, control
  <2> QED BY <2>1, <2>2 DEF AnswersMatchWaits
<1>7. ASSUME NEW r \in Request, EnqueuePanics(r) PROVE AnswersMatchWaits'
  <2>1. InFlight' = InFlight /\ acks' = acks
    BY <1>7 DEF EnqueuePanics, InFlight, Contexted, TypeOK, http, workers, kafka
  <2>2. Awaiting' = Awaiting
    BY <1>7 DEF EnqueuePanics, Awaiting, TypeOK, http, workers, kafka
  <2> QED BY <2>1, <2>2 DEF AnswersMatchWaits
<1>8. ASSUME NEW r \in Request, Publish(r) PROVE AnswersMatchWaits'
  <2>1. InFlight' = InFlight \ {r} /\ r \in InFlight
    BY <1>8 DEF Publish, InFlight, TypeOK
  <2>2. acks' = acks \cup {r}
    BY <1>8 DEF Publish
  <2>3. Awaiting' = Awaiting
    BY <1>8 DEF Publish, Awaiting, workers
  <2>4. InFlight' \cup acks' = InFlight \cup acks
    BY <2>1, <2>2
  <2> QED BY <2>1, <2>2, <2>3, <2>4 DEF AnswersMatchWaits
<1>9. ASSUME NEW r \in Request, PublishFails(r) PROVE AnswersMatchWaits'
  <2>1. InFlight' = InFlight \ {r} /\ r \in InFlight
    BY <1>9 DEF PublishFails, InFlight, TypeOK
  <2>2. acks' = acks \cup {r}
    BY <1>9 DEF PublishFails
  <2>3. Awaiting' = Awaiting
    BY <1>9 DEF PublishFails, Awaiting, workers
  <2>4. InFlight' \cup acks' = InFlight \cup acks
    BY <2>1, <2>2
  <2> QED BY <2>1, <2>2, <2>3, <2>4 DEF AnswersMatchWaits
<1>10. ASSUME NEW w \in Worker, WorkerTake(w) PROVE AnswersMatchWaits'
  <2>1. w[1] \in Providers /\ queue[w[1]] \in Seq(Request) /\ queue[w[1]] # << >>
    BY <1>10 DEF WorkerTake, Worker, TypeOK
  <2>2. Head(queue[w[1]]) = queue[w[1]][1] /\ 1 \in 1 .. Len(queue[w[1]])
    BY <2>1
  <2>3. fate[Head(queue[w[1]])] = "queued"
    BY <2>1, <2>2 DEF OnePlace, QueuesHoldQueued
  <2>4. InFlight' = InFlight /\ acks' = acks
    BY <1>10, <2>3 DEF WorkerTake, InFlight, kafka, TypeOK
  <2>5. Awaiting' = Awaiting
    BY <1>10 DEF WorkerTake, Awaiting, TypeOK
  <2> QED BY <2>4, <2>5 DEF AnswersMatchWaits
<1>11. ASSUME NEW w \in Worker, WorkerInput(w) PROVE AnswersMatchWaits'
  <2> DEFINE r == hand[w]
  <2>1. r \in Request /\ fate[r] = "held"
    BY <1>11 DEF WorkerInput, HandsInInput, OnePlace, HandsHoldHeld, TypeOK
  <2>2. r \notin InFlight \cup acks
    BY <2>1 DEF InFlight, AcksSettled
  <2>3. InFlight' = InFlight \cup {r} /\ acks' = acks
    BY <1>11, <2>1 DEF WorkerInput, InFlight, kafka, TypeOK
  <2>4. Awaiting' = Awaiting \cup {w} /\ w \notin Awaiting
    BY <1>11 DEF WorkerInput, Awaiting, TypeOK
  <2>5. Cardinality(Awaiting') = Cardinality(Awaiting) + 1
    BY <2>4, AwaitingFinite, FS_AddElement
  <2> HIDE DEF r
  <2>6. Cardinality((InFlight \cup acks) \cup {r}) = Cardinality(InFlight \cup acks) + 1
    BY <2>2, AnswersFinite, FS_AddElement
  <2>7. InFlight' \cup acks' = (InFlight \cup acks) \cup {r}
    BY <2>3
  <2> QED BY <2>2, <2>3, <2>5, <2>6, <2>7 DEF AnswersMatchWaits
<1>12. ASSUME NEW w \in Worker, WorkerAnswered(w) PROVE AnswersMatchWaits'
  <2>1. PICK r \in acks : acks' = acks \ {r}
    BY <1>12 DEF WorkerAnswered
  <2>2. InFlight' = InFlight /\ r \notin InFlight
    BY <1>12, <2>1 DEF WorkerAnswered, InFlight, AnswersMatchWaits
  <2>3. Awaiting' = Awaiting \ {w} /\ w \in Awaiting
    BY <1>12 DEF WorkerAnswered, Awaiting, TypeOK
  <2>4. Cardinality(Awaiting') = Cardinality(Awaiting) - 1
    BY <2>3, AwaitingFinite, FS_RemoveElement
  <2>5. Cardinality((InFlight \cup acks) \ {r}) = Cardinality(InFlight \cup acks) - 1
    BY <2>1, AnswersFinite, FS_RemoveElement
  <2>6. InFlight' \cup acks' = (InFlight \cup acks) \ {r}
    BY <2>1, <2>2
  <2> QED BY <2>1, <2>2, <2>4, <2>5, <2>6 DEF AnswersMatchWaits
<1>13. ASSUME NEW w \in Worker, WorkerReturn(w) PROVE AnswersMatchWaits'
  <2>1. InFlight' = InFlight /\ acks' = acks
    BY <1>13 DEF WorkerReturn, InFlight, Contexted, TypeOK, http, kafka, control
  <2>2. Awaiting' = Awaiting
    BY <1>13 DEF WorkerReturn, Awaiting, TypeOK, http, kafka, control
  <2> QED BY <2>1, <2>2 DEF AnswersMatchWaits
<1>14. ASSUME Signal PROVE AnswersMatchWaits'
  <2>1. InFlight' = InFlight /\ acks' = acks
    BY <1>14 DEF Signal, InFlight, Contexted, TypeOK, http, workers, kafka
  <2>2. Awaiting' = Awaiting
    BY <1>14 DEF Signal, Awaiting, TypeOK, http, workers, kafka
  <2> QED BY <2>1, <2>2 DEF AnswersMatchWaits
<1>15. ASSUME StopBegins PROVE AnswersMatchWaits'
  <2>1. InFlight' = InFlight /\ acks' = acks
    BY <1>15 DEF StopBegins, InFlight, Contexted, TypeOK, http, workers, kafka
  <2>2. Awaiting' = Awaiting
    BY <1>15 DEF StopBegins, Awaiting, TypeOK, http, workers, kafka
  <2> QED BY <2>1, <2>2 DEF AnswersMatchWaits
<1>16. ASSUME StopFails PROVE AnswersMatchWaits'
  <2>1. InFlight' = InFlight /\ acks' = acks
    BY <1>16 DEF StopFails, InFlight, Contexted, TypeOK, http, workers, kafka, Fault
  <2>2. Awaiting' = Awaiting
    BY <1>16 DEF StopFails, Awaiting, TypeOK, http, workers, kafka, Fault
  <2> QED BY <2>1, <2>2 DEF AnswersMatchWaits
<1>17. ASSUME StopReturns PROVE AnswersMatchWaits'
  <2>1. InFlight' = InFlight /\ acks' = acks
    BY <1>17 DEF StopReturns, InFlight, Contexted, TypeOK, http, workers, kafka
  <2>2. Awaiting' = Awaiting
    BY <1>17 DEF StopReturns, Awaiting, TypeOK, http, workers, kafka
  <2> QED BY <2>1, <2>2 DEF AnswersMatchWaits
<1>18. ASSUME CloseNext PROVE AnswersMatchWaits'
  <2>1. InFlight' = InFlight /\ acks' = acks
    BY <1>18 DEF CloseNext, InFlight, Contexted, TypeOK, http, workers, kafka
  <2>2. Awaiting' = Awaiting
    BY <1>18 DEF CloseNext, Awaiting, TypeOK, http, workers, kafka
  <2> QED BY <2>1, <2>2 DEF AnswersMatchWaits
<1>19. ASSUME Listen PROVE AnswersMatchWaits'
  <2>1. InFlight' = InFlight /\ acks' = acks
    BY <1>19 DEF Listen, InFlight, Contexted, TypeOK, http, workers, kafka
  <2>2. Awaiting' = Awaiting
    BY <1>19 DEF Listen, Awaiting, TypeOK, http, workers, kafka
  <2> QED BY <2>1, <2>2 DEF AnswersMatchWaits
<1>20. ASSUME ListenFails PROVE AnswersMatchWaits'
  <2>1. InFlight' = InFlight /\ acks' = acks
    BY <1>20 DEF ListenFails, InFlight, Contexted, TypeOK, http, workers, kafka, Fault
  <2>2. Awaiting' = Awaiting
    BY <1>20 DEF ListenFails, Awaiting, TypeOK, http, workers, kafka, Fault
  <2> QED BY <2>1, <2>2 DEF AnswersMatchWaits
<1>21. ASSUME StartReturns PROVE AnswersMatchWaits'
  <2>1. InFlight' = InFlight /\ acks' = acks
    BY <1>21 DEF StartReturns, InFlight, Contexted, TypeOK, http, workers, kafka
  <2>2. Awaiting' = Awaiting
    BY <1>21 DEF StartReturns, Awaiting, TypeOK, http, workers, kafka
  <2> QED BY <2>1, <2>2 DEF AnswersMatchWaits
<1>22. ASSUME AllClear PROVE AnswersMatchWaits'
  <2>1. InFlight' = InFlight /\ acks' = acks
    BY <1>22 DEF AllClear, InFlight, Contexted, TypeOK, http, workers, kafka
  <2>2. Awaiting' = Awaiting
    BY <1>22 DEF AllClear, Awaiting, TypeOK, http, workers, kafka
  <2> QED BY <2>1, <2>2 DEF AnswersMatchWaits
<1>23. ASSUME NEW r \in Request, PublishUnacknowledged(r) PROVE AnswersMatchWaits'
  <2>1. InFlight' = InFlight /\ acks' = acks /\ Awaiting' = Awaiting
    BY <1>23 DEF PublishUnacknowledged, InFlight, Awaiting, workers
  <2> QED BY <2>1 DEF AnswersMatchWaits
<1>24. ASSUME NEW r \in Request, NEW w \in Worker, HandOver(r, w) PROVE AnswersMatchWaits'
  <2>1. InFlight' = InFlight /\ acks' = acks
    BY <1>24 DEF HandOver, InFlight, Contexted, TypeOK, http, workers, kafka, control
  <2>2. Awaiting' = Awaiting
    BY <1>24 DEF HandOver, Awaiting, TypeOK, http, workers, kafka, control
  <2> QED BY <2>1, <2>2 DEF AnswersMatchWaits
<1>25. CASE UNCHANGED vars
  BY <1>25 DEF vars, http, workers, kafka, control, AnswersMatchWaits, InFlight, Awaiting
<1> QED
  BY <1>1, <1>2, <1>3, <1>4, <1>5, <1>6, <1>7, <1>8, <1>9, <1>10, <1>11, <1>12,
     <1>13, <1>14, <1>15, <1>16, <1>17, <1>18, <1>19, <1>20, <1>21, <1>22, <1>23, <1>24, <1>25
  DEF Next, RequestStep, OfferStep, WorkerStep, Produce, StopStep, MainStep

\* As many answers are given or to come as workers wait for one, although any
\* worker takes the answer to any message: none of them is left waiting, however
\* many messages and workers there are.
THEOREM AnswersAlwaysMatch == Spec => []AnswersMatchWaits
<1> DEFINE Inv == MessageInv /\ AcksSettled /\ AnswersMatchWaits
<1>1. Init => Inv
  BY MessageInit, AcksInit
<1>2. Inv /\ [Next]_vars => Inv'
  BY MessageNext, AcksSettledNext, AnswersNext
<1>3. Inv => AnswersMatchWaits
  OBVIOUS
<1> QED BY <1>1, <1>2, <1>3, PTL DEF Spec

-----------------------------------------------------------------------------
(***************************************************************************)
(* The end of the process.                                                 *)
(***************************************************************************)

LEMMA StoppedDryNext == TypeOK /\ StoppedDry /\ [Next]_vars => StoppedDry'
<1> SUFFICES ASSUME TypeOK, StoppedDry, [Next]_vars PROVE StoppedDry'
  OBVIOUS
<1>1. ASSUME NEW r \in Request, Read(r) PROVE StoppedDry'
  BY <1>1 DEF Read, StoppedDry, Closed, workers, kafka, control
<1>2. ASSUME NEW r \in Request, HandleRefuses(r) PROVE StoppedDry'
  BY <1>2 DEF HandleRefuses, StoppedDry, Closed, workers, kafka, control
<1>3. ASSUME NEW r \in Request, HandleAccepts(r) PROVE StoppedDry'
  BY <1>3 DEF HandleAccepts, StoppedDry, Closed, workers, kafka, control
<1>4. ASSUME NEW r \in Request, Respond(r) PROVE StoppedDry'
  BY <1>4 DEF Respond, StoppedDry, Closed, workers, kafka, control
<1>5. ASSUME NEW r \in Request, Enqueue(r) PROVE StoppedDry'
  BY <1>5 DEF Enqueue, StoppedDry, Closed, workers, control, TypeOK
<1>6. ASSUME NEW r \in Request, Drop(r) PROVE StoppedDry'
  BY <1>6 DEF Drop, StoppedDry, Closed, http, workers, kafka, control
<1>7. ASSUME NEW r \in Request, EnqueuePanics(r) PROVE StoppedDry'
  BY <1>7 DEF EnqueuePanics, StoppedDry, Closed, http, workers, kafka
<1>8. ASSUME NEW r \in Request, Publish(r) PROVE StoppedDry'
  BY <1>8 DEF Publish, StoppedDry, Closed, http, workers, control
<1>9. ASSUME NEW r \in Request, PublishFails(r) PROVE StoppedDry'
  BY <1>9 DEF PublishFails, StoppedDry, Closed, Fault, http, workers, control
<1>10. ASSUME NEW w \in Worker, WorkerTake(w) PROVE StoppedDry'
  <2>1. Closed' = Closed
    BY <1>10 DEF WorkerTake, Closed, control
  <2>2. \A v \in Worker : wpc'[v] = "stopped" => wpc[v] = "stopped"
    BY <1>10 DEF WorkerTake, TypeOK
  <2>3. \A v \in Worker : wpc[v] = "stopped" => v[1] # w[1]
    BY <1>10 DEF WorkerTake, StoppedDry
  <2>4. \A v \in Worker : v[1] # w[1] => queue'[v[1]] = queue[v[1]]
    BY <1>10 DEF WorkerTake, Worker, TypeOK
  <2> QED BY <2>1, <2>2, <2>3, <2>4 DEF StoppedDry
<1>11. ASSUME NEW w \in Worker, WorkerInput(w) PROVE StoppedDry'
  BY <1>11 DEF WorkerInput, StoppedDry, Closed, control, TypeOK
<1>12. ASSUME NEW w \in Worker, WorkerAnswered(w) PROVE StoppedDry'
  BY <1>12 DEF WorkerAnswered, StoppedDry, Closed, control, TypeOK
<1>13. ASSUME NEW w \in Worker, WorkerReturn(w) PROVE StoppedDry'
  BY <1>13 DEF WorkerReturn, StoppedDry, Closed, control, TypeOK
<1>14. ASSUME Signal PROVE StoppedDry'
  BY <1>14 DEF Signal, StoppedDry, Closed, http, workers, kafka
<1>15. ASSUME StopBegins PROVE StoppedDry'
  BY <1>15 DEF StopBegins, StoppedDry, Closed, http, workers, kafka
<1>16. ASSUME StopFails PROVE StoppedDry'
  BY <1>16 DEF StopFails, StoppedDry, Closed, http, workers, kafka, Fault
<1>17. ASSUME StopReturns PROVE StoppedDry'
  BY <1>17 DEF StopReturns, StoppedDry, Closed, http, workers, kafka
<1>18. ASSUME CloseNext PROVE StoppedDry'
  <2>1. Closed \subseteq Closed'
    BY <1>18 DEF CloseNext, Closed, Providers
  <2>2. wpc' = wpc /\ queue' = queue
    BY <1>18 DEF CloseNext, workers
  <2> QED BY <2>1, <2>2 DEF StoppedDry
<1>19. ASSUME Listen PROVE StoppedDry'
  BY <1>19 DEF Listen, StoppedDry, Closed, http, workers, kafka
<1>20. ASSUME ListenFails PROVE StoppedDry'
  BY <1>20 DEF ListenFails, StoppedDry, Closed, http, workers, kafka, Fault
<1>21. ASSUME StartReturns PROVE StoppedDry'
  BY <1>21 DEF StartReturns, StoppedDry, Closed, http, workers, kafka
<1>22. ASSUME AllClear PROVE StoppedDry'
  BY <1>22 DEF AllClear, StoppedDry, Closed, http, workers, kafka
<1>23. ASSUME NEW r \in Request, PublishUnacknowledged(r) PROVE StoppedDry'
  BY <1>23 DEF PublishUnacknowledged, StoppedDry, Closed, Fault, http, workers, control
<1>24. ASSUME NEW r \in Request, NEW w \in Worker, HandOver(r, w) PROVE StoppedDry'
  BY <1>24 DEF HandOver, StoppedDry, Closed, http, workers, kafka, control
<1>25. CASE UNCHANGED vars
  BY <1>25 DEF vars, http, workers, kafka, control, StoppedDry, Closed
<1> QED
  BY <1>1, <1>2, <1>3, <1>4, <1>5, <1>6, <1>7, <1>8, <1>9, <1>10, <1>11, <1>12,
     <1>13, <1>14, <1>15, <1>16, <1>17, <1>18, <1>19, <1>20, <1>21, <1>22, <1>23, <1>24, <1>25
  DEF Next, RequestStep, OfferStep, WorkerStep, Produce, StopStep, MainStep

LEMMA ClearStoppedNext == TypeOK /\ ClearStopped /\ [Next]_vars => ClearStopped'
<1> SUFFICES ASSUME TypeOK, ClearStopped, [Next]_vars PROVE ClearStopped'
  OBVIOUS
<1>1. ASSUME NEW r \in Request, Read(r) PROVE ClearStopped'
  BY <1>1 DEF Read, ClearStopped, Alive, workers, kafka, control
<1>2. ASSUME NEW r \in Request, HandleRefuses(r) PROVE ClearStopped'
  BY <1>2 DEF HandleRefuses, ClearStopped, Alive, workers, kafka, control
<1>3. ASSUME NEW r \in Request, HandleAccepts(r) PROVE ClearStopped'
  BY <1>3 DEF HandleAccepts, ClearStopped, Alive, workers, kafka, control
<1>4. ASSUME NEW r \in Request, Respond(r) PROVE ClearStopped'
  BY <1>4 DEF Respond, ClearStopped, Alive, workers, kafka, control
<1>5. ASSUME NEW r \in Request, Enqueue(r) PROVE ClearStopped'
  BY <1>5 DEF Enqueue, ClearStopped, Alive, http, workers, kafka, control
<1>6. ASSUME NEW r \in Request, Drop(r) PROVE ClearStopped'
  BY <1>6 DEF Drop, ClearStopped, Alive, http, workers, kafka, control
<1>7. ASSUME NEW r \in Request, EnqueuePanics(r) PROVE ClearStopped'
  BY <1>7 DEF EnqueuePanics, ClearStopped, Alive, http, workers, kafka
<1>8. ASSUME NEW r \in Request, Publish(r) PROVE ClearStopped'
  BY <1>8 DEF Publish, ClearStopped, Alive, http, workers, control
<1>9. ASSUME NEW r \in Request, PublishFails(r) PROVE ClearStopped'
  BY <1>9 DEF PublishFails, ClearStopped, Alive, Fault, http, workers, control
<1>10. ASSUME NEW w \in Worker, WorkerTake(w) PROVE ClearStopped'
  BY <1>10 DEF WorkerTake, ClearStopped, Alive, http, kafka, control, TypeOK
<1>11. ASSUME NEW w \in Worker, WorkerInput(w) PROVE ClearStopped'
  BY <1>11 DEF WorkerInput, ClearStopped, Alive, http, kafka, control, TypeOK
<1>12. ASSUME NEW w \in Worker, WorkerAnswered(w) PROVE ClearStopped'
  BY <1>12 DEF WorkerAnswered, ClearStopped, Alive, http, control, TypeOK
<1>13. ASSUME NEW w \in Worker, WorkerReturn(w) PROVE ClearStopped'
  BY <1>13 DEF WorkerReturn, ClearStopped, Alive, http, kafka, control, TypeOK
<1>14. ASSUME Signal PROVE ClearStopped'
  BY <1>14 DEF Signal, ClearStopped, Alive, http, workers, kafka
<1>15. ASSUME StopBegins PROVE ClearStopped'
  BY <1>15 DEF StopBegins, ClearStopped, Alive, http, workers, kafka
<1>16. ASSUME StopFails PROVE ClearStopped'
  BY <1>16 DEF StopFails, ClearStopped, Alive, http, workers, kafka, Fault
<1>17. ASSUME StopReturns PROVE ClearStopped'
  BY <1>17 DEF StopReturns, ClearStopped, Alive, http, workers, kafka
<1>18. ASSUME CloseNext PROVE ClearStopped'
  BY <1>18 DEF CloseNext, ClearStopped, Alive, http, workers, kafka
<1>19. ASSUME Listen PROVE ClearStopped'
  BY <1>19 DEF Listen, ClearStopped, Alive, http, workers, kafka
<1>20. ASSUME ListenFails PROVE ClearStopped'
  BY <1>20 DEF ListenFails, ClearStopped, Alive, http, workers, kafka, Fault
<1>21. ASSUME StartReturns PROVE ClearStopped'
  BY <1>21 DEF StartReturns, ClearStopped, Alive, http, workers, kafka
<1>22. ASSUME AllClear PROVE ClearStopped'
  BY <1>22 DEF AllClear, ClearStopped, Alive, http, workers, kafka
<1>23. ASSUME NEW r \in Request, PublishUnacknowledged(r) PROVE ClearStopped'
  BY <1>23 DEF PublishUnacknowledged, ClearStopped, Alive, Fault, http, workers, control
<1>24. ASSUME NEW r \in Request, NEW w \in Worker, HandOver(r, w) PROVE ClearStopped'
  BY <1>24 DEF HandOver, ClearStopped, Alive, http, workers, kafka, control
<1>25. CASE UNCHANGED vars
  BY <1>25 DEF vars, http, workers, kafka, control, ClearStopped
<1> QED
  BY <1>1, <1>2, <1>3, <1>4, <1>5, <1>6, <1>7, <1>8, <1>9, <1>10, <1>11, <1>12,
     <1>13, <1>14, <1>15, <1>16, <1>17, <1>18, <1>19, <1>20, <1>21, <1>22, <1>23, <1>24, <1>25
  DEF Next, RequestStep, OfferStep, WorkerStep, Produce, StopStep, MainStep

AllClearInv == MessageInv /\ AcksSettled /\ AnswersMatchWaits /\ StoppedDry /\ ClearStopped

LEMMA AllClearInvInit == Init => AllClearInv
<1>1. Init => StoppedDry /\ ClearStopped
  BY DEF Init, StoppedDry, ClearStopped
<1> QED BY <1>1, MessageInit, AcksInit DEF AllClearInv

LEMMA AllClearInvNext == AllClearInv /\ [Next]_vars => AllClearInv'
<1>1. MessageInv => TypeOK
  BY DEF MessageInv
<1> QED
  BY <1>1, MessageNext, AcksSettledNext, AnswersNext, StoppedDryNext, ClearStoppedNext
  DEF AllClearInv

LEMMA AllClearFollows == AllClearInv => AllClearIsClear
<1> SUFFICES ASSUME AllClearInv, main = "clear" PROVE AllClearIsClear
  BY DEF AllClearIsClear
<1>1. \A w \in Worker : wpc[w] = "stopped"
  BY DEF AllClearInv, ClearStopped
<1>2. InFlight \cup acks = {}
  <2>1. Awaiting = {}
    BY <1>1 DEF Awaiting
  <2>2. IsFiniteSet(InFlight \cup acks)
    BY AnswersFinite DEF AllClearInv, MessageInv
  <2>3. Cardinality(InFlight \cup acks) = 0
    BY <2>1, FS_EmptySet DEF AllClearInv, AnswersMatchWaits
  <2> QED BY <2>2, <2>3, FS_EmptySet
<1>3. \A r \in Request : fate[r] # "sent"
  BY <1>2 DEF InFlight
<1>4. \A r \in Request : fate[r] # "held"
  <2>1. \A w \in Worker : hand[w] = NoRequest
    BY <1>1 DEF AllClearInv, MessageInv, HandsInInput
  <2> QED BY <2>1, NoRequestAssumption DEF AllClearInv, MessageInv, OnePlace, HandsHoldHeld
<1>5. \A r \in Request : fate[r] # "queued"
  <2>1. \A p \in Providers : queue[p] = << >>
    <3> SUFFICES ASSUME NEW p \in Providers PROVE queue[p] = << >>
      OBVIOUS
    <3>1. PICK i \in WorkerIds : TRUE
      BY WorkerAssumption
    <3>2. << p, i >> \in Worker /\ << p, i >>[1] = p
      BY <3>1 DEF Worker
    <3> QED BY <3>2, <1>1 DEF AllClearInv, StoppedDry
  <2>2. \A r \in Request : Len(queue[ProviderOf(r)]) = 0
    BY <2>1, ProviderTyped
  <2> QED BY <2>2 DEF AllClearInv, MessageInv, OnePlace, QueuesHoldQueued
<1> QED BY <1>2, <1>3, <1>4, <1>5 DEF AllClearIsClear

\* "all clear" is true, for any number of messages and workers: at that point
\* the queues are closed and empty, no worker holds a message or waits, and so
\* the producer has no message left, nor an answer nobody took.
THEOREM AllClearIsTrue == Spec => []AllClearIsClear
BY AllClearInvInit, AllClearInvNext, AllClearFollows, PTL DEF Spec

LEMMA ServerSignalNext == TypeOK /\ ServerSignal /\ [Next]_vars => ServerSignal'
<1> SUFFICES ASSUME TypeOK, ServerSignal, [Next]_vars PROVE ServerSignal'
  OBVIOUS
<1>1. ASSUME NEW r \in Request, Read(r) PROVE ServerSignal'
  BY <1>1 DEF Read, ServerSignal, Open, workers, kafka, control, TypeOK
<1>2. ASSUME NEW r \in Request, HandleRefuses(r) PROVE ServerSignal'
  BY <1>2 DEF HandleRefuses, ServerSignal, Open, workers, kafka, control, TypeOK
<1>3. ASSUME NEW r \in Request, HandleAccepts(r) PROVE ServerSignal'
  BY <1>3 DEF HandleAccepts, ServerSignal, Open, workers, kafka, control, TypeOK
<1>4. ASSUME NEW r \in Request, Respond(r) PROVE ServerSignal'
  BY <1>4 DEF Respond, ServerSignal, Open, workers, kafka, control, TypeOK
<1>5. ASSUME NEW r \in Request, Enqueue(r) PROVE ServerSignal'
  BY <1>5 DEF Enqueue, ServerSignal, Open, http, workers, kafka, control, TypeOK
<1>6. ASSUME NEW r \in Request, Drop(r) PROVE ServerSignal'
  BY <1>6 DEF Drop, ServerSignal, Open, http, workers, kafka, control, TypeOK
<1>7. ASSUME NEW r \in Request, EnqueuePanics(r) PROVE ServerSignal'
  BY <1>7 DEF EnqueuePanics, ServerSignal, Open, http, workers, kafka, TypeOK
<1>8. ASSUME NEW r \in Request, Publish(r) PROVE ServerSignal'
  BY <1>8 DEF Publish, ServerSignal, Open, http, workers, control, TypeOK
<1>9. ASSUME NEW r \in Request, PublishFails(r) PROVE ServerSignal'
  BY <1>9 DEF PublishFails, ServerSignal, Open, Fault, http, workers, control, TypeOK
<1>10. ASSUME NEW w \in Worker, WorkerTake(w) PROVE ServerSignal'
  BY <1>10 DEF WorkerTake, ServerSignal, Open, http, kafka, control, TypeOK
<1>11. ASSUME NEW w \in Worker, WorkerInput(w) PROVE ServerSignal'
  BY <1>11 DEF WorkerInput, ServerSignal, Open, http, kafka, control, TypeOK
<1>12. ASSUME NEW w \in Worker, WorkerAnswered(w) PROVE ServerSignal'
  BY <1>12 DEF WorkerAnswered, ServerSignal, Open, http, control, TypeOK
<1>13. ASSUME NEW w \in Worker, WorkerReturn(w) PROVE ServerSignal'
  BY <1>13 DEF WorkerReturn, ServerSignal, Open, http, kafka, control, TypeOK
<1>14. ASSUME Signal PROVE ServerSignal'
  BY <1>14 DEF Signal, ServerSignal, Open, http, workers, kafka, TypeOK
<1>15. ASSUME StopBegins PROVE ServerSignal'
  BY <1>15 DEF StopBegins, ServerSignal, Open, http, workers, kafka, TypeOK
<1>16. ASSUME StopFails PROVE ServerSignal'
  BY <1>16 DEF StopFails, ServerSignal, Open, http, workers, kafka, Fault, TypeOK
<1>17. ASSUME StopReturns PROVE ServerSignal'
  BY <1>17 DEF StopReturns, ServerSignal, Open, http, workers, kafka, TypeOK
<1>18. ASSUME CloseNext PROVE ServerSignal'
  BY <1>18 DEF CloseNext, ServerSignal, Open, http, workers, kafka, TypeOK
<1>19. ASSUME Listen PROVE ServerSignal'
  BY <1>19 DEF Listen, ServerSignal, Open, http, workers, kafka, TypeOK
<1>20. ASSUME ListenFails PROVE ServerSignal'
  BY <1>20 DEF ListenFails, ServerSignal, Open, http, workers, kafka, Fault, TypeOK
<1>21. ASSUME StartReturns PROVE ServerSignal'
  BY <1>21 DEF StartReturns, ServerSignal, Open, http, workers, kafka, TypeOK
<1>22. ASSUME AllClear PROVE ServerSignal'
  BY <1>22 DEF AllClear, ServerSignal, Open, http, workers, kafka, TypeOK
<1>23. ASSUME NEW r \in Request, PublishUnacknowledged(r) PROVE ServerSignal'
  BY <1>23 DEF PublishUnacknowledged, ServerSignal, Open, Fault, http, workers, control, TypeOK
<1>24. ASSUME NEW r \in Request, NEW w \in Worker, HandOver(r, w) PROVE ServerSignal'
  BY <1>24 DEF HandOver, ServerSignal, Open, http, workers, kafka, control, TypeOK
<1>25. CASE UNCHANGED vars
  BY <1>25 DEF vars, http, workers, kafka, control, ServerSignal, Open
<1> QED
  BY <1>1, <1>2, <1>3, <1>4, <1>5, <1>6, <1>7, <1>8, <1>9, <1>10, <1>11, <1>12,
     <1>13, <1>14, <1>15, <1>16, <1>17, <1>18, <1>19, <1>20, <1>21, <1>22, <1>23, <1>24, <1>25
  DEF Next, RequestStep, OfferStep, WorkerStep, Produce, StopStep, MainStep

\* Only the goroutine that offers a message to a closed queue panics, and after a
\* stop that waited for the connections its request was answered.
PanickedOffering ==
  main = "panicked" =>
    \E r \in Request :
      /\ fate[r] = "offered" /\ ProviderOf(r) \in Closed
      /\ server \in {"closing", "closed"} => conn[r] = "answered"

LEMMA PanickedOfferingNext ==
  ASSUME MessageInv, ServerSignal, PanickedOffering, [Next]_vars
  PROVE  PanickedOffering'
<1>1. CASE main = "panicked"
  <2>1. UNCHANGED vars
    BY <1>1
    DEF Next, RequestStep, OfferStep, WorkerStep, Produce, StopStep, MainStep, Read, HandleRefuses,
        HandleAccepts, Respond, Enqueue, HandOver, Drop, EnqueuePanics, Publish, PublishFails,
        PublishUnacknowledged, WorkerTake, WorkerInput, WorkerAnswered, WorkerReturn, Signal,
        StopBegins, StopFails, StopReturns, CloseNext, Listen, ListenFails, StartReturns, AllClear,
        Alive
  <2> QED BY <2>1 DEF PanickedOffering, Closed, vars, http, control
<1>2. CASE main' # "panicked"
  BY <1>2 DEF PanickedOffering
<1>3. CASE main # "panicked" /\ main' = "panicked"
  <2>1. PICK r \in Request : EnqueuePanics(r)
    BY <1>3
    DEF Next, RequestStep, OfferStep, WorkerStep, Produce, StopStep, MainStep, Read, HandleRefuses,
        HandleAccepts, Respond, Enqueue, HandOver, Drop, Publish, PublishFails,
        PublishUnacknowledged, WorkerTake, WorkerInput, WorkerAnswered, WorkerReturn, Signal,
        StopBegins, StopFails, StopReturns, CloseNext, Listen, ListenFails, StartReturns, AllClear,
        vars, control
  <2>2. fate[r] = "offered" /\ ProviderOf(r) \in Closed
    BY <2>1 DEF EnqueuePanics
  <2>3. server \in {"closing", "closed"} => conn[r] = "answered"
    <3>1. conn[r] \notin {"none", "read"} /\ conn[r] \in {"none", "read", "handled", "answered"}
      BY <2>2 DEF MessageInv, Contexted, TypeOK
    <3> QED BY <2>2, <3>1 DEF ServerSignal, Open, Closed
  <2> QED BY <2>1, <2>2, <2>3 DEF EnqueuePanics, PanickedOffering, Closed, http
<1> QED BY <1>1, <1>2, <1>3

\* The queues are not closed under a handler of a server that was stopped, and
\* the one thing that panics is the goroutine a handler has left behind.
THEOREM HandlersBeforeQueues == Spec => []QueuesOutliveHandlers
<1> DEFINE Inv == MessageInv /\ ServerSignal /\ PanickedOffering
<1>1. Init => Inv
  <2>1. Init => ServerSignal /\ PanickedOffering
    BY DEF Init, ServerSignal, PanickedOffering
  <2> QED BY <2>1, MessageInit
<1>2. Inv /\ [Next]_vars => Inv'
  <2>1. MessageInv => TypeOK
    BY DEF MessageInv
  <2> QED BY <2>1, MessageNext, ServerSignalNext, PanickedOfferingNext
<1>3. Inv => QueuesOutliveHandlers
  BY DEF ServerSignal, PanickedOffering, QueuesOutliveHandlers, Closed
<1> QED BY <1>1, <1>2, <1>3, PTL DEF Spec

-----------------------------------------------------------------------------
(***************************************************************************)
(* What the producer reports and what the brokers get.                     *)
(***************************************************************************)

\* A step stores a copy of a message the producer has, and the producer hears
\* of it, or does not, which is a fault.
Copied(r) ==
  /\ fate[r] = "sent" /\ copies' = [copies EXCEPT ![r] = Append(@, buffer[context[r]])]
  /\ \/ fate' = [fate EXCEPT ![r] = "published"] /\ faults' = faults
     \/ fate' = fate /\ Fault

\* What is with the producer stays there until the producer settles it, and what
\* it has settled stays settled.
SentStays ==
  \A r \in Request :
    /\ fate[r] = "sent" => fate'[r] \in {"sent", "published", "failed"}
    /\ fate[r] \in {"published", "failed"} => fate'[r] = fate[r]

LEMMA SentStaysNext == MessageInv /\ [Next]_vars => SentStays
<1> SUFFICES ASSUME MessageInv, [Next]_vars PROVE SentStays
  OBVIOUS
<1>1. ASSUME UNCHANGED fate PROVE SentStays
  BY <1>1 DEF SentStays
<1>2. ASSUME NEW r \in Request, NEW f, fate' = [fate EXCEPT ![r] = f],
             \/ fate[r] \notin {"sent", "published", "failed"}
             \/ fate[r] = "sent" /\ f \in {"sent", "published", "failed"}
      PROVE  SentStays
  BY <1>2 DEF SentStays, MessageInv, TypeOK
<1>3. ASSUME NEW r \in Request,
             \/ HandleRefuses(r) \/ HandleAccepts(r) \/ Enqueue(r) \/ Drop(r)
             \/ \E w \in Worker : HandOver(r, w)
      PROVE  SentStays
  <2>1. fate[r] \notin {"sent", "published", "failed"}
    BY <1>3 DEF HandleRefuses, HandleAccepts, Enqueue, Drop, HandOver, MessageInv, Contexted
  <2> QED BY <1>2, <1>3, <2>1 DEF HandleRefuses, HandleAccepts, Enqueue, Drop, HandOver
<1>4. ASSUME NEW w \in Worker, WorkerTake(w) PROVE SentStays
  <2>1. w[1] \in Providers /\ queue[w[1]] \in Seq(Request) /\ queue[w[1]] # << >>
    BY <1>4 DEF WorkerTake, Worker, MessageInv, TypeOK
  <2>2. Head(queue[w[1]]) = queue[w[1]][1] /\ 1 \in 1 .. Len(queue[w[1]])
    BY <2>1
  <2>3. Head(queue[w[1]]) \in Request /\ fate[Head(queue[w[1]])] = "queued"
    BY <2>1, <2>2 DEF MessageInv, OnePlace, QueuesHoldQueued
  <2> QED BY <1>2, <1>4, <2>3 DEF WorkerTake
<1>5. ASSUME NEW w \in Worker, WorkerInput(w) PROVE SentStays
  <2>1. hand[w] \in Request /\ fate[hand[w]] = "held"
    BY <1>5 DEF WorkerInput, MessageInv, HandsInInput, OnePlace, HandsHoldHeld, TypeOK
  <2> QED BY <1>2, <1>5, <2>1 DEF WorkerInput
<1>6. ASSUME NEW r \in Request, Publish(r) \/ PublishFails(r) PROVE SentStays
  BY <1>2, <1>6 DEF Publish, PublishFails
<1> QED
  BY <1>1, <1>3, <1>4, <1>5, <1>6
  DEF Next, vars, RequestStep, OfferStep, WorkerStep, Produce, StopStep, MainStep, Read, Respond,
      EnqueuePanics, PublishUnacknowledged, WorkerAnswered, WorkerReturn, Signal, StopBegins,
      StopFails, StopReturns, CloseNext, Listen, ListenFails, StartReturns, AllClear

LEMMA CopiesView ==
  ASSUME [Next]_vars, MessageInv
  PROVE  \/ \E r \in Request : Copied(r) /\ UNCHANGED http
         \/ /\ copies' = copies /\ faults' \in {faults, faults + 1}
            /\ \A r \in Request : fate'[r] = "published" => fate[r] = "published"
<1>1. ASSUME NEW r \in Request, Publish(r) \/ PublishUnacknowledged(r)
      PROVE  Copied(r) /\ UNCHANGED http
  BY <1>1 DEF Publish, PublishUnacknowledged, Copied
<1>2. ASSUME UNCHANGED << kafka, faults >>,
             UNCHANGED fate
               \/ \E s, f : f # "published" /\ fate' = [fate EXCEPT ![s] = f]
      PROVE  /\ copies' = copies /\ faults' \in {faults, faults + 1}
             /\ \A r \in Request : fate'[r] = "published" => fate[r] = "published"
  BY <1>2 DEF kafka, MessageInv, TypeOK
<1>3. ASSUME NEW r \in Request, PublishFails(r)
      PROVE  /\ copies' = copies /\ faults' \in {faults, faults + 1}
             /\ \A q \in Request : fate'[q] = "published" => fate[q] = "published"
  BY <1>3 DEF PublishFails, Fault, MessageInv, TypeOK
<1>4. ASSUME \/ \E r \in Request : Read(r) \/ RequestStep(r) \/ OfferStep(r)
             \/ \E w \in Worker : WorkerTake(w) \/ WorkerInput(w) \/ WorkerReturn(w)
             \/ Signal \/ StopBegins \/ StopReturns \/ CloseNext
             \/ Listen \/ StartReturns \/ AllClear \/ UNCHANGED vars
      PROVE  /\ UNCHANGED << kafka, faults >>
             /\ UNCHANGED fate
                  \/ \E s, f : f # "published" /\ fate' = [fate EXCEPT ![s] = f]
  BY <1>4
  DEF RequestStep, OfferStep, Read, HandleRefuses, HandleAccepts, Respond, Enqueue, HandOver, Drop,
      EnqueuePanics, WorkerTake, WorkerInput, WorkerReturn, Signal, StopBegins, StopReturns,
      CloseNext, Listen, StartReturns, AllClear, vars
<1>5. ASSUME (\E w \in Worker : WorkerAnswered(w)) \/ StopFails \/ ListenFails
      PROVE  copies' = copies /\ faults' \in {faults, faults + 1} /\ UNCHANGED fate
  BY <1>5 DEF WorkerAnswered, StopFails, ListenFails, Fault, kafka
<1> QED
  BY <1>1, <1>2, <1>3, <1>4, <1>5 DEF Next, WorkerStep, Produce, StopStep, MainStep

LEMMA StoredAsReportedNext ==
  ASSUME MessageInv, StoredAsReported, [Next]_vars
  PROVE  StoredAsReported'
<1>1. /\ copies \in [Request -> Seq(Request)] /\ fate \in [Request -> Fates] /\ faults \in Nat
      /\ SentStays
  BY SentStaysNext, FaultAssumption DEF MessageInv, TypeOK
<1>2. ASSUME NEW r \in Request, Copied(r), NEW q \in Request
      PROVE  /\ copies'[q] # << >> => fate'[q] \in {"sent", "published", "failed"}
             /\ fate'[q] = "published" => copies'[q] # << >>
             /\ Len(copies'[q]) <= faults' + (IF fate'[q] = "published" THEN 1 ELSE 0)
  <2>1. /\ fate[r] = "sent" /\ Len(copies[r]) <= faults /\ Len(copies[r]) \in Nat
        /\ fate'[r] \in {"sent", "published"}
    BY <1>1, <1>2 DEF Copied, StoredAsReported
  <2>2. copies'[r] # << >> /\ Len(copies'[r]) = Len(copies[r]) + 1
    <3>1. copies[r] \in Seq(Request) /\ buffer[context[r]] \in Request
      BY <1>1, <2>1 DEF MessageInv, Contexted, TypeOK
    <3>2. /\ Len(Append(copies[r], buffer[context[r]])) = Len(copies[r]) + 1
          /\ Len(copies[r]) \in Nat
      BY <3>1
    <3>3. copies'[r] = Append(copies[r], buffer[context[r]])
      BY <1>1, <1>2 DEF Copied
    <3>4. copies'[r] = << >> => Len(copies'[r]) = 0
      OBVIOUS
    <3> QED BY <3>2, <3>3, <3>4
  <2>3. Len(copies'[r]) <= faults' + (IF fate'[r] = "published" THEN 1 ELSE 0)
    BY <1>1, <1>2, <2>1, <2>2 DEF Copied, Fault
  <2>4. CASE q = r
    BY <2>1, <2>2, <2>3, <2>4
  <2>5. CASE q # r
    <3>1. copies'[q] = copies[q] /\ fate'[q] = fate[q] /\ faults' \in {faults, faults + 1}
      BY <1>1, <1>2, <2>5 DEF Copied, Fault
    <3>2. Len(copies[q]) \in Nat
      BY <1>1
    <3> QED BY <1>1, <3>1, <3>2 DEF StoredAsReported
  <2> QED BY <2>4, <2>5
<1>3. ASSUME copies' = copies, faults' \in {faults, faults + 1}, NEW q \in Request,
             \A r \in Request : fate'[r] = "published" => fate[r] = "published"
      PROVE  /\ copies'[q] # << >> => fate'[q] \in {"sent", "published", "failed"}
             /\ fate'[q] = "published" => copies'[q] # << >>
             /\ Len(copies'[q]) <= faults' + (IF fate'[q] = "published" THEN 1 ELSE 0)
  <2>1. (fate'[q] = "published") <=> (fate[q] = "published")
    BY <1>1, <1>3 DEF SentStays
  <2>2. Len(copies[q]) \in Nat
    BY <1>1
  <2>3. Len(copies'[q]) <= faults' + (IF fate'[q] = "published" THEN 1 ELSE 0)
    BY <1>1, <1>3, <2>1, <2>2 DEF StoredAsReported
  <2> QED BY <1>1, <1>3, <2>1, <2>3 DEF StoredAsReported, SentStays
<1> QED BY <1>2, <1>3, CopiesView DEF StoredAsReported

\* While a request is open its context is its own, and what is in the buffers of
\* a context belongs to a request that was read into it.
BuffersOwned ==
  /\ \A r \in Open : buffer[context[r]] = r
  /\ \A c \in Contexts : buffer[c] # NoRequest => conn[buffer[c]] # "none" /\ context[buffer[c]] = c

\* A copy has the bytes of a request that was read.
CopiesOfRead == \A r \in Request : \A i \in DOMAIN copies[r] : conn[copies[r][i]] # "none"

\* What a step does to the connections: one is read, or goes on, or none.
LEMMA ConnView ==
  ASSUME [Next]_vars, MessageInv
  PROVE  \/ \E r \in Request : Read(r)
         \/ /\ UNCHANGED << context, buffer >>
            /\ \A r \in Request :
                 /\ conn[r] = "none" <=> conn'[r] = "none"
                 /\ conn[r] = "answered" => conn'[r] = "answered"
                 /\ r \in Open' => r \in Open
<1>1. ASSUME NEW r \in Request, RequestStep(r)
      PROVE  /\ UNCHANGED << context, buffer >> /\ conn[r] \in {"read", "handled"}
             /\ \E f \in {"handled", "answered"} : conn' = [conn EXCEPT ![r] = f]
  BY <1>1 DEF RequestStep, HandleRefuses, HandleAccepts, Respond
<1>2. CASE UNCHANGED http
  BY <1>2 DEF http, Open
<1>3. CASE ~UNCHANGED http /\ ~\E r \in Request : Read(r)
  <2>1. \E r \in Request : RequestStep(r)
    BY <1>3
    DEF Next, vars, OfferStep, WorkerStep, Produce, StopStep, MainStep, Enqueue, HandOver, Drop,
        EnqueuePanics, Publish, PublishFails, PublishUnacknowledged, WorkerTake, WorkerInput,
        WorkerAnswered, WorkerReturn, Signal, StopBegins, StopFails, StopReturns, CloseNext, Listen,
        ListenFails, StartReturns, AllClear
  <2> QED BY <1>1, <2>1 DEF Open, MessageInv, TypeOK
<1> QED BY <1>2, <1>3

LEMMA BuffersOwnedNext ==
  ASSUME MessageInv, BuffersOwned, [Next]_vars
  PROVE  BuffersOwned'
<1>1. ASSUME NEW r \in Request, Read(r) PROVE BuffersOwned'
  <2>1. PICK c \in Free : /\ context' = [context EXCEPT ![r] = c]
                          /\ buffer' = [buffer EXCEPT ![c] = r]
    BY <1>1 DEF Read
  <2>2. /\ c \in Contexts /\ conn[r] = "none" /\ conn' = [conn EXCEPT ![r] = "read"]
        /\ \A q \in Open : context[q] # c /\ q # r
    BY <1>1 DEF Read, Free, Open
  <2>3. ASSUME NEW q \in Request, q \in Open' PROVE buffer'[context'[q]] = q
    <3>1. CASE q = r
      BY <2>1, <2>2, <3>1 DEF MessageInv, TypeOK
    <3>2. CASE q # r
      <4>1. q \in Open
        BY <2>2, <2>3, <3>2 DEF Open, MessageInv, TypeOK
      <4>2. context[q] \in Contexts
        BY <4>1 DEF Open, MessageInv, Contexted
      <4> QED BY <2>1, <2>2, <3>2, <4>1, <4>2 DEF BuffersOwned, MessageInv, TypeOK
    <3> QED BY <3>1, <3>2
  <2>4. ASSUME NEW d \in Contexts, buffer'[d] # NoRequest
        PROVE  conn'[buffer'[d]] # "none" /\ context'[buffer'[d]] = d
    <3>1. CASE d = c
      BY <2>1, <2>2, <3>1 DEF MessageInv, TypeOK
    <3>2. CASE d # c
      <4>1. /\ buffer'[d] = buffer[d] /\ buffer[d] \in Request
            /\ conn[buffer[d]] # "none" /\ context[buffer[d]] = d
        BY <2>1, <2>2, <2>4, <3>2 DEF BuffersOwned, MessageInv, TypeOK
      <4> QED BY <2>1, <2>2, <4>1 DEF MessageInv, TypeOK
    <3> QED BY <3>1, <3>2
  <2> QED BY <2>3, <2>4 DEF BuffersOwned, Open
<1>2. ASSUME UNCHANGED << context, buffer >>,
             \A r \in Request : /\ conn[r] = "none" <=> conn'[r] = "none"
                                /\ r \in Open' => r \in Open
      PROVE  BuffersOwned'
  <2>1. \A r \in Open' : r \in Open
    BY <1>2 DEF Open
  <2>2. \A c \in Contexts : buffer[c] # NoRequest => buffer[c] \in Request
    BY DEF MessageInv, TypeOK
  <2> QED BY <1>2, <2>1, <2>2 DEF BuffersOwned
<1> QED BY <1>1, <1>2, ConnView

LEMMA CopiesBytesNext ==
  ASSUME MessageInv, BuffersOwned, StoredAsReported, CopiesOfRead, BytesOfItsContext, [Next]_vars
  PROVE  (CopiesOfRead /\ BytesOfItsContext)'
<1>1. /\ copies \in [Request -> Seq(Request)] /\ context \in [Request -> Contexts \cup {NoContext}]
      /\ conn \in [Request -> {"none", "read", "handled", "answered"}]
      /\ \A r \in Request : \A i \in DOMAIN copies[r] : copies[r][i] \in Request
      /\ \A r \in Request : copies[r] # << >> => conn[r] \notin {"none", "read"}
  <2>1. copies \in [Request -> Seq(Request)]
    BY DEF MessageInv, TypeOK
  <2>2. \A r \in Request : \A i \in DOMAIN copies[r] : copies[r][i] \in Request
    BY <2>1
  <2> QED BY <2>1, <2>2 DEF MessageInv, TypeOK, Contexted, StoredAsReported
\* The copies there are stay what they are, whatever happens to the connections.
<1>2. ASSUME NEW r \in Request, NEW i \in DOMAIN copies[r]
      PROVE  /\ conn'[copies[r][i]] # "none"
             /\ \/ copies[r][i] = r
                \/ conn'[r] = "answered" /\ context'[copies[r][i]] = context'[r]
  <2> DEFINE q == copies[r][i]
  <2>1. q \in Request /\ conn[q] # "none" /\ conn[r] \notin {"none", "read"}
    <3>1. copies[r] # << >>
      BY <1>1
    <3> QED BY <1>1, <3>1 DEF CopiesOfRead
  <2>2. q = r \/ (conn[r] = "answered" /\ context[q] = context[r])
    BY DEF BytesOfItsContext
  <2> HIDE DEF q
  <2>3. ASSUME NEW s \in Request, Read(s)
        PROVE  conn'[q] # "none" /\ (q = r \/ (conn'[r] = "answered" /\ context'[q] = context'[r]))
    <3>1. s # r /\ s # q
      BY <2>1, <2>3 DEF Read
    <3>2. conn'[q] = conn[q] /\ conn'[r] = conn[r] /\ context'[q] = context[q]
            /\ context'[r] = context[r]
      BY <1>1, <2>1, <2>3, <3>1 DEF Read
    <3> QED BY <2>1, <2>2, <3>2
  <2> QED BY <2>1, <2>2, <2>3, ConnView DEF q
<1>3. CASE copies' = copies
  BY <1>2, <1>3 DEF CopiesOfRead, BytesOfItsContext
<1>4. ASSUME NEW r \in Request, Copied(r), UNCHANGED http
      PROVE  (CopiesOfRead /\ BytesOfItsContext)'
  <2> DEFINE q == buffer[context[r]]
  <2>1. conn[r] \in {"handled", "answered"} /\ context[r] \in Contexts /\ q \in Request
    BY <1>4 DEF Copied, MessageInv, Contexted, TypeOK
  <2>2. conn[q] # "none" /\ context[q] = context[r] /\ (conn[r] = "handled" => q = r)
    BY <2>1, NoRequestAssumption DEF BuffersOwned, Open
  <2>3. UNCHANGED << conn, context >>
    BY <1>4 DEF http
  <2> HIDE DEF q
  <2>4. copies'[r] = Append(copies[r], q) /\ \A s \in Request \ {r} : copies'[s] = copies[s]
    BY <1>1, <1>4 DEF Copied, q
  <2>5. ASSUME NEW s \in Request, NEW i \in DOMAIN copies'[s]
        PROVE  /\ conn'[copies'[s][i]] # "none"
               /\ \/ copies'[s][i] = s
                  \/ conn'[s] = "answered" /\ context'[copies'[s][i]] = context'[s]
    <3>1. CASE i \in DOMAIN copies[s] /\ copies'[s][i] = copies[s][i]
      BY <1>2, <3>1
    <3>2. CASE s = r /\ copies'[s][i] = q
      BY <2>1, <2>2, <2>3, <3>2
    <3>3. CASE s # r
      BY <1>2, <2>4, <3>3
    <3>4. ASSUME s = r
          PROVE  \/ i \in DOMAIN copies[s] /\ copies'[s][i] = copies[s][i]
                 \/ copies'[s][i] = q
      <4>1. copies[r] \in Seq(Request) /\ i \in DOMAIN Append(copies[r], q)
        BY <1>1, <2>4, <3>4
      <4>2. i \in 1 .. Len(copies[r]) \/ i = Len(copies[r]) + 1
        BY <4>1
      <4> QED BY <2>4, <3>4, <4>1, <4>2
    <3> QED BY <3>1, <3>2, <3>3, <3>4
  <2> QED BY <2>5 DEF CopiesOfRead, BytesOfItsContext
<1> QED BY <1>3, <1>4, CopiesView

\* What the producer reports is true of the brokers, for any number of retries,
\* lost acknowledgements and messages given up, and what they have of a message
\* is its bytes as long as its request was open, and later those of a request
\* that was given the same context.
THEOREM CopiesAlwaysAccounted == Spec => []CopiesAccounted
<1> DEFINE Inv == MessageInv /\ BuffersOwned /\ CopiesOfRead /\ CopiesAccounted
<1>1. Init => Inv
  <2> SUFFICES ASSUME Init PROVE Inv
    OBVIOUS
  <2>1. \A r \in Request : copies[r] = << >> /\ fate[r] = "none" /\ r \notin Open
    BY DEF Init, Open
  <2>2. BuffersOwned
    BY DEF Init, BuffersOwned, Open
  <2>3. CopiesOfRead /\ BytesOfItsContext
    BY <2>1 DEF CopiesOfRead, BytesOfItsContext
  <2>4. StoredAsReported
    BY <2>1 DEF Init, StoredAsReported
  <2> QED BY <2>2, <2>3, <2>4, MessageInit DEF CopiesAccounted
<1>2. Inv /\ [Next]_vars => Inv'
  BY MessageNext, BuffersOwnedNext, StoredAsReportedNext, CopiesBytesNext DEF CopiesAccounted
<1>3. Inv => CopiesAccounted
  OBVIOUS
<1> QED BY <1>1, <1>2, <1>3, PTL DEF Spec
=============================================================================
