------------------------- MODULE PartitionConsumer -------------------------
(***************************************************************************)
(* internal/kafkacp/kafkaconsumer: one process consumes one partition, and *)
(* starts at the end of it (sarama.OffsetNewest) every time. Consume runs, *)
(* concurrently,                                                           *)
(*   - the signal listener, which cancels ctx and then closes done;        *)
(*   - the reader, which moves messages to the bounded messagesQueue;      *)
(*   - the workers, which range over that queue and store its messages.    *)
(* A message is its offset.                                                *)
(***************************************************************************)
EXTENDS Integers, Sequences

CONSTANTS
  Workers,      \* the worker goroutines (NumberOfWorkers)
  QueueCap,     \* MessageBufferSize
  MaxOffset,    \* bound: messages produced
  MaxFaults     \* bound: faults, of every kind together

Msg == 0 .. MaxOffset - 1

\* The reader, or a worker, has no message.
None == -1

ASSUME CapAssumption    == QueueCap \in Nat \ {0}
ASSUME WorkerAssumption == Workers # {}
ASSUME BoundsAssumption == MaxOffset \in Nat /\ MaxFaults \in Nat

VARIABLES
  end,        \* the end of the partition's log
  pos,        \* the next offset the sarama partition consumer yields
  channels,   \* its Messages and Errors channels: "open" or "closed"
  rows,       \* [Msg -> Nat], the rows of the database each message has
  proc,       \* the process: "up" or "down"
  listener,   \* pc of the signal listener
  reader,     \* pc of the reader
  hand,       \* the message the reader sends, or None
  queue,      \* messagesQueue
  wpc,        \* [Workers -> pc of the worker]
  wmsg,       \* [Workers -> the message in its hands, or None]
  own,        \* [Workers -> what its last ProcessMessageFunc returned]
  err,        \* the variable err of Consume, which all the workers assign
  lost,       \* history: messages taken and let go of without a row
  missed,     \* history: messages a start at OffsetNewest jumped over
  reported,   \* history: messages logged as stored to the database
  faults      \* history: faults so far, bounded by MaxFaults

kafka   == << end, pos, channels >>
process == << proc, listener >>
reading == << reader, hand >>
working == << wpc, wmsg, own, err >>
history == << missed, reported, faults >>
vars    == << kafka, process, reading, queue, working, rows, lost, history >>

Result == {"nil", "error"}

TypeOK ==
  /\ end \in 0 .. MaxOffset /\ pos \in 0 .. MaxOffset
  /\ channels \in {"open", "closed"} /\ proc \in {"up", "down"}
  /\ rows \in [Msg -> Nat]
  /\ listener \in {"wait", "cancelled", "done"}
  /\ reader \in {"select", "send", "closed", "done"}
  /\ hand \in Msg \cup {None}
  /\ queue \in Seq(Msg) /\ Len(queue) <= QueueCap
  /\ wpc \in [Workers -> {"range", "store", "check", "stopped"}]
  /\ wmsg \in [Workers -> Msg \cup {None}]
  /\ own \in [Workers -> Result] /\ err \in Result
  /\ lost \subseteq Msg /\ missed \subseteq Msg /\ reported \subseteq Msg
  /\ faults \in 0 .. MaxFaults

\* cancel() has been called: ctx is done.
Cancelled == listener \in {"cancelled", "done"}

Fault == faults < MaxFaults /\ faults' = faults + 1

\* What the process has taken and neither stored nor let go of.
Holds ==
  { queue[i] : i \in 1 .. Len(queue) }
    \cup ({hand} \ {None})
    \cup { wmsg[w] : w \in { v \in Workers : wpc[v] = "store" } }

Init ==
  /\ end = 0 /\ pos = 0 /\ channels = "open" /\ proc = "up"
  /\ listener = "wait"
  /\ reader = "select" /\ hand = None /\ queue = << >>
  /\ wpc = [w \in Workers |-> "range"] /\ wmsg = [w \in Workers |-> None]
  /\ own = [w \in Workers |-> "nil"] /\ err = "nil"
  /\ rows = [msg \in Msg |-> 0]
  /\ lost = {} /\ missed = {} /\ reported = {}
  /\ faults = 0

-----------------------------------------------------------------------------
(* Kafka. *)

Produce ==
  /\ end < MaxOffset
  /\ end' = end + 1
  /\ UNCHANGED << pos, channels, process, reading, queue, working, rows, lost, history >>

\* sarama gives the partition up (its offset is out of range) and closes the
\* channels. The reader then takes nil from them, again and again.
ChannelsClose ==
  /\ proc = "up" /\ channels = "open"
  /\ Fault
  /\ channels' = "closed"
  /\ UNCHANGED << end, pos, process, reading, queue, working, rows, lost, missed, reported >>

-----------------------------------------------------------------------------
(* The signal listener. *)

\* An interrupt arrives: cancel().
Interrupt ==
  /\ proc = "up" /\ listener = "wait"
  /\ Fault
  /\ listener' = "cancelled"
  /\ UNCHANGED << kafka, proc, reading, queue, working, rows, lost, missed, reported >>

\* close(done)
CloseDone ==
  /\ listener = "cancelled"
  /\ listener' = "done"
  /\ UNCHANGED << kafka, proc, reading, queue, working, rows, lost, history >>

-----------------------------------------------------------------------------
(* The reader. *)

\* case msg := <-Messages(), which select may choose though ctx is done.
Receive ==
  /\ proc = "up" /\ reader = "select" /\ channels = "open" /\ pos < end
  /\ reader' = "send" /\ hand' = pos
  /\ pos' = pos + 1
  /\ UNCHANGED << end, channels, process, queue, working, rows, lost, history >>

\* Mutant of Send: a queue without a bound.
SendUnbounded ==
  /\ reader = "send"
  /\ queue' = Append(queue, hand)
  /\ reader' = "select" /\ hand' = None
  /\ UNCHANGED << kafka, process, working, rows, lost, history >>

\* Mutant of Send: a message that does not fit is dropped.
SendOrDrop ==
  /\ reader = "send"
  /\ queue' = IF Len(queue) < QueueCap THEN Append(queue, hand) ELSE queue
  /\ reader' = "select" /\ hand' = None
  /\ UNCHANGED << kafka, process, working, rows, lost, history >>

\* messagesQueue <- msg, which blocks while the queue is full.
Send ==
  /\ reader = "send" /\ Len(queue) < QueueCap
  /\ queue' = Append(queue, hand)
  /\ reader' = "select" /\ hand' = None
  /\ UNCHANGED << kafka, process, working, rows, lost, history >>

\* case <-ctx.Done(): close(messagesQueue)
ReaderReturn ==
  /\ reader = "select" /\ Cancelled
  /\ reader' = "closed"
  /\ UNCHANGED << kafka, process, hand, queue, working, rows, lost, history >>

\* wg.Done()
ReaderDone ==
  /\ reader = "closed"
  /\ reader' = "done"
  /\ UNCHANGED << kafka, process, hand, queue, working, rows, lost, history >>

-----------------------------------------------------------------------------
(* The workers. *)

QueueClosed == reader \in {"closed", "done"}

\* Mutant of WorkerTake: the message stays on the queue.
WorkerTakePeeks(w) ==
  /\ wpc[w] = "range" /\ queue # << >> /\ ~Cancelled
  /\ wmsg' = [wmsg EXCEPT ![w] = Head(queue)]
  /\ wpc' = [wpc EXCEPT ![w] = "store"]
  /\ UNCHANGED << kafka, process, reading, queue, own, err, rows, lost, history >>

\* Mutant of WorkerTake: nothing is taken any more once ctx is done.
WorkerTakeUnlessCancelled(w) ==
  /\ wpc[w] = "range" /\ queue # << >> /\ ~Cancelled
  /\ queue' = Tail(queue)
  /\ wmsg' = [wmsg EXCEPT ![w] = Head(queue)]
  /\ wpc' = [wpc EXCEPT ![w] = "store"]
  /\ UNCHANGED << kafka, process, reading, own, err, rows, lost, history >>

\* range messagesQueue yields a message. A ProcessMessageFunc that starts after
\* ctx is done can only fail; its result goes to err at once.
WorkerTake(w) ==
  /\ wpc[w] = "range" /\ queue # << >>
  /\ queue' = Tail(queue)
  /\ wmsg' = [wmsg EXCEPT ![w] = Head(queue)]
  /\ \/ ~Cancelled /\ wpc' = [wpc EXCEPT ![w] = "store"]
        /\ UNCHANGED << own, err, lost >>
     \/ Cancelled /\ wpc' = [wpc EXCEPT ![w] = "check"]
        /\ own' = [own EXCEPT ![w] = "error"] /\ err' = "error"
        /\ lost' = lost \cup {Head(queue)}
  /\ UNCHANGED << kafka, process, reading, rows, history >>

\* err = ProcessMessageFunc(ctx, msg): the row is inserted, and err is nil.
WorkerStore(w) ==
  /\ wpc[w] = "store"
  /\ rows' = [rows EXCEPT ![wmsg[w]] = @ + 1]
  /\ wpc' = [wpc EXCEPT ![w] = "check"]
  /\ own' = [own EXCEPT ![w] = "nil"] /\ err' = "nil"
  /\ UNCHANGED << kafka, process, reading, queue, wmsg, lost, history >>

\* err = ProcessMessageFunc(ctx, msg): no row, and err is not nil.
WorkerStoreFails(w) ==
  /\ wpc[w] = "store"
  /\ (Cancelled /\ UNCHANGED faults) \/ Fault
  /\ lost' = lost \cup {wmsg[w]}
  /\ wpc' = [wpc EXCEPT ![w] = "check"]
  /\ own' = [own EXCEPT ![w] = "error"] /\ err' = "error"
  /\ UNCHANGED << kafka, process, reading, queue, wmsg, rows, missed, reported >>

\* Mutant of WorkerCheck: the worker returns on an error.
WorkerCheckReturns(w) ==
  /\ wpc[w] = "check"
  /\ reported' = IF own[w] = "nil" THEN reported \cup {wmsg[w]} ELSE reported
  /\ wpc' = [wpc EXCEPT ![w] = IF own[w] = "nil" THEN "range" ELSE "stopped"]
  /\ wmsg' = [wmsg EXCEPT ![w] = None] /\ own' = [own EXCEPT ![w] = "nil"]
  /\ UNCHANGED << kafka, process, reading, queue, err, rows, lost, missed, faults >>

\* if err != nil { continue }; log "message is stored to database". err is
\* shared and unsynchronised: what the worker reads is the result it has just
\* assigned or the one another worker has assigned since.
WorkerCheck(w) ==
  /\ wpc[w] = "check"
  /\ \E seen \in {own[w], err} :
       reported' = IF seen = "nil" THEN reported \cup {wmsg[w]} ELSE reported
  /\ wpc' = [wpc EXCEPT ![w] = "range"]
  /\ wmsg' = [wmsg EXCEPT ![w] = None] /\ own' = [own EXCEPT ![w] = "nil"]
  /\ UNCHANGED << kafka, process, reading, queue, err, rows, lost, missed, faults >>

\* Mutant of WorkerReturn: the worker returns when ctx is done.
WorkerReturnCancelled(w) ==
  /\ wpc[w] = "range" /\ Cancelled
  /\ wpc' = [wpc EXCEPT ![w] = "stopped"]
  /\ UNCHANGED << kafka, process, reading, queue, wmsg, own, err, rows, lost, history >>

\* The queue is closed and empty.
WorkerReturn(w) ==
  /\ wpc[w] = "range" /\ QueueClosed /\ queue = << >>
  /\ wpc' = [wpc EXCEPT ![w] = "stopped"]
  /\ UNCHANGED << kafka, process, reading, queue, wmsg, own, err, rows, lost, history >>

-----------------------------------------------------------------------------
(* The process. *)

\* A process that is gone has no memory; what it held without a row is lost.
Vanish ==
  /\ proc' = "down"
  /\ lost' = lost \cup Holds
  /\ listener' = "wait"
  /\ reader' = "select" /\ hand' = None /\ queue' = << >>
  /\ wpc' = [w \in Workers |-> "range"] /\ wmsg' = [w \in Workers |-> None]
  /\ own' = [w \in Workers |-> "nil"] /\ err' = "nil"

\* wg.Wait() is over.
AllDone ==
  /\ listener = "done" /\ reader = "done"
  /\ \A w \in Workers : wpc[w] = "stopped"

\* <-done; wg.Wait(); the partition consumer is closed and the program ends.
ConsumeReturn ==
  /\ proc = "up" /\ AllDone
  /\ Vanish
  /\ UNCHANGED << kafka, rows, history >>

\* The process dies: SIGKILL, SIGTERM (which nobody handles), a panic.
Crash ==
  /\ proc = "up"
  /\ Fault
  /\ Vanish
  /\ UNCHANGED << kafka, rows, missed, reported >>

\* Mutant of Restart: ConsumePartition(topic, partition, sarama.OffsetOldest).
RestartOldest ==
  /\ proc = "down"
  /\ proc' = "up" /\ channels' = "open"
  /\ pos' = 0
  /\ UNCHANGED << end, listener, reading, queue, working, rows, lost, history >>

\* ConsumePartition(topic, partition, sarama.OffsetNewest)
Restart ==
  /\ proc = "down"
  /\ proc' = "up" /\ channels' = "open"
  /\ pos' = end
  /\ missed' = missed \cup (pos .. end - 1)
  /\ UNCHANGED << end, listener, reading, queue, working, rows, lost,
                  reported, faults >>

-----------------------------------------------------------------------------

ReaderStep == Send \/ ReaderReturn \/ ReaderDone
WorkerStep(w) == WorkerTake(w) \/ WorkerStore(w) \/ WorkerStoreFails(w)
                   \/ WorkerCheck(w) \/ WorkerReturn(w)

Next ==
  \/ Produce \/ ChannelsClose
  \/ Interrupt \/ CloseDone
  \/ Receive \/ ReaderStep
  \/ \E w \in Workers : WorkerStep(w)
  \/ ConsumeReturn \/ Crash \/ Restart

\* The scheduler runs every goroutine that can run. The reader's select chooses
\* among its ready cases at random, so it does not ignore ctx.Done() for ever.
Fairness ==
  /\ WF_vars(CloseDone) /\ WF_vars(Receive) /\ WF_vars(Send) /\ WF_vars(ReaderDone)
  /\ SF_vars(ReaderReturn)
  /\ \A w \in Workers : WF_vars(WorkerStep(w))
  /\ WF_vars(ConsumeReturn)

Spec == Init /\ [][Next]_vars

FairSpec == Spec /\ Fairness

-----------------------------------------------------------------------------
(***************************************************************************)
(* Properties.                                                             *)
(***************************************************************************)

\* No message is stored twice, however often the process dies and is started
\* again: a start at OffsetNewest never yields an offset a second time.
StoredAtMostOnce == \A msg \in Msg : rows[msg] <= 1

\* A message below the position was read, and what was read is stored, held, or
\* let go of; the rest was missed. Nothing disappears between two goroutines.
ReadAccounted ==
  \A msg \in Msg : msg < pos => rows[msg] > 0 \/ msg \in Holds \cup lost \cup missed

\* When wg.Wait() is over no message is left between the goroutines: Consume
\* drains the queue before it returns.
DrainedOnReturn == AllDone => Holds = {}

\* "message is stored to database" is logged of stored messages only.
ReportedAreStored == \A msg \in reported : rows[msg] > 0

\* Once interrupted, Consume returns (or the process dies), full queue or not.
ShutdownTerminates == Cancelled ~> proc = "down"

\* A message that appears while the consumer serves is in the end stored or let
\* go of, unless sarama gives the partition up or the process is stopped.
Delivered ==
  \A msg \in Msg :
    (proc = "up" /\ pos <= msg /\ msg < end)
      ~> (rows[msg] > 0 \/ msg \in lost \cup missed \/ Cancelled
          \/ proc = "down" \/ channels = "closed")

\* The fate of each message, as MessageFate has it.
FateOf(msg) ==
  IF rows[msg] > 1 THEN "duplicated"
  ELSE IF rows[msg] = 1 THEN "stored"
  ELSE IF msg \in lost THEN "lost"
  ELSE IF msg \in missed THEN "missed"
  ELSE IF msg \in Holds THEN "held"
  ELSE IF msg >= end THEN "absent"
  ELSE "logged"

Fate == INSTANCE MessageFate WITH Msg <- Msg, fate <- [msg \in Msg |-> FateOf(msg)]

\* The goroutines of Consume implement MessageFate: a message is taken once, is
\* held until it is stored or lost, and neither can be undone.
ImplementsFate == Fate!Spec
=============================================================================
