------------------------- MODULE ConsumerGroupProps -------------------------
(***************************************************************************)
(* What the consumer group promises, stated over ConsumerGroup.            *)
(***************************************************************************)
EXTENDS ConsumerGroup

-----------------------------------------------------------------------------
(***************************************************************************)
(* Safety.                                                                 *)
(***************************************************************************)

InFlight(msg) == \E m \in Members : msg \in Holds(m)

\* A message has a row, is in a live member's queue or in a worker's hands, was
\* let go of by a failed INSERT or a process that ended, or precedes the offset
\* the group began at.
Accounted(msg) == rows[msg] > 0 \/ InFlight(msg) \/ msg \in lost \/ msg \in skipped

\* Kafka's committed offset never runs ahead of what the workers were given: no
\* message below it has vanished without a fault the log tells of.
CommittedAccounted ==
  \A msg \in Msg : msg[2] < committed[msg[1]] => Accounted(msg)

\* A message has more than one row only if sessions ended without committing
\* what they had marked: one extra row for each of them at the most.
RowsBoundedByAborts == \A msg \in Msg : rows[msg] <= 1 + aborts

\* When a member has closed MessageQueue no ConsumeClaim is about to send on it.
NoSendOnClosedQueue ==
  \A m \in Members, p \in Partitions : loop[m] = "closed" => claim[m][p] # "send"

\* The group never moves back on a partition: a commit, by whichever member, and
\* from whichever session, leaves no committed offset smaller.
CommittedMonotone == [][\A p \in Partitions : committed'[p] >= committed[p]]_vars

\* Where the copies of a message are: in queues, one per member, and in hands.
QueuePlaces(queues, msg) ==
  { c \in Members \X (1 .. QueueCap) : c[2] <= Len(queues[c[1]]) /\ queues[c[1]][c[2]] = msg }

HandPlaces(hands, msg) == { c \in Members \X Workers : hands[c[1]][c[2]] = msg }

Copies(msg) == Cardinality(QueuePlaces(queue, msg)) + Cardinality(HandPlaces(worker, msg))

\* Members that come and go, rebalance, are evicted and die give every message
\* the life GroupFate describes, as one consumer would.
Fate == INSTANCE GroupFate WITH
  Earlier <- [ msg \in Msg |-> { other \in Msg : other[1] = msg[1] /\ other[2] < msg[2] } ],
  logged <- { msg \in Msg : msg[2] < produced[msg[1]] },
  held   <- [ msg \in Msg |-> Copies(msg) ],
  done   <- { msg \in Msg : msg[2] < committed[msg[1]] }

ImplementsGroupFate == Fate!Spec

-----------------------------------------------------------------------------
(***************************************************************************)
(* Liveness.                                                               *)
(***************************************************************************)

\* Once interrupted, StartConsume returns (or the process dies).
ShutdownTerminates == \A m \in Members : cancelled[m] ~> ~up[m]

Serving(m) == up[m] /\ ~cancelled[m]

\* As long as some member serves, a message behind the committed offset's start
\* is in the end stored, or given up by a failed INSERT or a dying process.
Delivered ==
  \A msg \in Msg :
    (committed[msg[1]] # NoOffset /\ msg[2] < produced[msg[1]])
      ~> \/ rows[msg] > 0 \/ msg \in lost \/ msg \in skipped
         \/ \A m \in Members : ~Serving(m)
=============================================================================
