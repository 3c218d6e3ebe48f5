------------------------------ MODULE Pipeline ------------------------------
(***************************************************************************)
(* From a webhook request to its rows: the webhook server of WebhookServer *)
(* in all its detail, the topic its producer appends to, and a consumer    *)
(* group that promises what GroupFate says (and ConsumerGroup keeps).      *)
(*                                                                         *)
(* The producer waits for all replicas and sends again what was not        *)
(* acknowledged, but it is not idempotent: a copy whose acknowledgement is *)
(* lost is in the topic all the same, or will be at some time, or never.   *)
(* A message in the topic is known by its place in it.                     *)
(***************************************************************************)
EXTENDS WebhookServer

CONSTANTS
  Budget,   \* bound: a request that comes costs two, a fault one
  First     \* the first request to come; requests are interchangeable

ASSUME PipelineAssumption == Budget \in Nat \ {0} /\ First \in Request

VARIABLES
  topic,      \* Seq(Request), the requests whose messages were appended
  late,       \* the copies not acknowledged that may yet be appended: << r, k >>
              \* is the k-th of request r
  held, rows, lost, skipped, done, aborts   \* of GroupFate

\* Each copy of a message but one cost a lost acknowledgement, so that no more
\* than these fit in the budget.
Places == 1 .. Budget - 1

Group == INSTANCE GroupFate WITH
  Msg <- Places, Earlier <- [ i \in Places |-> 1 .. i - 1 ], logged <- DOMAIN topic

group    == << held, rows, lost, skipped, done, aborts >>
pipeline == << vars, topic, late, group >>

Come == { r \in Request : conn[r] # "none" }

WithinBudget == 2 * Cardinality(Come) + faults <= Budget /\ (Come # {} => First \in Come)

PipelineInit == Init /\ topic = << >> /\ late = {} /\ Group!Init

-----------------------------------------------------------------------------

\* Mutant of Published: a message whose acknowledgement was lost is sent again
\* after the one that succeeds.
PublishedTwice(r) ==
  Publish(r) /\ topic' = topic \o << r, r >> /\ UNCHANGED << late, group >>

\* The brokers store the message and say so.
Published(r) == Publish(r) /\ topic' = Append(topic, r) /\ UNCHANGED << late, group >>

\* The brokers get a copy, but the producer does not get to know.
PublishedUnacknowledged(r) ==
  /\ PublishUnacknowledged(r) /\ WithinBudget'
  /\ late' = late \cup {<< r, Len(copies'[r]) >>}
  /\ UNCHANGED << topic, group >>

\* They append it, after whatever has become of the message meanwhile: it was
\* published by another copy, it was given up, or its process has ended.
Arrives(c) ==
  /\ topic' = Append(topic, c[1])
  /\ late'  = late \ {c}
  /\ UNCHANGED << vars, group >>

\* All other steps of the webhook server.
ServerStep ==
  /\ Next /\ copies' = copies /\ WithinBudget'
  /\ UNCHANGED << topic, late, group >>

\* The process is killed, with all that is in its memory.
ServerDies ==
  /\ Alive
  /\ Fault
  /\ main' = "panicked"
  /\ UNCHANGED << http, workers, kafka, server, signal, fate, queue, topic, late, group >>
  /\ WithinBudget'

\* The group takes and stores, and commits offsets: all messages before one.
GroupStep ==
  /\ UNCHANGED << vars, topic, late >>
  /\ \/ \E i \in Places : Group!Take(i) \/ Group!Store(i)
     \/ \E n \in Places : Group!Commit(1 .. n)

\* A member lets go of messages: an INSERT fails, a session is aborted.
GroupLetsGo ==
  /\ UNCHANGED << http, workers, kafka, control, fate, queue, topic, late >>
  /\ Fault /\ WithinBudget'
  /\ Group!LetGo /\ group' # group

\* A group that has committed nothing begins at the end of the topic.
GroupBegins ==
  /\ done = {}
  /\ UNCHANGED << vars, topic, late >>
  /\ topic # << >> /\ Group!Skip(DOMAIN topic)

PipelineNext ==
  \/ \E r \in Request : Published(r) \/ PublishedUnacknowledged(r)
  \/ \E c \in late : Arrives(c)
  \/ ServerStep \/ ServerDies
  \/ GroupStep \/ GroupLetsGo \/ GroupBegins

PipelineSpec == PipelineInit /\ [][PipelineNext]_pipeline

\* A message that has not been passed over is taken once at least, and a copy
\* that was taken is stored.
FirstTake(i) ==
  ~Group!Taken(i) /\ i \notin skipped /\ UNCHANGED << vars, topic, late >> /\ Group!Take(i)
StoreHeld(i) == UNCHANGED << vars, topic, late >> /\ Group!Store(i)

\* The server is as fair as it is by itself, and some member of the group serves.
\* A late copy need not arrive.
PipelineFairSpec ==
  /\ PipelineSpec /\ Fairness
  /\ \A i \in Places : WF_pipeline(FirstTake(i)) /\ WF_pipeline(StoreHeld(i))

-----------------------------------------------------------------------------
(***************************************************************************)
(* Properties.                                                             *)
(***************************************************************************)

PipelineTypeOK ==
  /\ TypeOK
  /\ topic \in Seq(Request) /\ DOMAIN topic \subseteq Places
  /\ late \subseteq Request \X Nat
  /\ rows \in [Places -> Nat] /\ held \in [Places -> Nat]
  /\ lost \cup skipped \cup done \subseteq DOMAIN topic
  /\ aborts \in 0 .. MaxFaults

PlacesOf(r) == { i \in Places : i <= Len(topic) /\ topic[i] = r }
LateOf(r)   == { c \in late : c[1] = r }

\* A request that is stored has one message in the topic and that has one row,
\* except that each fault adds a message at the most (an acknowledgement lost)
\* or a row to each (a session aborted), and none adds both; a fault whose copy
\* has not arrived has yet to add it.
OneRowUnlessFaults ==
  \A r \in Request : \A i \in PlacesOf(r) :
    Cardinality(PlacesOf(r)) + Cardinality(LateOf(r)) + rows[i] <= 2 + faults

\* Only what a worker has given to the producer is ever in the topic: a request
\* that was refused or dropped, or whose message still waits, has no row.
NoRowBeforeInput ==
  \A r \in Request : PlacesOf(r) # {} => fate[r] \in {"sent", "published", "failed"}

\* What the producer has reported published is in the topic, even if the process
\* is killed. When the webhook server says "all clear" every message that was
\* queued is in the topic, or the producer has reported it failed.
AllClearIsInTopic ==
  \A r \in Request :
    \/ PlacesOf(r) # {}
    \/ /\ fate[r] # "published"
       /\ main = "clear" => fate[r] \in {"none", "refused", "offered", "dropped", "failed"}

\* A request that was answered as accepted gets a row, or is one of those lost
\* in the ways there are: the queue was full or closing, the producer gave up,
\* the server ended before it had the message published, or the group passed
\* over all copies of it or let go of one; and without a fault the group does
\* not let go of any.
AcceptedEnds ==
  \A r \in Request :
    fate[r] = "offered" ~>
      \/ fate[r] \in {"dropped", "failed"}
      \/ ~Alive /\ PlacesOf(r) = {}
      \/ \E i \in PlacesOf(r) : rows[i] > 0 \/ i \in skipped \/ (i \in lost /\ faults > 0)
=============================================================================
