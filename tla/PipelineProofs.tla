--------------------------- MODULE PipelineProofs ---------------------------
(***************************************************************************)
(* Theorems about Pipeline, for every value of its constants.              *)
(*                                                                         *)
(* The steps of the pipeline are steps of the webhook server, deaths of    *)
(* it, arrivals of late copies, and steps of the group. The server's own   *)
(* invariant carries over, and five more parts tie the topic to it and to  *)
(* the group:                                                              *)
(*   TopicCounted   what is in the topic, or late, was published or cost a *)
(*                  fault;                                                 *)
(*   LateAreCopies  what is late is a copy the server has made;            *)
(*   TopicSent      what is in the topic was given to the producer, and    *)
(*                  what the producer calls published is in the topic;     *)
(*   GroupInTopic   the group only has what is in the topic;               *)
(*   FaultsCounted  copies of a message in the topic, and of a place of it *)
(*                  in the group, have cost faults.                        *)
(***************************************************************************)
EXTENDS Pipeline, WebhookServerProofs

PublishedOnes == { r \in Request : fate[r] = "published" }

TopicCounted ==
  /\ topic \in Seq(Request) /\ IsFiniteSet(late)
  /\ Len(topic) + Cardinality(late) <= Cardinality(PublishedOnes) + faults
  /\ WithinBudget

LateAreCopies ==
  \A c \in late :
    /\ c \in Request \X Nat /\ c[2] <= Len(copies[c[1]])
    /\ fate[c[1]] \in {"sent", "published", "failed"}

TopicSent ==
  /\ \A i \in 1 .. Len(topic) : fate[topic[i]] \in {"sent", "published", "failed"}
  /\ \A r \in PublishedOnes : \E i \in 1 .. Len(topic) : topic[i] = r

GroupInTopic ==
  /\ rows \in [Places -> Nat] /\ held \in [Places -> Nat]
  /\ lost \cup skipped \cup done \subseteq DOMAIN topic
  /\ \A i \in Places : held[i] > 0 \/ rows[i] > 0 => i \in DOMAIN topic
  /\ aborts \in Nat /\ aborts <= faults

FaultsCounted ==
  /\ \A i \in Places : held[i] + rows[i] <= aborts + 1
  /\ \A r \in Request :
       Cardinality(PlacesOf(r)) + Cardinality(LateOf(r)) + aborts
         <= faults + (IF fate[r] = "published" THEN 1 ELSE 0)

PipelineInv ==
  AllClearInv /\ TopicCounted /\ LateAreCopies /\ TopicSent /\ GroupInTopic /\ FaultsCounted

-----------------------------------------------------------------------------
(***************************************************************************)
(* The steps of the pipeline, as the server and the topic see them.        *)
(***************************************************************************)

\* The server goes on, or its process is killed, or a fault is none of its.
ServerGoesOn ==
  \/ [Next]_vars
  \/ /\ UNCHANGED << http, workers, kafka, server, signal, fate, queue >>
     /\ main' \in {main, "panicked"} /\ Fault

LEMMA ServerView == [PipelineNext]_pipeline => ServerGoesOn
BY DEF PipelineNext, pipeline, ServerGoesOn, Published, PublishedUnacknowledged, Arrives,
       ServerStep, ServerDies, GroupStep, GroupLetsGo, GroupBegins, Next, Produce, control

LEMMA AllClearInvGoesOn == AllClearInv /\ ServerGoesOn => AllClearInv'
<1> SUFFICES ASSUME AllClearInv, ServerGoesOn PROVE AllClearInv'
  OBVIOUS
<1>1. CASE [Next]_vars
  BY <1>1, AllClearInvNext
<1>2. CASE /\ UNCHANGED << http, workers, kafka, server, signal, fate, queue >>
           /\ main' \in {main, "panicked"} /\ Fault
  <2>1. TypeOK'
    BY <1>2, FaultAssumption DEF AllClearInv, MessageInv, TypeOK, http, workers, kafka, Fault
  <2>2. (Contexted /\ HandsInInput /\ OnePlace)'
    BY <1>2 DEF AllClearInv, MessageInv, Contexted, HandsInInput, OnePlace, QueuesHoldQueued,
                HandsHoldHeld, http, workers
  <2>3. (AcksSettled /\ AnswersMatchWaits)'
    <3>1. InFlight' = InFlight /\ Awaiting' = Awaiting /\ acks' = acks
      BY <1>2 DEF InFlight, Awaiting, workers, kafka
    <3> QED BY <1>2, <3>1 DEF AllClearInv, AcksSettled, AnswersMatchWaits
  <2>4. (StoppedDry /\ ClearStopped)'
    BY <1>2 DEF AllClearInv, StoppedDry, ClearStopped, Closed, workers
  <2> QED BY <2>1, <2>2, <2>3, <2>4 DEF AllClearInv, MessageInv
<1> QED BY <1>1, <1>2 DEF ServerGoesOn

LEMMA SentStaysOn ==
  ASSUME MessageInv, ServerGoesOn, NEW r \in Request
  PROVE  /\ fate[r] = "sent" => fate'[r] \in {"sent", "published", "failed"}
         /\ fate[r] \in {"published", "failed"} => fate'[r] = fate[r]
<1>1. CASE UNCHANGED fate
  BY <1>1
<1>2. CASE [Next]_vars
  BY <1>2, SentStaysNext DEF SentStays
<1> QED BY <1>1, <1>2 DEF ServerGoesOn

\* The brokers append a copy and the producer hears of it.
Acknowledged(r) ==
  /\ fate[r] = "sent" /\ fate' = [fate EXCEPT ![r] = "published"] /\ faults' = faults
  /\ copies' = [copies EXCEPT ![r] = Append(@, buffer[context[r]])]
  /\ topic' = Append(topic, r) /\ late' = late

\* The brokers get a copy and the producer does not hear of it.
Unheard(r) ==
  /\ fate[r] = "sent" /\ fate' = fate /\ Fault
  /\ copies' = [copies EXCEPT ![r] = Append(@, buffer[context[r]])]
  /\ topic' = topic /\ late' = late \cup {<< r, Len(copies'[r]) >>}

\* Nothing is appended, sent or reported published.
Apart ==
  /\ UNCHANGED << topic, late, copies >> /\ faults' \in {faults, faults + 1}
  /\ \A r \in Request : fate'[r] = "published" => fate[r] = "published"

LEMMA TopicView ==
  ASSUME [PipelineNext]_pipeline, PipelineInv
  PROVE  /\ WithinBudget'
         /\ \/ \E r \in Request : (Acknowledged(r) \/ Unheard(r)) /\ UNCHANGED group
            \/ \E c \in late : Arrives(c) /\ UNCHANGED << fate, faults, copies, group >>
            \/ Apart
<1>1. WithinBudget /\ faults \in Nat /\ MessageInv
  BY FaultAssumption DEF PipelineInv, TopicCounted, AllClearInv, MessageInv, TypeOK
<1>2. ASSUME UNCHANGED vars PROVE WithinBudget' /\ UNCHANGED << fate, faults, copies >>
  BY <1>1, <1>2 DEF WithinBudget, Come, vars, http, kafka
<1>3. ASSUME NEW r \in Request, Published(r)
      PROVE  WithinBudget' /\ Acknowledged(r) /\ UNCHANGED group
  BY <1>1, <1>3 DEF Published, Publish, Acknowledged, WithinBudget, Come, http
<1>4. ASSUME NEW r \in Request, PublishedUnacknowledged(r)
      PROVE  WithinBudget' /\ Unheard(r) /\ UNCHANGED group
  BY <1>4 DEF PublishedUnacknowledged, PublishUnacknowledged, Unheard
<1>5. ASSUME NEW c \in late, Arrives(c)
      PROVE  WithinBudget' /\ UNCHANGED << fate, faults, copies, group >>
  BY <1>2, <1>5 DEF Arrives
<1>6. CASE ServerStep
  <2>1. ASSUME NEW r \in Request, Copied(r), copies' = copies PROVE FALSE
    <3>1. copies[r] \in Seq(Request) /\ buffer[context[r]] \in Request
      BY <1>1, <2>1 DEF Copied, MessageInv, Contexted, TypeOK
    <3>2. /\ Len(Append(copies[r], buffer[context[r]])) = Len(copies[r]) + 1
          /\ Len(copies[r]) \in Nat
      BY <3>1
    <3>3. copies[r] = Append(copies[r], buffer[context[r]])
      BY <1>1, <2>1 DEF Copied, MessageInv, TypeOK
    <3> QED BY <3>2, <3>3
  <2> QED BY <1>1, <1>6, <2>1, CopiesView DEF ServerStep, Apart
<1>7. CASE ServerDies \/ GroupLetsGo
  BY <1>7 DEF ServerDies, GroupLetsGo, Fault, Apart, kafka
<1>8. CASE GroupStep \/ GroupBegins \/ UNCHANGED pipeline
  <2>1. UNCHANGED << vars, topic, late >>
    BY <1>8 DEF GroupStep, GroupBegins, pipeline
  <2> QED BY <1>2, <2>1 DEF Apart
<1> QED BY <1>3, <1>4, <1>5, <1>6, <1>7, <1>8 DEF PipelineNext

-----------------------------------------------------------------------------
(***************************************************************************)
(* The invariant is inductive.                                             *)
(***************************************************************************)

LEMMA PublishedFinite == IsFiniteSet(PublishedOnes) /\ Cardinality(PublishedOnes) \in Nat
<1>1. PublishedOnes \in SUBSET Request
  BY DEF PublishedOnes
<1> QED BY <1>1, FiniteAssumption, FS_Subset, FS_CardinalityType

LEMMA TopicCountedNext ==
  ASSUME PipelineInv, [PipelineNext]_pipeline
  PROVE  TopicCounted'
<1>1. /\ topic \in Seq(Request) /\ Len(topic) \in Nat /\ WithinBudget' /\ faults \in Nat
      /\ Len(topic) + Cardinality(late) <= Cardinality(PublishedOnes) + faults
      /\ IsFiniteSet(PublishedOnes) /\ Cardinality(PublishedOnes) \in Nat
      /\ IsFiniteSet(late) /\ Cardinality(late) \in Nat
  BY PublishedFinite, TopicView, FaultAssumption, FS_CardinalityType
  DEF PipelineInv, TopicCounted, AllClearInv, MessageInv, TypeOK
<1>2. ASSUME NEW r \in Request, Acknowledged(r) PROVE TopicCounted'
  <2>1. topic' \in Seq(Request) /\ Len(topic') = Len(topic) + 1
    BY <1>1, <1>2 DEF Acknowledged
  <2>2. PublishedOnes' = PublishedOnes \cup {r} /\ r \notin PublishedOnes
    BY <1>2 DEF Acknowledged, PublishedOnes, PipelineInv, AllClearInv, MessageInv, TypeOK
  <2>3. Cardinality(PublishedOnes \cup {r}) = Cardinality(PublishedOnes) + 1
    BY <1>1, <2>2, FS_AddElement
  <2>4. Len(topic') + Cardinality(late') <= Cardinality(PublishedOnes') + faults'
    BY <1>1, <1>2, <2>1, <2>2, <2>3 DEF Acknowledged
  <2> QED BY <1>1, <1>2, <2>1, <2>4 DEF TopicCounted, Acknowledged
<1>3. ASSUME NEW r \in Request, Unheard(r) PROVE TopicCounted'
  <2> DEFINE c == << r, Len(copies'[r]) >>
  <2>1. late' = late \cup {c} /\ topic' = topic /\ faults' = faults + 1
    BY <1>3 DEF Unheard, Fault
  <2>2. PublishedOnes' = PublishedOnes
    BY <1>3 DEF Unheard, PublishedOnes
  <2> HIDE DEF c
  <2>3. IsFiniteSet(late') /\ Cardinality(late') \in {Cardinality(late), Cardinality(late) + 1}
    BY <1>1, <2>1, FS_AddElement
  <2>4. Len(topic') + Cardinality(late') <= Cardinality(PublishedOnes') + faults'
    BY <1>1, <2>1, <2>2, <2>3
  <2> QED BY <1>1, <2>1, <2>3, <2>4 DEF TopicCounted
<1>4. ASSUME NEW c \in late, Arrives(c), UNCHANGED << fate, faults >> PROVE TopicCounted'
  <2>1. c[1] \in Request
    BY DEF PipelineInv, LateAreCopies
  <2>2. topic' \in Seq(Request) /\ Len(topic') = Len(topic) + 1
    BY <1>1, <1>4, <2>1 DEF Arrives
  <2>3. IsFiniteSet(late') /\ Cardinality(late') = Cardinality(late) - 1
    BY <1>1, <1>4, FS_RemoveElement DEF Arrives
  <2>4. PublishedOnes' = PublishedOnes
    BY <1>4 DEF PublishedOnes
  <2>5. Len(topic') + Cardinality(late') <= Cardinality(PublishedOnes') + faults'
    BY <1>1, <1>4, <2>2, <2>3, <2>4
  <2> QED BY <1>1, <2>2, <2>3, <2>5 DEF TopicCounted
<1>5. CASE Apart
  <2>1. PublishedOnes' = PublishedOnes
    BY <1>5, SentStaysOn, ServerView DEF Apart, PublishedOnes, PipelineInv, AllClearInv
  <2>2. Len(topic') + Cardinality(late') <= Cardinality(PublishedOnes') + faults'
    BY <1>1, <1>5, <2>1 DEF Apart
  <2> QED BY <1>1, <1>5, <2>2 DEF TopicCounted, Apart
<1> QED BY <1>2, <1>3, <1>4, <1>5, TopicView

LEMMA LateAreCopiesNext ==
  ASSUME PipelineInv, [PipelineNext]_pipeline
  PROVE  LateAreCopies'
<1>1. /\ copies \in [Request -> Seq(Request)]
      /\ \A r \in Request :
           /\ fate[r] = "sent" => fate'[r] \in {"sent", "published", "failed"}
           /\ fate[r] \in {"published", "failed"} => fate'[r] = fate[r]
  BY SentStaysOn, ServerView DEF PipelineInv, AllClearInv, MessageInv, TypeOK
<1>2. \A r \in Request : Len(copies[r]) \in Nat
  BY <1>1
<1>3. ASSUME NEW r \in Request, fate[r] = "sent",
             copies' = [copies EXCEPT ![r] = Append(@, buffer[context[r]])]
      PROVE  /\ \A q \in Request : Len(copies'[q]) \in Nat /\ Len(copies[q]) <= Len(copies'[q])
             /\ Len(copies'[r]) = Len(copies[r]) + 1
  <2>1. buffer[context[r]] \in Request
    BY <1>3 DEF PipelineInv, AllClearInv, MessageInv, Contexted, TypeOK
  <2>2. /\ Len(Append(copies[r], buffer[context[r]])) = Len(copies[r]) + 1
        /\ copies'[r] = Append(copies[r], buffer[context[r]])
        /\ \A q \in Request \ {r} : copies'[q] = copies[q]
    BY <1>1, <1>3, <2>1
  <2> QED BY <1>2, <2>2
<1>4. ASSUME NEW c \in late, \A q \in Request : /\ Len(copies'[q]) \in Nat
                                                /\ Len(copies[q]) <= Len(copies'[q])
      PROVE  /\ c \in Request \X Nat /\ c[2] <= Len(copies'[c[1]])
             /\ fate'[c[1]] \in {"sent", "published", "failed"}
  <2>1. /\ c[1] \in Request /\ c[2] \in Nat /\ c \in Request \X Nat /\ c[2] <= Len(copies[c[1]])
        /\ fate[c[1]] \in {"sent", "published", "failed"}
    BY DEF PipelineInv, LateAreCopies
  <2> QED BY <1>1, <1>2, <1>4, <2>1
<1>5. ASSUME NEW r \in Request, Acknowledged(r) PROVE LateAreCopies'
  BY <1>3, <1>4, <1>5 DEF Acknowledged, LateAreCopies
<1>6. ASSUME NEW r \in Request, Unheard(r) PROVE LateAreCopies'
  <2>1. \A q \in Request : Len(copies'[q]) \in Nat /\ Len(copies[q]) <= Len(copies'[q])
    BY <1>3, <1>6 DEF Unheard
  <2>2. late' = late \cup {<< r, Len(copies'[r]) >>} /\ fate'[r] = "sent"
    BY <1>6 DEF Unheard
  <2> QED BY <1>4, <2>1, <2>2 DEF LateAreCopies
<1>7. ASSUME late' \subseteq late, copies' = copies PROVE LateAreCopies'
  BY <1>2, <1>4, <1>7 DEF LateAreCopies
<1> QED BY <1>5, <1>6, <1>7, TopicView DEF Arrives, Apart

LEMMA TopicSentNext ==
  ASSUME PipelineInv, [PipelineNext]_pipeline
  PROVE  TopicSent'
<1>1. /\ topic \in Seq(Request) /\ fate \in [Request -> Fates]
      /\ \A r \in Request :
           /\ fate[r] = "sent" => fate'[r] \in {"sent", "published", "failed"}
           /\ fate[r] \in {"published", "failed"} => fate'[r] = fate[r]
  BY SentStaysOn, ServerView DEF PipelineInv, AllClearInv, TopicCounted, MessageInv, TypeOK
<1>2. \A i \in 1 .. Len(topic) : fate'[topic[i]] \in {"sent", "published", "failed"}
  BY <1>1 DEF PipelineInv, TopicSent
<1>3. ASSUME NEW r \in Request, topic' = Append(topic, r), fate[r] \in {"sent", "published", "failed"},
             \A q \in Request \ {r} : fate'[q] = "published" => fate[q] = "published"
      PROVE  TopicSent'
  <2>1. /\ Len(topic) \in Nat /\ Len(topic') = Len(topic) + 1 /\ topic'[Len(topic) + 1] = r
        /\ \A i \in 1 .. Len(topic) : topic'[i] = topic[i]
    BY <1>1, <1>3
  <2>2. \A i \in 1 .. Len(topic') : i \in 1 .. Len(topic) \/ i = Len(topic) + 1
    BY <2>1
  <2>3. \A i \in 1 .. Len(topic') : fate'[topic'[i]] \in {"sent", "published", "failed"}
    BY <1>1, <1>2, <1>3, <2>1, <2>2
  <2>4. ASSUME NEW q \in Request, fate'[q] = "published"
        PROVE  \E i \in 1 .. Len(topic') : topic'[i] = q
    <3>1. CASE q = r
      BY <2>1, <3>1
    <3>2. CASE q # r
      <4>1. PICK i \in 1 .. Len(topic) : topic[i] = q
        BY <1>3, <2>4, <3>2 DEF PipelineInv, TopicSent, PublishedOnes
      <4> QED BY <2>1, <4>1
    <3> QED BY <3>1, <3>2
  <2> QED BY <2>3, <2>4 DEF TopicSent, PublishedOnes
<1>4. ASSUME topic' = topic,
             \A r \in Request : fate'[r] = "published" => fate[r] = "published"
      PROVE  TopicSent'
  BY <1>2, <1>4 DEF TopicSent, PublishedOnes, PipelineInv
<1>5. ASSUME NEW r \in Request, Acknowledged(r) PROVE TopicSent'
  BY <1>1, <1>3, <1>5 DEF Acknowledged
<1>6. ASSUME NEW r \in Request, Unheard(r) PROVE TopicSent'
  BY <1>4, <1>6 DEF Unheard
<1>7. ASSUME NEW c \in late, Arrives(c), UNCHANGED fate PROVE TopicSent'
  BY <1>3, <1>7 DEF Arrives, PipelineInv, LateAreCopies
<1> QED BY <1>4, <1>5, <1>6, <1>7, TopicView DEF Apart

\* What the group has cannot leave the topic, which only grows.
LEMMA GroupInTopicKept ==
  ASSUME PipelineInv, [PipelineNext]_pipeline, UNCHANGED group
  PROVE  GroupInTopic'
<1>1. DOMAIN topic = 1 .. Len(topic) /\ Len(topic) \in Nat /\ faults \in Nat
  BY FaultAssumption DEF PipelineInv, TopicCounted, AllClearInv, MessageInv, TypeOK
<1>2. DOMAIN topic \subseteq DOMAIN topic' /\ faults' \in {faults, faults + 1}
  <2>1. ASSUME NEW r \in Request, topic' = Append(topic, r)
        PROVE  DOMAIN topic \subseteq DOMAIN topic'
    <3>1. DOMAIN topic' = 1 .. Len(topic) + 1
      BY <1>1, <2>1 DEF PipelineInv, TopicCounted
    <3> QED BY <1>1, <3>1
  <2>2. \A c \in late : c[1] \in Request
    BY DEF PipelineInv, LateAreCopies
  <2> QED BY <2>1, <2>2, TopicView DEF Acknowledged, Unheard, Arrives, Apart, Fault
<1>3. aborts <= faults'
  BY <1>1, <1>2 DEF PipelineInv, GroupInTopic
<1> QED BY <1>2, <1>3 DEF PipelineInv, GroupInTopic, group

LEMMA GroupInTopicNext ==
  ASSUME PipelineInv, [PipelineNext]_pipeline
  PROVE  GroupInTopic'
<1>1. /\ rows \in [Places -> Nat] /\ held \in [Places -> Nat]
      /\ lost \cup skipped \cup done \subseteq DOMAIN topic
      /\ \A i \in Places : held[i] > 0 \/ rows[i] > 0 => i \in DOMAIN topic
      /\ aborts \in Nat /\ aborts <= faults /\ faults \in Nat
  BY FaultAssumption DEF PipelineInv, GroupInTopic, AllClearInv, MessageInv, TypeOK
<1>2. \A i \in Places : Group!Taken(i) \/ i \in skipped => i \in DOMAIN topic
  BY <1>1 DEF Group!Taken
<1>3. ASSUME NEW i \in Places, Group!Take(i) \/ Group!Store(i), UNCHANGED << vars, topic, late >>
      PROVE  GroupInTopic'
  <2>1. i \in DOMAIN topic /\ UNCHANGED << lost, skipped, done, aborts, topic, faults >>
    BY <1>1, <1>3 DEF Group!Take, Group!Store, vars
  <2>2. CASE Group!Take(i)
    BY <1>1, <2>1, <2>2 DEF Group!Take, GroupInTopic
  <2>3. CASE Group!Store(i)
    BY <1>1, <2>1, <2>3 DEF Group!Store, GroupInTopic
  <2> QED BY <1>3, <2>2, <2>3
<1>4. ASSUME NEW n \in Places, Group!Commit(1 .. n), UNCHANGED << vars, topic, late >>
      PROVE  GroupInTopic'
  <2>1. 1 .. n \subseteq Places
    BY PipelineAssumption DEF Places
  <2>2. 1 .. n \subseteq DOMAIN topic
    BY <1>2, <1>4, <2>1 DEF Group!Commit, Group!TakenOrSkipped
  <2> QED BY <1>1, <1>4, <2>2 DEF Group!Commit, GroupInTopic, vars
<1>5. CASE GroupLetsGo
  <2>1. /\ held' \in [Places -> 0 .. aborts + 1] /\ \A i \in Places : held'[i] <= held[i]
        /\ lost' = lost \cup { i \in Places : held'[i] < held[i] }
        /\ aborts' \in {aborts, aborts + 1} /\ faults' = faults + 1
        /\ UNCHANGED << topic, rows, skipped, done >>
    BY <1>5 DEF GroupLetsGo, Group!LetGo, Fault
  <2>2. held' \in [Places -> Nat]
    BY <1>1, <2>1
  <2>3. \A i \in Places : held'[i] > 0 \/ held'[i] < held[i] => held[i] > 0
    BY <1>1, <2>1, <2>2
  <2>4. aborts' \in Nat /\ aborts' <= faults'
    BY <1>1, <2>1
  <2> QED BY <1>1, <2>1, <2>2, <2>3, <2>4 DEF GroupInTopic
<1>6. CASE GroupBegins
  BY <1>1, <1>6 DEF GroupBegins, Group!Skip, GroupInTopic, vars
<1>7. CASE UNCHANGED group
  BY <1>7, GroupInTopicKept
<1> QED
  BY <1>3, <1>4, <1>5, <1>6, <1>7
  DEF PipelineNext, pipeline, Published, PublishedUnacknowledged, Arrives, ServerStep, ServerDies,
      GroupStep

\* A place of the topic is taken once, and once more for each aborted session.
LEMMA TakesCountedNext ==
  ASSUME PipelineInv, [PipelineNext]_pipeline
  PROVE  \A i \in Places : held'[i] + rows'[i] <= aborts' + 1
<1>1. /\ rows \in [Places -> Nat] /\ held \in [Places -> Nat] /\ aborts \in Nat
      /\ \A i \in Places : held[i] + rows[i] <= aborts + 1
  BY DEF PipelineInv, GroupInTopic, FaultsCounted
<1>2. ASSUME NEW i \in Places, Group!Take(i) PROVE \A j \in Places : held'[j] + rows'[j] <= aborts' + 1
  BY <1>1, <1>2 DEF Group!Take
<1>3. ASSUME NEW i \in Places, Group!Store(i) PROVE \A j \in Places : held'[j] + rows'[j] <= aborts' + 1
  BY <1>1, <1>3 DEF Group!Store
<1>4. CASE GroupLetsGo
  <2>1. /\ held' \in [Places -> 0 .. aborts + 1] /\ \A i \in Places : held'[i] <= held[i]
        /\ aborts' \in {aborts, aborts + 1} /\ rows' = rows
    BY <1>4 DEF GroupLetsGo, Group!LetGo
  <2>2. \A i \in Places : held'[i] \in Nat
    BY <1>1, <2>1
  <2> QED BY <1>1, <2>1, <2>2
<1>5. CASE UNCHANGED << held, rows, aborts >>
  BY <1>1, <1>5
<1> QED
  BY <1>2, <1>3, <1>4, <1>5
  DEF PipelineNext, pipeline, group, Published, PublishedUnacknowledged, Arrives, ServerStep,
      ServerDies, GroupStep, GroupBegins, Group!Skip, Group!Commit

\* An abort is a fault, and a step that appends aborts nothing.
LEMMA AbortsAreFaults ==
  ASSUME PipelineInv, [PipelineNext]_pipeline
  PROVE  aborts' = aborts \/ (aborts' = aborts + 1 /\ faults' = faults + 1)
BY DEF PipelineNext, pipeline, group, Published, PublishedUnacknowledged, Arrives, ServerStep,
       ServerDies, GroupStep, GroupBegins, GroupLetsGo, Fault, Group!Take, Group!Store, Group!Skip,
       Group!Commit, Group!LetGo

LEMMA LateOfFinite ==
  ASSUME PipelineInv, NEW r \in Request
  PROVE  IsFiniteSet(LateOf(r)) /\ Cardinality(LateOf(r)) \in Nat
<1>1. LateOf(r) \in SUBSET late
  BY DEF LateOf
<1> QED BY <1>1, FS_Subset, FS_CardinalityType DEF PipelineInv, TopicCounted

LEMMA PlacesOfFinite ==
  ASSUME NEW r \in Request
  PROVE  IsFiniteSet(PlacesOf(r)) /\ Cardinality(PlacesOf(r)) \in Nat
<1>1. IsFiniteSet(Places)
  BY PipelineAssumption, FS_Interval DEF Places
<1>2. PlacesOf(r) \in SUBSET Places
  BY DEF PlacesOf
<1> QED BY <1>1, <1>2, FS_Subset, FS_CardinalityType

\* An append adds a place to those of its request and to no others.
LEMMA PlacesOfAppends ==
  ASSUME topic \in Seq(Request), NEW r \in Request, topic' = Append(topic, r), NEW q \in Request
  PROVE  IF q = r THEN PlacesOf(q)' \subseteq PlacesOf(q) \cup {Len(topic) + 1}
                  ELSE PlacesOf(q)' = PlacesOf(q)
<1>1. /\ Len(topic) \in Nat /\ Len(topic') = Len(topic) + 1 /\ topic'[Len(topic) + 1] = r
      /\ \A i \in 1 .. Len(topic) : topic'[i] = topic[i]
  OBVIOUS
<1>2. \A i \in Places : i \in Nat \ {0}
  BY DEF Places
<1>3. ASSUME NEW i \in Places
      PROVE  /\ i <= Len(topic') <=> i <= Len(topic) \/ i = Len(topic) + 1
             /\ i <= Len(topic) => topic'[i] = topic[i] /\ i # Len(topic) + 1
  BY <1>1, <1>2
<1>4. CASE q = r
  BY <1>3, <1>4 DEF PlacesOf
<1>5. CASE q # r
  <2>1. \A i \in Places : (i <= Len(topic') /\ topic'[i] = q) <=> (i <= Len(topic) /\ topic[i] = q)
    BY <1>1, <1>3, <1>5
  <2> QED BY <1>5, <2>1 DEF PlacesOf
<1> QED BY <1>4, <1>5

LEMMA PlacesOfCounted ==
  ASSUME topic \in Seq(Request), NEW r \in Request, topic' = Append(topic, r), NEW q \in Request
  PROVE  /\ Cardinality(PlacesOf(q)') \in Nat
         /\ Cardinality(PlacesOf(q)') <= Cardinality(PlacesOf(q)) + (IF q = r THEN 1 ELSE 0)
<1>1. IsFiniteSet(PlacesOf(q)) /\ Cardinality(PlacesOf(q)) \in Nat
  BY PlacesOfFinite
<1>2. CASE q = r
  <2>1. PlacesOf(q)' \subseteq PlacesOf(q) \cup {Len(topic) + 1}
    BY <1>2, PlacesOfAppends
  <2>2. /\ IsFiniteSet(PlacesOf(q) \cup {Len(topic) + 1})
        /\ Cardinality(PlacesOf(q) \cup {Len(topic) + 1}) \in
             {Cardinality(PlacesOf(q)), Cardinality(PlacesOf(q)) + 1}
    BY <1>1, FS_AddElement
  <2>3. /\ Cardinality(PlacesOf(q)') \in Nat
        /\ Cardinality(PlacesOf(q)') <= Cardinality(PlacesOf(q) \cup {Len(topic) + 1})
    BY <2>1, <2>2, FS_Subset, FS_CardinalityType
  <2> QED BY <1>1, <1>2, <2>2, <2>3
<1>3. CASE q # r
  <2>1. PlacesOf(q)' = PlacesOf(q)
    BY <1>3, PlacesOfAppends
  <2> QED BY <1>1, <1>3, <2>1
<1> QED BY <1>2, <1>3

\* A copy of a message, in the topic or late, is the only one or cost a fault.
LEMMA CopiesCountedNext ==
  ASSUME PipelineInv, [PipelineNext]_pipeline, NEW q \in Request
  PROVE  Cardinality(PlacesOf(q)') + Cardinality(LateOf(q)') + aborts'
           <= faults' + (IF fate'[q] = "published" THEN 1 ELSE 0)
<1> DEFINE Own      == IF fate[q] = "published" THEN 1 ELSE 0
           OwnThen  == IF fate'[q] = "published" THEN 1 ELSE 0
           n        == Cardinality(PlacesOf(q))
           nThen    == Cardinality(PlacesOf(q)')
           l        == Cardinality(LateOf(q))
           lThen    == Cardinality(LateOf(q)')
<1>1. /\ topic \in Seq(Request) /\ faults \in Nat /\ aborts \in Nat /\ fate \in [Request -> Fates]
      /\ Own \in {0, 1} /\ OwnThen \in {0, 1} /\ n + l + aborts <= faults + Own
  BY FaultAssumption
  DEF PipelineInv, TopicCounted, GroupInTopic, FaultsCounted, AllClearInv, MessageInv, TypeOK
<1>2. /\ IsFiniteSet(LateOf(q)) /\ n \in Nat /\ l \in Nat
      /\ fate[q] = "published" => fate'[q] = "published"
  BY PlacesOfFinite, LateOfFinite, SentStaysOn, ServerView DEF PipelineInv, AllClearInv
<1>3. ASSUME NEW r \in Request, Acknowledged(r), UNCHANGED group
      PROVE  nThen + lThen + aborts' <= faults' + OwnThen
  <2>1. nThen \in Nat /\ nThen <= n + (IF q = r THEN 1 ELSE 0)
    BY <1>1, <1>3, PlacesOfCounted DEF Acknowledged
  <2>2. lThen = l /\ aborts' = aborts /\ faults' = faults
    BY <1>3 DEF Acknowledged, LateOf, group
  <2>3. OwnThen = Own + (IF q = r THEN 1 ELSE 0)
    BY <1>1, <1>3 DEF Acknowledged
  <2> HIDE DEF Own, OwnThen, n, nThen, l, lThen
  <2> QED BY <1>1, <1>2, <2>1, <2>2, <2>3
<1>4. ASSUME NEW r \in Request, Unheard(r), UNCHANGED group
      PROVE  nThen + lThen + aborts' <= faults' + OwnThen
  <2> DEFINE c == << r, Len(copies'[r]) >>
  <2>1. nThen = n /\ aborts' = aborts /\ faults' = faults + 1 /\ OwnThen = Own
    BY <1>4 DEF Unheard, PlacesOf, group, Fault
  <2>2. LateOf(q)' \subseteq LateOf(q) \cup {c}
    BY <1>4 DEF Unheard, LateOf
  <2> HIDE DEF c
  <2>3. /\ IsFiniteSet(LateOf(q) \cup {c})
        /\ Cardinality(LateOf(q) \cup {c}) \in {l, l + 1}
    BY <1>2, FS_AddElement
  <2>4. lThen \in Nat /\ lThen <= Cardinality(LateOf(q) \cup {c})
    BY <2>2, <2>3, FS_Subset, FS_CardinalityType
  <2> HIDE DEF Own, OwnThen, n, nThen, l, lThen
  <2> QED BY <1>1, <1>2, <2>1, <2>3, <2>4
<1>5. ASSUME NEW c \in late, Arrives(c), UNCHANGED << fate, faults, group >>
      PROVE  nThen + lThen + aborts' <= faults' + OwnThen
  <2>1. c[1] \in Request
    BY DEF PipelineInv, LateAreCopies
  <2>2. nThen \in Nat /\ nThen <= n + (IF q = c[1] THEN 1 ELSE 0)
    BY <1>1, <1>5, <2>1, PlacesOfCounted DEF Arrives
  <2>3. lThen \in Nat /\ lThen = l - (IF q = c[1] THEN 1 ELSE 0)
    <3>1. CASE q = c[1]
      <4>1. LateOf(q)' = LateOf(q) \ {c} /\ c \in LateOf(q)
        BY <1>5, <3>1 DEF Arrives, LateOf
      <4>2. Cardinality(LateOf(q) \ {c}) = l - 1 /\ IsFiniteSet(LateOf(q) \ {c})
        BY <1>2, <4>1, FS_RemoveElement
      <4> QED BY <1>2, <3>1, <4>1, <4>2, FS_CardinalityType
    <3>2. CASE q # c[1]
      <4>1. LateOf(q)' = LateOf(q)
        BY <1>5, <3>2 DEF Arrives, LateOf
      <4> QED BY <1>2, <3>2, <4>1
    <3> QED BY <3>1, <3>2
  <2>4. OwnThen = Own /\ aborts' = aborts /\ faults' = faults
    BY <1>5 DEF group
  <2> HIDE DEF Own, OwnThen, n, nThen, l, lThen
  <2> QED BY <1>1, <1>2, <2>2, <2>3, <2>4
<1>6. CASE Apart
  <2>1. nThen = n /\ lThen = l /\ OwnThen = Own
    BY <1>2, <1>6 DEF Apart, PlacesOf, LateOf
  <2>2. aborts' = aborts \/ (aborts' = aborts + 1 /\ faults' = faults + 1)
    BY AbortsAreFaults
  <2>3. /\ n \in Nat /\ l \in Nat /\ n + l + aborts <= faults + Own /\ Own \in {0, 1}
        /\ faults \in Nat /\ aborts \in Nat /\ faults' \in {faults, faults + 1}
    BY <1>1, <1>2, <1>6 DEF Apart
  <2> HIDE DEF Own, OwnThen, n, nThen, l, lThen
  <2>4. nThen + lThen + aborts' <= faults' + OwnThen
    BY ONLY <2>1, <2>2, <2>3
  <2> QED BY <2>4 DEF OwnThen, nThen, lThen
<1>7. nThen + lThen + aborts' <= faults' + OwnThen
  BY <1>3, <1>4, <1>5, <1>6, TopicView
<1> QED BY <1>7

LEMMA PipelineInvInit == PipelineInit => PipelineInv
<1> SUFFICES ASSUME PipelineInit PROVE PipelineInv
  OBVIOUS
<1>1. AllClearInv
  BY AllClearInvInit DEF PipelineInit
<1>2. PublishedOnes = {} /\ Come = {} /\ topic = << >> /\ late = {} /\ faults = 0
  BY DEF PipelineInit, Init, PublishedOnes, Come
<1>3. TopicCounted /\ LateAreCopies
  BY <1>2, FS_EmptySet, PipelineAssumption DEF TopicCounted, LateAreCopies, WithinBudget
<1>4. TopicSent
  BY <1>2 DEF TopicSent
<1>5. GroupInTopic
  BY <1>2 DEF PipelineInit, Group!Init, GroupInTopic
<1>6. \A r \in Request : Cardinality(PlacesOf(r)) = 0 /\ Cardinality(LateOf(r)) = 0
  <2>1. \A r \in Request : PlacesOf(r) = {} /\ LateOf(r) = {}
    BY <1>2 DEF PlacesOf, LateOf, Places
  <2> QED BY <2>1, FS_EmptySet
<1>7. FaultsCounted
  BY <1>2, <1>6 DEF PipelineInit, Group!Init, FaultsCounted
<1> QED BY <1>1, <1>3, <1>4, <1>5, <1>7 DEF PipelineInv

LEMMA PipelineInvariant == PipelineSpec => []PipelineInv
<1>1. PipelineInv /\ [PipelineNext]_pipeline => PipelineInv'
  <2> SUFFICES ASSUME PipelineInv, [PipelineNext]_pipeline PROVE PipelineInv'
    OBVIOUS
  <2>1. FaultsCounted'
    BY TakesCountedNext, CopiesCountedNext DEF FaultsCounted
  <2> QED
    BY <2>1, ServerView, AllClearInvGoesOn, TopicCountedNext, LateAreCopiesNext, TopicSentNext,
       GroupInTopicNext
    DEF PipelineInv
<1> QED BY <1>1, PipelineInvInit, PTL DEF PipelineSpec

-----------------------------------------------------------------------------

\* Every variable of the pipeline keeps its type. In particular the topic fits
\* in the places the bound on requests and faults leaves room for, the group
\* has nothing that is not in the topic, and each abort is a fault.
THEOREM PipelineTypeCorrect == PipelineSpec => []PipelineTypeOK
<1>1. PipelineInv => PipelineTypeOK
  <2> SUFFICES ASSUME PipelineInv PROVE PipelineTypeOK
    OBVIOUS
  <2>1. TypeOK /\ topic \in Seq(Request)
    BY DEF PipelineInv, AllClearInv, MessageInv, TopicCounted
  <2>2. aborts \in 0 .. MaxFaults
    BY <2>1, FaultAssumption DEF PipelineInv, GroupInTopic, TypeOK
  <2>3. Len(topic) <= Budget - 1
    <3>1. /\ Len(topic) + Cardinality(late) <= Cardinality(PublishedOnes) + faults
          /\ Cardinality(late) \in Nat
          /\ 2 * Cardinality(Come) + faults <= Budget
          /\ Len(topic) \in Nat /\ faults \in Nat /\ Budget \in Nat \ {0}
      BY <2>1, PipelineAssumption, FaultAssumption, FS_CardinalityType
      DEF PipelineInv, TopicCounted, WithinBudget, TypeOK
    <3>2. Come \in SUBSET Request /\ PublishedOnes \in SUBSET Come
      BY DEF Come, PublishedOnes, PipelineInv, AllClearInv, MessageInv, Contexted, TypeOK
    <3>3. IsFiniteSet(Come) /\ Cardinality(Come) \in Nat
      BY <3>2, FiniteAssumption, FS_Subset, FS_CardinalityType
    <3>4. Cardinality(PublishedOnes) \in Nat /\ Cardinality(PublishedOnes) <= Cardinality(Come)
      BY <3>2, <3>3, PublishedFinite, FS_Subset
    <3>5. CASE Cardinality(Come) > 0
      BY <3>1, <3>3, <3>4, <3>5
    <3>6. CASE Cardinality(Come) = 0
      <4>1. Come = {}
        BY <3>3, <3>6, FS_EmptySet
      <4>2. \A r \in Request : fate[r] \notin {"sent", "published", "failed"}
        BY <4>1 DEF Come, PipelineInv, AllClearInv, MessageInv, Contexted, TypeOK
      <4>3. \A i \in 1 .. Len(topic) : topic[i] \in Request
        BY <2>1
      <4>4. Len(topic) = 0
        BY <2>1, <4>2, <4>3 DEF PipelineInv, TopicSent
      <4> QED BY <3>1, <4>4
    <3> QED BY <3>3, <3>5, <3>6
  <2>4. DOMAIN topic \subseteq Places
    BY <2>1, <2>3, PipelineAssumption DEF Places
  <2>5. late \subseteq Request \X Nat
    BY DEF PipelineInv, LateAreCopies
  <2> QED BY <2>1, <2>2, <2>4, <2>5 DEF PipelineTypeOK, PipelineInv, GroupInTopic
<1> QED BY <1>1, PipelineInvariant, PTL

\* A stored request has one message with one row, except that each fault adds a
\* message or a row to each: lost acknowledgements and aborted sessions add up,
\* and nothing else makes a duplicate.
THEOREM DuplicatesCostFaults == PipelineSpec => []OneRowUnlessFaults
<1>1. PipelineInv => OneRowUnlessFaults
  <2> SUFFICES ASSUME PipelineInv, NEW r \in Request, NEW i \in PlacesOf(r)
               PROVE  Cardinality(PlacesOf(r)) + Cardinality(LateOf(r)) + rows[i] <= 2 + faults
    BY DEF OneRowUnlessFaults
  <2> DEFINE Own == IF fate[r] = "published" THEN 1 ELSE 0
  <2>1. /\ Cardinality(PlacesOf(r)) + Cardinality(LateOf(r)) + aborts <= faults + Own
        /\ Own \in {0, 1}
        /\ held[i] + rows[i] <= aborts + 1 /\ held[i] \in Nat /\ rows[i] \in Nat
        /\ aborts \in Nat /\ faults \in Nat
    BY FaultAssumption
    DEF PipelineInv, FaultsCounted, GroupInTopic, PlacesOf, AllClearInv, MessageInv, TypeOK
  <2>2. Cardinality(PlacesOf(r)) \in Nat /\ Cardinality(LateOf(r)) \in Nat
    BY PlacesOfFinite, LateOfFinite
  <2> HIDE DEF Own
  <2> QED BY <2>1, <2>2
<1> QED BY <1>1, PipelineInvariant, PTL

\* No row without a request that was accepted, queued, and given to the producer
\* by a worker: a refused or dropped one is never in the topic.
THEOREM OnlyInputIsInTopic == PipelineSpec => []NoRowBeforeInput
<1>1. PipelineInv => NoRowBeforeInput
  BY DEF PipelineInv, TopicSent, TopicCounted, NoRowBeforeInput, PlacesOf, Places
<1> QED BY <1>1, PipelineInvariant, PTL

\* A report of the producer is true of the topic, whatever comes after it, and so
\* is "all clear": what was queued is in it, or the producer has reported it
\* failed, with any number of requests and workers.
THEOREM AllClearReachesTopic == PipelineSpec => []AllClearIsInTopic
<1>1. PipelineInv /\ PipelineTypeOK => AllClearIsInTopic
  <2> SUFFICES ASSUME PipelineInv, PipelineTypeOK, NEW r \in Request
               PROVE  \/ PlacesOf(r) # {}
                      \/ /\ fate[r] # "published"
                         /\ main = "clear" =>
                              fate[r] \in {"none", "refused", "offered", "dropped", "failed"}
    BY DEF AllClearIsInTopic
  <2>1. fate[r] \in Fates /\ (main = "clear" => fate[r] \notin {"queued", "held", "sent"})
    BY AllClearFollows DEF PipelineInv, AllClearIsClear, AllClearInv, MessageInv, TypeOK
  <2>2. ASSUME fate[r] = "published" PROVE PlacesOf(r) # {}
    <3>1. PICK i \in 1 .. Len(topic) : topic[i] = r
      BY <2>2 DEF PipelineInv, TopicSent, PublishedOnes
    <3>2. i \in Places /\ i <= Len(topic)
      BY <3>1 DEF PipelineTypeOK
    <3> QED BY <3>1, <3>2 DEF PlacesOf
  <2> QED BY <2>1, <2>2 DEF Fates
<1> QED BY <1>1, PipelineInvariant, PipelineTypeCorrect, PTL
=============================================================================
