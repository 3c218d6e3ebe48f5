-------------------------- MODULE GroupFateProofs --------------------------
(***************************************************************************)
(* The consumer group implements GroupFate, for every value of its         *)
(* constants: whatever its members do, each aborted session costs a        *)
(* message one extra row at the most, and none is passed over.             *)
(***************************************************************************)
EXTENDS ConsumerGroupProofs, FiniteSetTheorems

-----------------------------------------------------------------------------
(***************************************************************************)
(* Who may still take a message. Kafka's group takes it again unless it    *)
(* has committed it or an owner has handed it over and will commit that;   *)
(* and so does, on its own account, each evicted member that has not come  *)
(* to it yet, for which an aborted session was counted.                    *)
(***************************************************************************)

\* An owner's session has marked the message, or is about to.
MarkedBy(m, msg) ==
  \/ msg[2] < marked[m][msg[1]]
  \/ claim[m][msg[1]] = "mark" /\ msg[2] = pos[m][msg[1]]

Settled(msg) == msg[2] < committed[msg[1]] \/ \E m \in Owners : MarkedBy(m, msg)

\* The claim of member m has not handed the message over yet.
Before(m, msg) ==
  /\ claim[m][msg[1]] # "none" /\ pos[m][msg[1]] <= msg[2]
  /\ ~(claim[m][msg[1]] = "mark" /\ msg[2] = pos[m][msg[1]])

Stragglers(msg) == { m \in Members : evicted[m] /\ Before(m, msg) }

Total(msg) == rows[msg] + Copies(msg)

\* All takes of a message, those made and those still to come.
Takes(msg) == Total(msg) + Cardinality(Stragglers(msg)) + (IF Settled(msg) THEN 0 ELSE 1)

TakesBounded == \A msg \in Msg : Takes(msg) <= 1 + aborts

-----------------------------------------------------------------------------
(***************************************************************************)
(* Counting copies: what an append, a take, the end of a process and a     *)
(* change of one worker's hands do to the places of a message.             *)
(***************************************************************************)

\* The types of the queues and of the workers' hands.
Queues == [Members -> Seq(Msg)]
Hands  == [Members -> [Workers -> Msg \cup {Idle, Stopped}]]

\* What changes of them is the queue of one member, the hands of one worker.
OnlyQueue(q, r, m)   == \A n \in Members : n # m => r[n] = q[n]
OnlyHand(h, r, m, w) == \A n \in Members, u \in Workers : n # m \/ u # w => r[n][u] = h[n][u]

LEMMA PlacesFinite ==
  ASSUME NEW queues, NEW hands, NEW msg
  PROVE  /\ IsFiniteSet(QueuePlaces(queues, msg)) /\ IsFiniteSet(HandPlaces(hands, msg))
         /\ Cardinality(QueuePlaces(queues, msg)) \in Nat
         /\ Cardinality(HandPlaces(hands, msg)) \in Nat
<1>1. IsFiniteSet(1 .. QueueCap)
  BY FS_Interval, CapAssumption
<1>2. IsFiniteSet(Members \X (1 .. QueueCap)) /\ IsFiniteSet(Members \X Workers)
  BY <1>1, FS_Product, FiniteAssumption
<1>3. /\ QueuePlaces(queues, msg) \in SUBSET (Members \X (1 .. QueueCap))
      /\ HandPlaces(hands, msg) \in SUBSET (Members \X Workers)
  BY DEF QueuePlaces, HandPlaces
<1>4. IsFiniteSet(QueuePlaces(queues, msg)) /\ IsFiniteSet(HandPlaces(hands, msg))
  BY <1>2, <1>3, FS_Subset
<1> QED BY <1>4, FS_CardinalityType

LEMMA AppendPlaces ==
  ASSUME NEW q \in Queues, NEW m \in Members, Len(q[m]) < QueueCap,
         NEW e \in Msg, NEW msg, NEW r \in Queues,
         r[m] = Append(q[m], e), OnlyQueue(q, r, m)
  PROVE  Cardinality(QueuePlaces(r, msg)) =
           Cardinality(QueuePlaces(q, msg)) + (IF msg = e THEN 1 ELSE 0)
<1> USE DEF Queues, OnlyQueue
<1> DEFINE last == << m, Len(q[m]) + 1 >>
<1>1. r[m] = Append(q[m], e) /\ \A n \in Members \ {m} : r[n] = q[n]
  OBVIOUS
<1>2. /\ q[m] \in Seq(Msg) /\ Len(q[m]) \in Nat
      /\ Len(r[m]) = Len(q[m]) + 1 /\ r[m][Len(q[m]) + 1] = e
      /\ \A i \in 1 .. Len(q[m]) : r[m][i] = q[m][i]
  BY <1>1
<1>3. last \in Members \X (1 .. QueueCap) /\ last \notin QueuePlaces(q, msg)
  BY <1>2, CapAssumption DEF QueuePlaces
<1>4. \A n \in Members, i \in 1 .. QueueCap :
        << n, i >> \in QueuePlaces(r, msg) <=>
          << n, i >> \in QueuePlaces(q, msg) \/ (<< n, i >> = last /\ msg = e)
  <2> SUFFICES ASSUME NEW n \in Members, NEW i \in 1 .. QueueCap
               PROVE  << n, i >> \in QueuePlaces(r, msg) <=>
                        << n, i >> \in QueuePlaces(q, msg) \/ (<< n, i >> = last /\ msg = e)
    OBVIOUS
  <2>1. CASE n # m
    BY <2>1, <1>1 DEF QueuePlaces
  <2>2. CASE n = m
    BY <2>2, <1>2 DEF QueuePlaces
  <2> QED BY <2>1, <2>2
<1> HIDE DEF last
<1>5. QueuePlaces(r, msg) = IF msg = e THEN QueuePlaces(q, msg) \cup {last} ELSE QueuePlaces(q, msg)
  <2>1. /\ QueuePlaces(r, msg) \subseteq Members \X (1 .. QueueCap)
        /\ QueuePlaces(q, msg) \subseteq Members \X (1 .. QueueCap)
    BY DEF QueuePlaces
  <2>2. ASSUME NEW c \in Members \X (1 .. QueueCap)
        PROVE  c \in QueuePlaces(r, msg) <=> c \in QueuePlaces(q, msg) \/ (c = last /\ msg = e)
    <3>1. PICK n \in Members, i \in 1 .. QueueCap : c = << n, i >>
      OBVIOUS
    <3> QED BY <3>1, <1>4
  <2> QED BY <1>3, <2>1, <2>2
<1>6. IsFiniteSet(QueuePlaces(q, msg)) /\ Cardinality(QueuePlaces(q, msg)) \in Nat
  BY PlacesFinite
<1>7. Cardinality(QueuePlaces(q, msg) \cup {last}) = Cardinality(QueuePlaces(q, msg)) + 1
  BY <1>3, <1>6, FS_AddElement
<1> QED BY <1>5, <1>6, <1>7

LEMMA TailPlaces ==
  ASSUME NEW q \in Queues, NEW m \in Members, q[m] # << >>, Len(q[m]) <= QueueCap,
         NEW msg
  PROVE  Cardinality(QueuePlaces([q EXCEPT ![m] = Tail(@)], msg)) =
           Cardinality(QueuePlaces(q, msg)) - (IF msg = Head(q[m]) THEN 1 ELSE 0)
<1> USE DEF Queues
<1> DEFINE r     == [q EXCEPT ![m] = Tail(@)]
           first == << m, 1 >>
           shift == [c \in QueuePlaces(r, msg) |-> IF c[1] = m THEN << m, c[2] + 1 >> ELSE c]
<1>1. r[m] = Tail(q[m]) /\ \A n \in Members \ {m} : r[n] = q[n]
  OBVIOUS
<1>2. /\ q[m] \in Seq(Msg) /\ Len(q[m]) \in Nat \ {0}
      /\ Len(r[m]) = Len(q[m]) - 1 /\ q[m][1] = Head(q[m])
      /\ \A i \in 1 .. Len(q[m]) - 1 : r[m][i] = q[m][i + 1]
  BY <1>1
<1> HIDE DEF r
<1>3. \A n \in Members, i \in 1 .. QueueCap :
        << n, i >> \in QueuePlaces(r, msg) <=>
          IF n = m THEN i + 1 <= Len(q[m]) /\ q[m][i + 1] = msg
                   ELSE << n, i >> \in QueuePlaces(q, msg)
  <2> SUFFICES ASSUME NEW n \in Members, NEW i \in 1 .. QueueCap
               PROVE  << n, i >> \in QueuePlaces(r, msg) <=>
                        IF n = m THEN i + 1 <= Len(q[m]) /\ q[m][i + 1] = msg
                                 ELSE << n, i >> \in QueuePlaces(q, msg)
    OBVIOUS
  <2>1. CASE n # m
    BY <2>1, <1>1 DEF QueuePlaces
  <2>2. CASE n = m
    BY <2>2, <1>2 DEF QueuePlaces
  <2> QED BY <2>1, <2>2
<1>4. ASSUME NEW c \in QueuePlaces(r, msg)
      PROVE  shift[c] \in QueuePlaces(q, msg) \ {first}
  <2>1. PICK n \in Members, i \in 1 .. QueueCap : c = << n, i >>
    BY DEF QueuePlaces
  <2>2. CASE n # m
    BY <2>1, <2>2, <1>3
  <2>3. CASE n = m
    <3>1. i + 1 <= Len(q[m]) /\ q[m][i + 1] = msg
      BY <2>1, <2>3, <1>3
    <3>2. shift[c] = << m, i + 1 >> /\ i + 1 \in 1 .. QueueCap /\ i + 1 # 1
      BY <2>1, <2>3, <3>1, <1>2, CapAssumption
    <3> HIDE DEF shift
    <3> QED BY <3>1, <3>2 DEF QueuePlaces
  <2> QED BY <2>2, <2>3
<1>5. ASSUME NEW c \in QueuePlaces(r, msg), NEW d \in QueuePlaces(r, msg), shift[c] = shift[d]
      PROVE  c = d
  <2>1. PICK n \in Members, i \in 1 .. QueueCap : c = << n, i >>
    BY DEF QueuePlaces
  <2>2. PICK o \in Members, j \in 1 .. QueueCap : d = << o, j >>
    BY DEF QueuePlaces
  <2> QED BY <1>5, <2>1, <2>2
<1>6. ASSUME NEW d \in QueuePlaces(q, msg) \ {first}
      PROVE  \E c \in QueuePlaces(r, msg) : shift[c] = d
  <2>1. PICK n \in Members, i \in 1 .. QueueCap :
          d = << n, i >> /\ i <= Len(q[n]) /\ q[n][i] = msg
    BY DEF QueuePlaces
  <2>2. CASE n # m
    BY <2>1, <2>2, <1>3
  <2>3. CASE n = m
    <3>1. i # 1 /\ i - 1 \in 1 .. QueueCap /\ (i - 1) + 1 = i
      BY <2>1, <2>3, CapAssumption
    <3>2. << m, i - 1 >> \in QueuePlaces(r, msg)
      BY <2>1, <2>3, <3>1, <1>3
    <3>3. shift[<< m, i - 1 >>] = << m, i >>
      BY <3>1, <3>2
    <3> QED BY <2>1, <2>3, <3>2, <3>3
  <2> QED BY <2>2, <2>3
<1>7. Cardinality(QueuePlaces(q, msg) \ {first}) = Cardinality(QueuePlaces(r, msg))
  <2> DEFINE T == QueuePlaces(q, msg) \ {first}
  <2>1. shift \in [QueuePlaces(r, msg) -> T]
    BY <1>4
  <2> HIDE DEF shift, T
  <2>2. shift \in Bijection(QueuePlaces(r, msg), T)
    <3>1. \A c, d \in QueuePlaces(r, msg) : shift[c] = shift[d] => c = d
      BY <1>5
    <3>2. \A d \in T : \E c \in QueuePlaces(r, msg) : shift[c] = d
      BY <1>6 DEF T
    <3> QED BY <2>1, <3>1, <3>2 DEF Bijection, Injection, Surjection, IsInjective
  <2>3. ExistsBijection(QueuePlaces(r, msg), T)
    BY <2>2 DEF ExistsBijection
  <2>4. IsFiniteSet(QueuePlaces(r, msg))
    BY PlacesFinite
  <2>5. Cardinality(T) = Cardinality(QueuePlaces(r, msg))
    BY <2>3, <2>4, FS_Bijection
  <2> QED BY <2>5 DEF T
<1>8. IsFiniteSet(QueuePlaces(q, msg)) /\ Cardinality(QueuePlaces(q, msg)) \in Nat
  BY PlacesFinite
<1>9. first \in QueuePlaces(q, msg) <=> msg = Head(q[m])
  BY <1>2, CapAssumption DEF QueuePlaces
<1> HIDE DEF first, shift
<1>10. Cardinality(QueuePlaces(q, msg) \ {first}) =
         IF msg = Head(q[m]) THEN Cardinality(QueuePlaces(q, msg)) - 1 ELSE Cardinality(QueuePlaces(q, msg))
  BY <1>8, <1>9, FS_RemoveElement
<1> QED BY <1>7, <1>8, <1>10 DEF r

LEMMA EmptyPlaces ==
  ASSUME NEW q \in Queues, NEW m \in Members, \A n \in Members : Len(q[n]) <= QueueCap,
         NEW msg
  PROVE  LET r == [q EXCEPT ![m] = << >>]
         IN  /\ Cardinality(QueuePlaces(r, msg)) <= Cardinality(QueuePlaces(q, msg))
             /\ Cardinality(QueuePlaces(r, msg)) < Cardinality(QueuePlaces(q, msg))
                  <=> msg \in { q[m][i] : i \in 1 .. Len(q[m]) }
<1> USE DEF Queues
<1> DEFINE r == [q EXCEPT ![m] = << >>]
<1>1. r[m] = << >> /\ \A n \in Members \ {m} : r[n] = q[n]
  OBVIOUS
<1> HIDE DEF r
<1>2. QueuePlaces(r, msg) \in SUBSET QueuePlaces(q, msg)
  BY <1>1 DEF QueuePlaces
<1>3. ASSUME NEW i \in 1 .. Len(q[m]), msg = q[m][i]
      PROVE  QueuePlaces(r, msg) # QueuePlaces(q, msg)
  <2>1. << m, i >> \in QueuePlaces(q, msg)
    BY <1>3, CapAssumption DEF QueuePlaces
  <2>2. << m, i >> \notin QueuePlaces(r, msg)
    BY <1>1 DEF QueuePlaces
  <2> QED BY <2>1, <2>2
<1>4. ASSUME msg \notin { q[m][i] : i \in 1 .. Len(q[m]) }
      PROVE  QueuePlaces(q, msg) \subseteq QueuePlaces(r, msg)
  <2> SUFFICES ASSUME NEW n \in Members, NEW i \in 1 .. QueueCap, i <= Len(q[n]), q[n][i] = msg
               PROVE  << n, i >> \in QueuePlaces(r, msg)
    BY DEF QueuePlaces
  <2>1. n # m
    BY <1>4
  <2> QED BY <2>1, <1>1 DEF QueuePlaces
<1>5. /\ Cardinality(QueuePlaces(r, msg)) <= Cardinality(QueuePlaces(q, msg))
      /\ Cardinality(QueuePlaces(r, msg)) < Cardinality(QueuePlaces(q, msg))
           <=> QueuePlaces(r, msg) # QueuePlaces(q, msg)
  BY <1>2, PlacesFinite, FS_Subset
<1> QED BY <1>2, <1>3, <1>4, <1>5 DEF r

LEMMA GrabPlaces ==
  ASSUME NEW h \in Hands,
         NEW m \in Members, NEW w \in Workers, h[m][w] \notin Msg,
         NEW msg \in Msg, NEW r \in Hands,
         OnlyHand(h, r, m, w)
  PROVE  Cardinality(HandPlaces(r, msg)) =
           Cardinality(HandPlaces(h, msg)) + (IF msg = r[m][w] THEN 1 ELSE 0)
<1> USE DEF Hands, OnlyHand
<1> DEFINE v == r[m][w]
<1>1. \A n \in Members, u \in Workers :
        r[n][u] = IF n = m /\ u = w THEN v ELSE h[n][u]
  OBVIOUS
<1> HIDE DEF v
<1>2. << m, w >> \in Members \X Workers /\ << m, w >> \notin HandPlaces(h, msg)
  BY DEF HandPlaces
<1>3. \A n \in Members, u \in Workers :
        << n, u >> \in HandPlaces(r, msg) <=>
          << n, u >> \in HandPlaces(h, msg) \/ (<< n, u >> = << m, w >> /\ msg = v)
  BY <1>1 DEF HandPlaces
<1>4. HandPlaces(r, msg) = IF msg = v THEN HandPlaces(h, msg) \cup {<< m, w >>} ELSE HandPlaces(h, msg)
  <2>1. HandPlaces(r, msg) \subseteq Members \X Workers /\ HandPlaces(h, msg) \subseteq Members \X Workers
    BY DEF HandPlaces
  <2>2. ASSUME NEW c \in Members \X Workers
        PROVE  c \in HandPlaces(r, msg) <=> c \in HandPlaces(h, msg) \/ (c = << m, w >> /\ msg = v)
    <3>1. PICK n \in Members, u \in Workers : c = << n, u >>
      OBVIOUS
    <3> QED BY <3>1, <1>3
  <2> QED BY <1>2, <2>1, <2>2
<1>5. IsFiniteSet(HandPlaces(h, msg)) /\ Cardinality(HandPlaces(h, msg)) \in Nat
  BY PlacesFinite
<1>6. Cardinality(HandPlaces(h, msg) \cup {<< m, w >>}) = Cardinality(HandPlaces(h, msg)) + 1
  BY <1>2, <1>5, FS_AddElement
<1> QED BY <1>4, <1>5, <1>6 DEF v

LEMMA ReleasePlaces ==
  ASSUME NEW h \in Hands,
         NEW m \in Members, NEW w \in Workers, NEW msg \in Msg
  PROVE  Cardinality(HandPlaces([h EXCEPT ![m][w] = Idle], msg)) =
           Cardinality(HandPlaces(h, msg)) - (IF msg = h[m][w] THEN 1 ELSE 0)
<1> USE DEF Hands
<1> DEFINE r == [h EXCEPT ![m][w] = Idle]
<1>1. \A n \in Members, u \in Workers :
        r[n][u] = IF n = m /\ u = w THEN Idle ELSE h[n][u]
  OBVIOUS
<1> HIDE DEF r
<1>2. msg # Idle
  BY WorkerAssumption
<1>3. \A n \in Members, u \in Workers :
        << n, u >> \in HandPlaces(r, msg) <=>
          << n, u >> \in HandPlaces(h, msg) /\ << n, u >> # << m, w >>
  BY <1>1, <1>2 DEF HandPlaces
<1>4. HandPlaces(r, msg) = HandPlaces(h, msg) \ {<< m, w >>}
  <2>1. HandPlaces(r, msg) \subseteq Members \X Workers /\ HandPlaces(h, msg) \subseteq Members \X Workers
    BY DEF HandPlaces
  <2> QED BY <1>3, <2>1
<1>5. << m, w >> \in HandPlaces(h, msg) <=> msg = h[m][w]
  BY DEF HandPlaces
<1>6. IsFiniteSet(HandPlaces(h, msg)) /\ Cardinality(HandPlaces(h, msg)) \in Nat
  BY PlacesFinite
<1>7. Cardinality(HandPlaces(h, msg) \ {<< m, w >>}) =
        IF msg = h[m][w] THEN Cardinality(HandPlaces(h, msg)) - 1 ELSE Cardinality(HandPlaces(h, msg))
  BY <1>5, <1>6, FS_RemoveElement
<1>8. Cardinality(HandPlaces(r, msg)) =
        IF msg = h[m][w] THEN Cardinality(HandPlaces(h, msg)) - 1 ELSE Cardinality(HandPlaces(h, msg))
  BY <1>4, <1>7
<1> QED BY <1>6, <1>8 DEF r

LEMMA DropPlaces ==
  ASSUME NEW h \in Hands,
         NEW m \in Members, NEW msg \in Msg
  PROVE  LET r == [h EXCEPT ![m] = AllIdle]
         IN  /\ Cardinality(HandPlaces(r, msg)) <= Cardinality(HandPlaces(h, msg))
             /\ Cardinality(HandPlaces(r, msg)) < Cardinality(HandPlaces(h, msg))
                  <=> msg \in { h[m][w] : w \in Workers }
<1> USE DEF Hands
<1> DEFINE r == [h EXCEPT ![m] = AllIdle]
<1>1. \A n \in Members, u \in Workers : r[n][u] = IF n = m THEN Idle ELSE h[n][u]
  BY DEF AllIdle
<1> HIDE DEF r
<1>2. msg # Idle
  BY WorkerAssumption
<1>3. HandPlaces(r, msg) \in SUBSET HandPlaces(h, msg)
  BY <1>1, <1>2 DEF HandPlaces
<1>4. ASSUME NEW w \in Workers, msg = h[m][w]
      PROVE  HandPlaces(r, msg) # HandPlaces(h, msg)
  <2>1. << m, w >> \in HandPlaces(h, msg) /\ << m, w >> \notin HandPlaces(r, msg)
    BY <1>1, <1>2, <1>4 DEF HandPlaces
  <2> QED BY <2>1
<1>5. ASSUME msg \notin { h[m][w] : w \in Workers }
      PROVE  HandPlaces(h, msg) \subseteq HandPlaces(r, msg)
  BY <1>1, <1>5 DEF HandPlaces
<1>6. /\ Cardinality(HandPlaces(r, msg)) <= Cardinality(HandPlaces(h, msg))
      /\ Cardinality(HandPlaces(r, msg)) < Cardinality(HandPlaces(h, msg))
           <=> HandPlaces(r, msg) # HandPlaces(h, msg)
  BY <1>3, PlacesFinite, FS_Subset
<1> QED BY <1>3, <1>4, <1>5, <1>6 DEF r

-----------------------------------------------------------------------------
(***************************************************************************)
(* What each action does to the number of copies.                          *)
(***************************************************************************)

LEMMA CopiesNat ==
  ASSUME NEW msg
  PROVE  Copies(msg) \in Nat /\ Copies(msg)' \in Nat
<1>1. /\ Cardinality(QueuePlaces(queue, msg)) \in Nat /\ Cardinality(HandPlaces(worker, msg)) \in Nat
      /\ Cardinality(QueuePlaces(queue', msg)) \in Nat /\ Cardinality(HandPlaces(worker', msg)) \in Nat
  BY PlacesFinite
<1> QED BY <1>1 DEF Copies, QueuePlaces, HandPlaces

\* Copies' is the count in the queues and hands after the step.
LEMMA CopiesAfter ==
  ASSUME NEW msg
  PROVE  Copies(msg)' = Cardinality(QueuePlaces(queue', msg)) + Cardinality(HandPlaces(worker', msg))
  BY DEF Copies, QueuePlaces, HandPlaces

LEMMA CopiesSend ==
  ASSUME TypeInv, NEW m \in Members, NEW p \in Partitions, ClaimSend(m, p), NEW msg \in Msg
  PROVE  Copies(msg)' = Copies(msg) + (IF msg = << p, pos[m][p] >> THEN 1 ELSE 0)
<1>1. /\ queue \in Queues /\ Len(queue[m]) < QueueCap
      /\ queue' = [queue EXCEPT ![m] = Append(@, << p, pos[m][p] >>)] /\ worker' = worker
  BY DEF ClaimSend, TypeInv, TypeOK, Queues, Hands
<1>2. PICK e \in Msg : e = << p, pos[m][p] >>
  <2>1. << p, pos[m][p] >> \in Msg
    BY BoundsAssumption DEF ClaimSend, TypeInv, TypeOK, PosInLog, Offset, Msg
  <2> QED BY <2>1
<1>3. Cardinality(QueuePlaces(queue', msg)) =
        Cardinality(QueuePlaces(queue, msg)) + (IF msg = << p, pos[m][p] >> THEN 1 ELSE 0)
  <2>1. /\ queue \in Queues /\ Len(queue[m]) < QueueCap
        /\ queue' \in Queues /\ queue'[m] = Append(queue[m], e)
        /\ OnlyQueue(queue, queue', m)
    BY <1>1, <1>2 DEF Queues, Hands, OnlyQueue, OnlyHand
  <2>2. Cardinality(QueuePlaces(queue', msg)) =
          Cardinality(QueuePlaces(queue, msg)) + (IF msg = e THEN 1 ELSE 0)
    BY <2>1, AppendPlaces
  <2> QED BY <1>2, <2>2
<1>4. Cardinality(QueuePlaces(queue, msg)) \in Nat /\ Cardinality(HandPlaces(worker, msg)) \in Nat
  BY PlacesFinite
<1> QED BY <1>1, <1>3, <1>4, CopiesAfter DEF Copies

LEMMA CopiesTake ==
  ASSUME TypeInv, NEW m \in Members, NEW w \in Workers, WorkerTake(m, w), NEW msg \in Msg
  PROVE  Copies(msg)' = Copies(msg)
<1>1. /\ queue \in Queues /\ queue[m] # << >> /\ Len(queue[m]) <= QueueCap
      /\ worker \in Hands /\ worker[m][w] \notin Msg
      /\ queue' = [queue EXCEPT ![m] = Tail(@)]
      /\ worker' = [worker EXCEPT ![m][w] = Head(queue[m])]
  BY WorkerAssumption DEF WorkerTake, TypeInv, TypeOK, Queues, Hands
<1>2. PICK e \in Msg : e = Head(queue[m])
  BY <1>1 DEF Queues
<1>3. Cardinality(QueuePlaces(queue', msg)) =
        Cardinality(QueuePlaces(queue, msg)) - (IF msg = Head(queue[m]) THEN 1 ELSE 0)
  BY <1>1, TailPlaces
<1>4. Cardinality(HandPlaces(worker', msg)) =
        Cardinality(HandPlaces(worker, msg)) + (IF msg = Head(queue[m]) THEN 1 ELSE 0)
  <2>1. /\ worker \in Hands /\ worker[m][w] \notin Msg
        /\ worker' \in Hands /\ worker'[m][w] = e
        /\ OnlyHand(worker, worker', m, w)
    BY <1>1, <1>2 DEF Queues, Hands, OnlyQueue, OnlyHand
  <2>2. Cardinality(HandPlaces(worker', msg)) =
          Cardinality(HandPlaces(worker, msg)) + (IF msg = worker'[m][w] THEN 1 ELSE 0)
    BY <2>1, GrabPlaces
  <2> QED BY <1>2, <2>1, <2>2
<1>5. Cardinality(QueuePlaces(queue, msg)) \in Nat /\ Cardinality(HandPlaces(worker, msg)) \in Nat
  BY PlacesFinite
<1> QED BY <1>3, <1>4, <1>5, CopiesAfter DEF Copies

LEMMA CopiesTakeCancelled ==
  ASSUME TypeInv, NEW m \in Members, NEW w \in Workers, WorkerTakeCancelled(m, w), NEW msg \in Msg
  PROVE  /\ Head(queue[m]) \in Msg
         /\ Copies(msg)' = Copies(msg) - (IF msg = Head(queue[m]) THEN 1 ELSE 0)
<1>1. /\ queue \in Queues /\ queue[m] # << >> /\ Len(queue[m]) <= QueueCap
      /\ queue' = [queue EXCEPT ![m] = Tail(@)] /\ worker' = worker
  BY DEF WorkerTakeCancelled, TypeInv, TypeOK, Queues, Hands
<1>2. Cardinality(QueuePlaces(queue', msg)) =
        Cardinality(QueuePlaces(queue, msg)) - (IF msg = Head(queue[m]) THEN 1 ELSE 0)
  BY <1>1, TailPlaces
<1>3. Cardinality(QueuePlaces(queue, msg)) \in Nat /\ Cardinality(HandPlaces(worker, msg)) \in Nat
  BY PlacesFinite
<1> QED BY <1>1, <1>2, <1>3, CopiesAfter DEF Copies, Queues

LEMMA CopiesRelease ==
  ASSUME TypeInv, NEW m \in Members, NEW w \in Workers, NEW msg \in Msg,
         WorkerStore(m, w) \/ WorkerStoreFails(m, w)
  PROVE  Copies(msg)' = Copies(msg) - (IF msg = worker[m][w] THEN 1 ELSE 0)
<1>1. /\ worker \in Hands
      /\ queue' = queue /\ worker' = [worker EXCEPT ![m][w] = Idle]
  BY DEF WorkerStore, WorkerStoreFails, TypeInv, TypeOK, Queues, Hands
<1>2. Cardinality(HandPlaces(worker', msg)) =
        Cardinality(HandPlaces(worker, msg)) - (IF msg = worker[m][w] THEN 1 ELSE 0)
  BY <1>1, ReleasePlaces
<1>3. Cardinality(QueuePlaces(queue, msg)) \in Nat /\ Cardinality(HandPlaces(worker, msg)) \in Nat
  BY PlacesFinite
<1> QED BY <1>1, <1>2, <1>3, CopiesAfter DEF Copies

LEMMA CopiesReturn ==
  ASSUME TypeInv, NEW m \in Members, NEW w \in Workers, NEW msg \in Msg, WorkerReturn(m, w)
  PROVE  Copies(msg)' = Copies(msg)
<1>1. /\ worker \in Hands /\ worker[m][w] \notin Msg
      /\ queue' = queue /\ worker' = [worker EXCEPT ![m][w] = Stopped]
  BY WorkerAssumption DEF WorkerReturn, TypeInv, TypeOK, Queues, Hands
<1>2. Cardinality(HandPlaces(worker', msg)) = Cardinality(HandPlaces(worker, msg)) + 0
  <2>1. /\ worker \in Hands /\ worker[m][w] \notin Msg
        /\ worker' \in Hands /\ msg # worker'[m][w]
        /\ OnlyHand(worker, worker', m, w)
    BY <1>1, WorkerAssumption DEF Hands, OnlyHand
  <2>2. Cardinality(HandPlaces(worker', msg)) =
          Cardinality(HandPlaces(worker, msg)) + (IF msg = worker'[m][w] THEN 1 ELSE 0)
    BY <2>1, GrabPlaces
  <2> QED BY <2>1, <2>2
<1>3. Cardinality(HandPlaces(worker, msg)) \in Nat
  BY PlacesFinite
<1> QED BY <1>1, <1>2, <1>3, CopiesAfter DEF Copies

LEMMA CopiesVanish ==
  ASSUME TypeInv, NEW m \in Members, NEW msg \in Msg, Vanish(m)
  PROVE  /\ Copies(msg)' <= Copies(msg)
         /\ Copies(msg)' < Copies(msg) <=> msg \in Holds(m)
<1>1. /\ queue \in Queues /\ \A n \in Members : Len(queue[n]) <= QueueCap
      /\ worker \in Hands
      /\ queue' = [queue EXCEPT ![m] = << >>] /\ worker' = [worker EXCEPT ![m] = AllIdle]
  BY DEF Vanish, TypeInv, TypeOK, Queues, Hands
<1>2. /\ Cardinality(QueuePlaces(queue', msg)) <= Cardinality(QueuePlaces(queue, msg))
      /\ Cardinality(QueuePlaces(queue', msg)) < Cardinality(QueuePlaces(queue, msg))
           <=> msg \in Queued(m)
  BY <1>1, EmptyPlaces DEF Queued
<1>3. /\ Cardinality(HandPlaces(worker', msg)) <= Cardinality(HandPlaces(worker, msg))
      /\ Cardinality(HandPlaces(worker', msg)) < Cardinality(HandPlaces(worker, msg))
           <=> msg \in InHand(m)
  <2>1. msg \in InHand(m) <=> msg \in { worker[m][w] : w \in Workers }
    BY WorkerAssumption DEF InHand
  <2> QED BY <1>1, <2>1, DropPlaces
<1>4. /\ Cardinality(QueuePlaces(queue, msg)) \in Nat /\ Cardinality(HandPlaces(worker, msg)) \in Nat
      /\ Cardinality(QueuePlaces(queue', msg)) \in Nat /\ Cardinality(HandPlaces(worker', msg)) \in Nat
  BY PlacesFinite
<1> QED BY <1>2, <1>3, <1>4, CopiesAfter DEF Copies, Holds

LEMMA CopiesSame ==
  ASSUME UNCHANGED << queue, worker >>, NEW msg
  PROVE  Copies(msg)' = Copies(msg)
  BY DEF Copies, QueuePlaces, HandPlaces

\* A message that is in flight has a copy, and conversely.
LEMMA CopiesInFlight ==
  ASSUME TypeInv, NEW msg \in Msg
  PROVE  Copies(msg) > 0 <=> InFlight(msg)
<1>1. /\ IsFiniteSet(QueuePlaces(queue, msg)) /\ IsFiniteSet(HandPlaces(worker, msg))
      /\ Cardinality(QueuePlaces(queue, msg)) \in Nat /\ Cardinality(HandPlaces(worker, msg)) \in Nat
  BY PlacesFinite
<1>2. Copies(msg) > 0 <=> QueuePlaces(queue, msg) # {} \/ HandPlaces(worker, msg) # {}
  BY <1>1, FS_EmptySet DEF Copies
<1>3. ASSUME NEW m \in Members, msg \in Queued(m) PROVE QueuePlaces(queue, msg) # {}
  <2>1. PICK i \in 1 .. Len(queue[m]) : queue[m][i] = msg
    BY <1>3 DEF Queued
  <2>2. i \in 1 .. QueueCap /\ i <= Len(queue[m])
    BY CapAssumption DEF TypeInv, TypeOK, Queues, Hands
  <2>3. << m, i >> \in QueuePlaces(queue, msg)
    BY <2>1, <2>2 DEF QueuePlaces
  <2> QED BY <2>3
<1>4. ASSUME QueuePlaces(queue, msg) # {} PROVE \E m \in Members : msg \in Queued(m)
  <2>1. PICK m \in Members, i \in 1 .. QueueCap : i <= Len(queue[m]) /\ queue[m][i] = msg
    BY <1>4 DEF QueuePlaces
  <2>2. i \in 1 .. Len(queue[m])
    BY <2>1, CapAssumption DEF TypeInv, TypeOK, Queues, Hands
  <2> QED BY <2>1, <2>2 DEF Queued
<1>5. ASSUME NEW m \in Members, msg \in InHand(m) PROVE HandPlaces(worker, msg) # {}
  <2>1. PICK w \in Workers : worker[m][w] = msg
    BY <1>5 DEF InHand
  <2>2. << m, w >> \in HandPlaces(worker, msg)
    BY <2>1 DEF HandPlaces
  <2> QED BY <2>2
<1>6. ASSUME HandPlaces(worker, msg) # {} PROVE \E m \in Members : msg \in InHand(m)
  <2>1. PICK m \in Members, w \in Workers : worker[m][w] = msg
    BY <1>6 DEF HandPlaces
  <2> QED BY <2>1, WorkerAssumption DEF InHand
<1> QED BY <1>2, <1>3, <1>4, <1>5, <1>6 DEF InFlight, Holds

-----------------------------------------------------------------------------
(***************************************************************************)
(* TakesBounded is inductive.                                              *)
(***************************************************************************)

\* An owner that has not come to a message yet is the only one that will: no
\* commit is past the message, and nobody else marks it.
LEMMA OwnerUnsettled ==
  ASSUME TypeInv, SessionInv, NEW m \in Owners, NEW msg \in Msg, Before(m, msg)
  PROVE  ~Settled(msg)
<1> DEFINE p == msg[1]
           o == msg[2]
<1>1. p \in Partitions /\ o \in Nat /\ m \in Members
  BY BoundsAssumption DEF Msg, Owners
<1>2. /\ pos[m][p] \in Nat /\ committed[p] \in Int
      /\ \A n \in Members : marked[n][p] \in Int
  BY <1>1, BoundsAssumption DEF TypeInv, TypeOK, Offset, NoOffset
<1>3. claim[m][p] # "none" /\ pos[m][p] <= o /\ ~(claim[m][p] = "mark" /\ o = pos[m][p])
  BY DEF Before
<1> HIDE DEF p, o
<1>4. ~(o < committed[p])
  <2>1. committed[p] <= pos[m][p]
    BY <1>1, <1>3 DEF SessionInv, OwnersAhead
  <2> QED BY <1>1, <1>2, <1>3, <2>1
<1>5. ASSUME NEW n \in Owners, MarkedBy(n, msg) PROVE FALSE
  <2>1. o < marked[n][p] \/ (claim[n][p] = "mark" /\ o = pos[n][p])
    BY <1>5 DEF MarkedBy, p, o
  <2>2. n \in Members
    BY DEF Owners
  <2>3. CASE o < marked[n][p]
    <3>1. marked[n][p] # NoOffset
      BY <1>1, <1>2, <2>2, <2>3 DEF NoOffset
    <3>2. claim[n][p] # "none" /\ marked[n][p] <= pos[n][p]
      BY <1>1, <2>2, <3>1 DEF SessionInv, MarksBehindClaim
    <3>3. n = m
      BY <1>1, <1>3, <3>2 DEF SessionInv, OneOwner
    <3> QED BY <1>1, <1>2, <1>3, <2>2, <2>3, <3>2, <3>3
  <2>4. CASE claim[n][p] = "mark" /\ o = pos[n][p]
    <3>1. n = m
      BY <1>1, <1>3, <2>4 DEF SessionInv, OneOwner
    <3> QED BY <1>3, <2>4, <3>1
  <2> QED BY <2>1, <2>3, <2>4
<1> QED BY <1>4, <1>5 DEF Settled, p, o

LEMMA StragglersFinite ==
  ASSUME NEW msg
  PROVE  /\ IsFiniteSet(Stragglers(msg)) /\ Cardinality(Stragglers(msg)) \in Nat
         /\ IsFiniteSet(Stragglers(msg)') /\ Cardinality(Stragglers(msg)') \in Nat
<1>1. Stragglers(msg) \in SUBSET Members /\ Stragglers(msg)' \in SUBSET Members
  BY DEF Stragglers
<1> QED BY <1>1, FiniteAssumption, FS_Subset, FS_CardinalityType

\* No step but the sending of the message itself adds to its rows and copies.
LEMMA TotalSteps ==
  ASSUME TypeInv, [Next]_vars, NEW msg \in Msg
  PROVE  /\ Total(msg) \in Nat /\ Total(msg)' \in Nat
         /\ \/ Total(msg)' <= Total(msg)
            \/ \E m \in Members, p \in Partitions :
                 /\ ClaimSend(m, p) /\ msg = << p, pos[m][p] >>
                 /\ Total(msg)' = Total(msg) + 1
<1>1. /\ rows[msg] \in Nat /\ rows'[msg] \in Nat
      /\ Copies(msg) \in Nat /\ Copies(msg)' \in Nat
  BY CopiesNat, TypeInvNext DEF TypeInv, TypeOK
<1>2. CASE UNCHANGED << queue, worker, rows >>
  BY <1>1, <1>2, CopiesSame DEF Total
<1>3. ASSUME NEW m \in Members, NEW p \in Partitions, ClaimSend(m, p)
      PROVE  \/ Total(msg)' <= Total(msg)
             \/ msg = << p, pos[m][p] >> /\ Total(msg)' = Total(msg) + 1
  <2>1. rows'[msg] = rows[msg]
    BY <1>3 DEF ClaimSend, store
  <2> QED BY <1>1, <1>3, <2>1, CopiesSend DEF Total
<1>4. ASSUME NEW m \in Members, NEW w \in Workers, WorkerTake(m, w) \/ WorkerReturn(m, w)
      PROVE  Total(msg)' <= Total(msg)
  <2>1. rows'[msg] = rows[msg]
    BY <1>4 DEF WorkerTake, WorkerReturn, store
  <2>2. Copies(msg)' = Copies(msg)
    BY <1>4, CopiesTake, CopiesReturn
  <2> QED BY <1>1, <2>1, <2>2 DEF Total
<1>5. ASSUME NEW m \in Members, NEW w \in Workers, WorkerTakeCancelled(m, w)
      PROVE  Total(msg)' <= Total(msg)
  <2>1. rows'[msg] = rows[msg]
    BY <1>5 DEF WorkerTakeCancelled
  <2> QED BY <1>1, <1>5, <2>1, CopiesTakeCancelled DEF Total
<1>6. ASSUME NEW m \in Members, NEW w \in Workers, WorkerStore(m, w)
      PROVE  Total(msg)' <= Total(msg)
  <2>1. rows'[msg] = rows[msg] + (IF msg = worker[m][w] THEN 1 ELSE 0)
    BY <1>1, <1>6 DEF WorkerStore, TypeInv, TypeOK
  <2>2. Copies(msg)' = Copies(msg) - (IF msg = worker[m][w] THEN 1 ELSE 0)
    BY <1>6, CopiesRelease
  <2> QED BY <1>1, <2>1, <2>2 DEF Total
<1>7. ASSUME NEW m \in Members, NEW w \in Workers, WorkerStoreFails(m, w)
      PROVE  Total(msg)' <= Total(msg)
  <2>1. rows'[msg] = rows[msg]
    BY <1>7 DEF WorkerStoreFails
  <2> QED BY <1>1, <1>7, <2>1, CopiesRelease DEF Total
<1>8. ASSUME NEW m \in Members, Vanish(m), UNCHANGED rows
      PROVE  Total(msg)' <= Total(msg)
  BY <1>1, <1>8, CopiesVanish DEF Total
<1>9. Total(msg) \in Nat /\ Total(msg)' \in Nat
  BY <1>1 DEF Total
<1> QED BY <1>2, <1>3, <1>4, <1>5, <1>6, <1>7, <1>8, <1>9, QuietSteps

\* An owner's session ends before it has committed its marks, or Kafka will
\* not take them any more.
AbortedBy(m) ==
  /\ m \in Owners /\ aborts' = aborts + 1 /\ committed' = committed
  /\ \/ LeaveSession(m)
     \/ evicted' = [evicted EXCEPT ![m] = TRUE] /\ UNCHANGED << claim, pos, marked, loop >>

\* The step leaves a member as far from the message, or closer to it.
NoFurther(n, msg) ==
  /\ evicted'[n] => evicted[n]
  /\ evicted'[n] /\ Before(n, msg)' => Before(n, msg)

\* The step does not make a settled message unsettled.
KeepsSettled(n, msg) ==
  n \in Owners /\ MarkedBy(n, msg) =>
    \/ (n \in Owners)' /\ MarkedBy(n, msg)'
    \/ msg[2] < committed'[msg[1]]

\* Apart from aborts no step opens a member's way to a message again.
LEMMA SessionSteps ==
  ASSUME TypeInv, SessionInv, [Next]_vars, NEW msg \in Msg
  PROVE  \/ \E m \in Owners : AbortedBy(m)
         \/ aborts' = aborts /\ \A n \in Members : NoFurther(n, msg) /\ KeepsSettled(n, msg)
<1> DEFINE Goal ==
      \/ \E m \in Owners : AbortedBy(m)
      \/ aborts' = aborts /\ \A n \in Members : NoFurther(n, msg) /\ KeepsSettled(n, msg)
<1> SUFFICES Goal
  OBVIOUS
<1>a. msg[1] \in Partitions /\ msg[2] \in Nat
  BY BoundsAssumption DEF Msg
<1>b. \A n \in Members, p \in Partitions :
        /\ claim[n] \in [Partitions -> ClaimPc] /\ pos[n][p] \in Nat /\ marked[n][p] \in Int
  BY BoundsAssumption DEF TypeInv, TypeOK, Offset, NoOffset
<1>1. CASE /\ UNCHANGED << claim, pos, marked, evicted, aborts >>
           /\ \A n \in Members : loop[n] = "session" => loop'[n] = "session"
  BY <1>1 DEF NoFurther, KeepsSettled, Before, MarkedBy, Owners
<1>2. ASSUME FormGroup PROVE Goal
  <2>1. \A n \in Members \ Joining :
          /\ claim'[n] = claim[n] /\ pos'[n] = pos[n] /\ marked'[n] = marked[n]
          /\ evicted'[n] = evicted[n]
    BY <1>2 DEF FormGroup, TypeInv, TypeOK
  <2>2. \A n \in Joining : ~evicted'[n]
    BY <1>2 DEF FormGroup, Joining, SessionInv, OutsideSession
  <2>3. aborts' = aborts /\ Owners = {}
    BY <1>2 DEF FormGroup
  <2> QED BY <2>1, <2>2, <2>3 DEF NoFurther, KeepsSettled, Before
<1>3. ASSUME NEW m \in Members, LeaveSession(m)
      PROVE  \A n \in Members :
               /\ NoFurther(n, msg)
               /\ n # m \/ m \notin Owners => KeepsSettled(n, msg)
  BY <1>3 DEF LeaveSession, NoFurther, KeepsSettled, Before, MarkedBy, Owners, TypeInv, TypeOK
<1>4. ASSUME NEW m \in Members, Evict(m) PROVE Goal
  BY <1>4 DEF Evict, AbortedBy, kafka, process
<1>5. ASSUME NEW m \in Members, ConsumeReturnsUncommitted(m) PROVE Goal
  BY <1>5 DEF ConsumeReturnsUncommitted, AbortedBy, kafka
<1>6. ASSUME NEW m \in Members, ConsumeReturns(m) PROVE Goal
  <2>1. LeaveSession(m) /\ aborts' = aborts
    BY <1>6 DEF ConsumeReturns, history
  <2>2. ASSUME m \in Owners, MarkedBy(m, msg) PROVE msg[2] < committed'[msg[1]]
    <3>1. claim[m][msg[1]] # "mark"
      BY <1>6, <1>a DEF ConsumeReturns, SessionOver
    <3>2. msg[2] < marked[m][msg[1]]
      BY <2>2, <3>1 DEF MarkedBy
    <3>3. committed'[msg[1]] = marked[m][msg[1]]
      BY <1>6, <1>a, <1>b, <2>2, <3>2 DEF ConsumeReturns, CommitMarks, NoOffset
    <3> QED BY <3>2, <3>3
  <2>3. \A n \in Members : NoFurther(n, msg) /\ KeepsSettled(n, msg)
    BY <1>3, <2>1, <2>2 DEF KeepsSettled
  <2> QED BY <2>1, <2>3
<1>7. ASSUME NEW m \in Members, StartConsumeReturn(m) PROVE Goal
  <2>1. LeaveSession(m) /\ aborts' = aborts /\ m \notin Owners
    BY <1>7 DEF StartConsumeReturn, Vanish, history, Owners
  <2> QED BY <1>3, <2>1
<1>8. ASSUME NEW m \in Members, Crash(m) PROVE Goal
  <2>1. LeaveSession(m) /\ committed' = committed
    BY <1>8 DEF Crash, Vanish, kafka
  <2>2. CASE m \in Owners
    BY <1>8, <2>1, <2>2 DEF Crash, AbortedBy
  <2>3. CASE m \notin Owners
    BY <1>3, <1>8, <2>1, <2>3 DEF Crash
  <2> QED BY <2>2, <2>3
<1>9. ASSUME NEW m \in Members, NEW p \in Partitions, ClaimReceive(m, p) \/ ClaimReturn(m, p) PROVE Goal
  <2>1. UNCHANGED << pos, marked, evicted, loop, aborts >> /\ claim[m][p] = "recv"
    BY <1>9 DEF ClaimReceive, ClaimReturn, process, history
  <2>2. \A n \in Members, q \in Partitions : n # m \/ q # p => claim'[n][q] = claim[n][q]
    BY <1>9 DEF ClaimReceive, ClaimReturn, TypeInv, TypeOK
  <2> QED BY <1>a, <2>1, <2>2 DEF NoFurther, KeepsSettled, Before, MarkedBy, Owners
<1>10. ASSUME NEW m \in Members, NEW p \in Partitions, ClaimSend(m, p) PROVE Goal
  <2>1. UNCHANGED << pos, marked, evicted, loop, aborts >> /\ claim[m][p] = "send"
    BY <1>10 DEF ClaimSend, process, history
  <2>2. \A n \in Members, q \in Partitions : n # m \/ q # p => claim'[n][q] = claim[n][q]
    BY <1>10 DEF ClaimSend, TypeInv, TypeOK
  <2> QED BY <1>a, <2>1, <2>2 DEF NoFurther, KeepsSettled, Before, MarkedBy, Owners
<1>11. ASSUME NEW m \in Members, NEW p \in Partitions, ClaimMark(m, p) PROVE Goal
  <2>1. UNCHANGED << evicted, loop, aborts >> /\ claim[m][p] = "mark"
    BY <1>11 DEF ClaimMark, process, history
  <2>2. \A n \in Members, q \in Partitions :
          n # m \/ q # p => /\ claim'[n][q] = claim[n][q] /\ pos'[n][q] = pos[n][q]
                            /\ marked'[n][q] = marked[n][q]
    BY <1>11 DEF ClaimMark, TypeInv, TypeOK
  <2>3. marked'[m][p] = pos[m][p] + 1 /\ pos'[m][p] = pos[m][p] + 1 /\ claim'[m][p] = "recv"
    BY <1>11 DEF ClaimMark, TypeInv, TypeOK
  <2>4. ASSUME NEW n \in Members, n # m \/ msg[1] # p
        PROVE  NoFurther(n, msg) /\ KeepsSettled(n, msg)
    BY <1>a, <2>1, <2>2, <2>4 DEF NoFurther, KeepsSettled, Before, MarkedBy, Owners
  <2>5. ASSUME msg[1] = p
        PROVE  NoFurther(m, msg) /\ KeepsSettled(m, msg)
    <3>1. Before(m, msg)' => Before(m, msg)
      BY <1>a, <1>b, <2>1, <2>3, <2>5 DEF Before
    <3>2. marked[m][p] <= pos[m][p]
      BY <1>b, <2>1 DEF SessionInv, MarksBehindClaim, NoOffset, TypeInv, TypeOK, Offset
    <3>3. MarkedBy(m, msg) => MarkedBy(m, msg)'
      BY <1>a, <1>b, <2>1, <2>3, <2>5, <3>2 DEF MarkedBy
    <3> QED BY <2>1, <3>1, <3>3 DEF NoFurther, KeepsSettled, Owners
  <2> QED BY <2>1, <2>4, <2>5
<1> HIDE DEF Goal
<1> QED
  BY <1>1, <1>2, <1>4, <1>5, <1>6, <1>7, <1>8, <1>9, <1>10, <1>11
  DEF Goal, Next, vars, LoopStep, LoopFault, ClaimStep, WorkerStep, ProcessStep, Produce,
      HeartbeatEndsSession, SpuriousRebalance, AutoCommit, LoopCheck, ConsumeCancelled,
      ConsumeFails, CloseQueue, WorkerTake, WorkerTakeCancelled, WorkerStore, WorkerStoreFails,
      WorkerReturn, ErrorHandlerReturn, Interrupt, Restart, session, process, history, kafka,
      TypeInv, TypeOK

LEMMA SettledStays ==
  ASSUME TypeInv, SessionInv, [Next]_vars, NEW msg \in Msg
  PROVE  \/ \E m \in Owners : AbortedBy(m)
         \/ /\ aborts' = aborts
            /\ Stragglers(msg)' \subseteq Stragglers(msg)
            /\ Settled(msg) => Settled(msg)'
<1> SUFFICES ASSUME aborts' = aborts, \A n \in Members : NoFurther(n, msg) /\ KeepsSettled(n, msg)
             PROVE  /\ Stragglers(msg)' \subseteq Stragglers(msg)
                    /\ Settled(msg) => Settled(msg)'
  BY SessionSteps
<1>1. Stragglers(msg)' \subseteq Stragglers(msg)
  BY DEF Stragglers, NoFurther
<1>2. msg[2] < committed[msg[1]] => msg[2] < committed'[msg[1]]
  <2>1. msg[1] \in Partitions /\ msg[2] \in Int
    BY BoundsAssumption DEF Msg
  <2>2. committed[msg[1]] \in Int /\ committed'[msg[1]] \in Int
    BY <2>1, TypeInvNext, BoundsAssumption DEF TypeInv, TypeOK, Offset, NoOffset
  <2>3. committed'[msg[1]] >= committed[msg[1]]
    BY <2>1, CommitNeverBack
  <2> QED BY <2>1, <2>2, <2>3
<1>3. ASSUME NEW n \in Owners, MarkedBy(n, msg) PROVE Settled(msg)'
  BY <1>3 DEF KeepsSettled, Settled, Owners
<1> QED BY <1>1, <1>2, <1>3 DEF Settled

\* The member that sends a message was going to: it is the owner, which settles
\* the message with that, or one of the stragglers.
LEMMA SenderCounted ==
  ASSUME TypeInv, SessionInv, NEW m \in Members, NEW p \in Partitions, ClaimSend(m, p),
         NEW msg \in Msg, msg = << p, pos[m][p] >>
  PROVE  \/ ~Settled(msg) /\ Settled(msg)'
         \/ m \in Stragglers(msg) /\ m \notin Stragglers(msg)'
<1>1. /\ claim[m][p] = "send" /\ claim'[m][p] = "mark" /\ loop[m] = "session" /\ pos[m][p] \in Nat
      /\ UNCHANGED << pos, loop, evicted >>
  BY BoundsAssumption DEF ClaimSend, process, SessionInv, OutsideSession, NoClaims, TypeInv, TypeOK, Offset
<1>2. Before(m, msg) /\ ~Before(m, msg)' /\ MarkedBy(m, msg)'
  BY <1>1 DEF Before, MarkedBy
<1>3. CASE evicted[m]
  BY <1>2, <1>3 DEF Stragglers
<1>4. CASE ~evicted[m]
  <2>1. m \in Owners /\ (m \in Owners)'
    BY <1>1, <1>4 DEF Owners
  <2>2. ~Settled(msg)
    BY <1>2, <2>1, OwnerUnsettled
  <2>3. Settled(msg)'
    BY <1>2, <2>1 DEF Settled
  <2> QED BY <2>2, <2>3
<1> QED BY <1>3, <1>4

LEMMA TakesBoundedNext ==
  ASSUME TypeInv, SessionInv, TakesBounded, [Next]_vars
  PROVE  TakesBounded'
<1> SUFFICES ASSUME NEW msg \in Msg PROVE Takes(msg)' <= 1 + aborts'
  BY DEF TakesBounded
<1>1. /\ Takes(msg) <= 1 + aborts /\ aborts \in Nat
      /\ Total(msg) \in Nat /\ Total(msg)' \in Nat
      /\ IsFiniteSet(Stragglers(msg)) /\ Cardinality(Stragglers(msg)) \in Nat
      /\ IsFiniteSet(Stragglers(msg)') /\ Cardinality(Stragglers(msg)') \in Nat
  BY TotalSteps, StragglersFinite DEF TakesBounded, TypeInv, TypeOK
<1>2. ASSUME NEW m \in Owners, AbortedBy(m)
      PROVE  Takes(msg)' <= 1 + aborts'
  <2>1. m \in Members /\ ~evicted[m] /\ aborts' = aborts + 1
    BY <1>2 DEF Owners, AbortedBy
  <2>2. Total(msg)' <= Total(msg)
    <3>1. \A n \in Members, p \in Partitions : ~ClaimSend(n, p)
      BY <2>1, <1>1 DEF ClaimSend, history
    <3> QED BY <3>1, TotalSteps
  <2>3. CASE Before(m, msg) /\ evicted' = [evicted EXCEPT ![m] = TRUE] /\ UNCHANGED << claim, pos, marked, loop >>
    <3>1. Stragglers(msg)' \subseteq Stragglers(msg) \cup {m}
      BY <2>1, <2>3 DEF Stragglers, Before, TypeInv, TypeOK
    <3>2. Cardinality(Stragglers(msg)') <= Cardinality(Stragglers(msg)) + 1
      <4>1. /\ IsFiniteSet(Stragglers(msg) \cup {m})
            /\ Cardinality(Stragglers(msg) \cup {m}) <= Cardinality(Stragglers(msg)) + 1
            /\ Cardinality(Stragglers(msg) \cup {m}) \in Nat
        <5>1. CASE m \in Stragglers(msg)
          <6>1. Stragglers(msg) \cup {m} = Stragglers(msg)
            BY <5>1
          <6> QED BY <1>1, <6>1
        <5>2. CASE m \notin Stragglers(msg)
          BY <1>1, <5>2, FS_AddElement
        <5> QED BY <5>1, <5>2
      <4>2. Cardinality(Stragglers(msg)') <= Cardinality(Stragglers(msg) \cup {m})
        BY <3>1, <4>1, FS_Subset
      <4> QED BY <1>1, <4>1, <4>2
    <3>3. ~Settled(msg)
      BY <2>3, OwnerUnsettled
    <3> QED BY <1>1, <2>1, <2>2, <3>2, <3>3 DEF Takes
  <2>4. CASE \/ LeaveSession(m)
             \/ /\ ~Before(m, msg) /\ evicted' = [evicted EXCEPT ![m] = TRUE]
                /\ UNCHANGED << claim, pos, marked, loop >>
    <3>1. Stragglers(msg)' \subseteq Stragglers(msg)
      BY <2>1, <2>4 DEF LeaveSession, Stragglers, Before, TypeInv, TypeOK
    <3>2. Cardinality(Stragglers(msg)') <= Cardinality(Stragglers(msg))
      BY <1>1, <3>1, FS_Subset
    <3> QED BY <1>1, <2>1, <2>2, <3>2 DEF Takes
  <2> QED BY <1>2, <2>3, <2>4 DEF AbortedBy
<1>3. ASSUME aborts' = aborts, Stragglers(msg)' \subseteq Stragglers(msg),
             Settled(msg) => Settled(msg)'
      PROVE  Takes(msg)' <= 1 + aborts'
  <2>1. Cardinality(Stragglers(msg)') <= Cardinality(Stragglers(msg))
    BY <1>1, <1>3, FS_Subset
  <2>2. CASE Total(msg)' <= Total(msg)
    BY <1>1, <1>3, <2>1, <2>2 DEF Takes
  <2>3. ASSUME NEW m \in Members, NEW p \in Partitions, ClaimSend(m, p),
               msg = << p, pos[m][p] >>, Total(msg)' = Total(msg) + 1
        PROVE  Takes(msg)' <= 1 + aborts'
    <3>1. \/ ~Settled(msg) /\ Settled(msg)'
          \/ m \in Stragglers(msg) /\ m \notin Stragglers(msg)'
      BY <2>3, SenderCounted
    <3>2. CASE ~Settled(msg) /\ Settled(msg)'
      BY <1>1, <1>3, <2>1, <2>3, <3>2 DEF Takes
    <3>3. CASE m \in Stragglers(msg) /\ m \notin Stragglers(msg)'
      <4>1. Cardinality(Stragglers(msg)') < Cardinality(Stragglers(msg))
        BY <1>1, <1>3, <3>3, FS_Subset
      <4> QED BY <1>1, <1>3, <2>3, <4>1 DEF Takes
    <3> QED BY <3>1, <3>2, <3>3
  <2> QED BY <2>2, <2>3, TotalSteps
<1> QED BY <1>2, <1>3, SettledStays

LEMMA TakesBoundedInit == Init => TakesBounded
<1> SUFFICES ASSUME Init, NEW msg \in Msg PROVE Takes(msg) <= 1 + aborts
  BY DEF TakesBounded
<1>1. QueuePlaces(queue, msg) = {} /\ HandPlaces(worker, msg) = {}
  BY WorkerAssumption, CapAssumption DEF Init, QueuePlaces, HandPlaces, AllIdle
<1>2. Stragglers(msg) = {}
  BY DEF Init, Stragglers
<1>3. Cardinality({}) = 0
  BY FS_EmptySet
<1>4. Cardinality(QueuePlaces(queue, msg)) = 0 /\ Cardinality(HandPlaces(worker, msg)) = 0
  BY <1>1, <1>3
<1>5. rows[msg] = 0 /\ aborts = 0 /\ Copies(msg) = 0 /\ Cardinality(Stragglers(msg)) = 0
  BY <1>2, <1>3, <1>4 DEF Copies, Init
<1> QED BY <1>5 DEF Takes, Total

GroupInv == TypeInv /\ SessionInv /\ AccountInv /\ TakesBounded

LEMMA GroupInvariant == Spec => []GroupInv
<1>1. Init => GroupInv
  BY TypeInvInit, SessionInvInit, AccountInvInit, TakesBoundedInit DEF GroupInv
<1>2. GroupInv /\ [Next]_vars => GroupInv'
  BY TypeInvNext, SessionInvNext, AccountInvNext, TakesBoundedNext DEF GroupInv
<1> QED BY <1>1, <1>2, PTL DEF Spec

\* A message has at most one row more than sessions were aborted, however many
\* members take it over from each other.
THEOREM RowsBounded == Spec => []RowsBoundedByAborts
<1>1. GroupInv => RowsBoundedByAborts
  <2> SUFFICES ASSUME GroupInv, NEW msg \in Msg PROVE rows[msg] <= 1 + aborts
    BY DEF RowsBoundedByAborts
  <2>1. /\ rows[msg] \in Nat /\ aborts \in Nat /\ Copies(msg) \in Nat
        /\ Cardinality(Stragglers(msg)) \in Nat
    BY CopiesNat, StragglersFinite DEF GroupInv, TypeInv, TypeOK
  <2>2. Takes(msg) <= 1 + aborts
    BY DEF GroupInv, TakesBounded
  <2> QED BY <2>1, <2>2 DEF Takes, Total
<1> QED BY <1>1, GroupInvariant, PTL

-----------------------------------------------------------------------------
(***************************************************************************)
(* The refinement. First, what a step has to do to GroupFate's variables,  *)
(* by the names they have here, to be one of GroupFate's actions.          *)
(***************************************************************************)

Logged == { msg \in Msg : msg[2] < produced[msg[1]] }
Held   == [ msg \in Msg |-> Copies(msg) ]
Done   == { msg \in Msg : msg[2] < committed[msg[1]] }

FateStep == [Fate!Next]_(Fate!fate)

LEMMA GoesNowhere ==
  ASSUME UNCHANGED << Logged, Held, Done, rows, lost, skipped, aborts >>
  PROVE  FateStep
BY DEF FateStep, Fate!fate, Logged, Held, Done

LEMMA GoesAppend ==
  ASSUME NEW msg \in Msg, msg \notin Logged, Logged' = Logged \cup {msg},
         UNCHANGED << Held, Done, rows, lost, skipped, aborts >>
  PROVE  FateStep
<1>1. Fate!Append(msg)
  BY DEF Fate!Append, Logged, Held, Done
<1> QED BY <1>1 DEF FateStep, Fate!Next

LEMMA GoesTake ==
  ASSUME NEW msg \in Msg, msg \in Logged, Held[msg] + rows[msg] <= aborts,
         \A other \in Msg : other[1] = msg[1] /\ other[2] < msg[2] =>
           Held[other] > 0 \/ rows[other] > 0 \/ other \in lost \/ other \in skipped,
         Held' = [Held EXCEPT ![msg] = @ + 1],
         UNCHANGED << Logged, Done, rows, lost, skipped, aborts >>
  PROVE  FateStep
<1>1. Fate!Take(msg)
  BY DEF Fate!Take, Fate!TakenOrSkipped, Fate!Taken, Logged, Held, Done
<1> QED BY <1>1 DEF FateStep, Fate!Next

LEMMA GoesStore ==
  ASSUME NEW msg \in Msg, Held[msg] > 0,
         Held' = [Held EXCEPT ![msg] = @ - 1], rows' = [rows EXCEPT ![msg] = @ + 1],
         UNCHANGED << Logged, Done, lost, skipped, aborts >>
  PROVE  FateStep
<1>1. Fate!Store(msg)
  BY DEF Fate!Store, Logged, Held, Done
<1> QED BY <1>1 DEF FateStep, Fate!Next

LEMMA GoesLetGo ==
  ASSUME \A msg \in Msg : Held'[msg] \in 0 .. aborts + 1 /\ Held'[msg] <= Held[msg],
         lost' = lost \cup { msg \in Msg : Held'[msg] < Held[msg] },
         aborts' \in {aborts, aborts + 1},
         UNCHANGED << Logged, Done, rows, skipped >>
  PROVE  FateStep
<1>1. Fate!LetGo
  BY DEF Fate!LetGo, Logged, Held, Done
<1> QED BY <1>1 DEF FateStep, Fate!Next

LEMMA GoesSkip ==
  ASSUME NEW S \in SUBSET Msg, S \subseteq Logged \ Done, skipped' = skipped \cup S,
         UNCHANGED << Logged, Held, Done, rows, lost, aborts >>
  PROVE  FateStep
<1>1. Fate!Skip(S)
  BY DEF Fate!Skip, Logged, Held, Done
<1> QED BY <1>1 DEF FateStep, Fate!Next

LEMMA GoesCommit ==
  ASSUME \A msg \in Done' : Held[msg] > 0 \/ rows[msg] > 0 \/ msg \in lost \/ msg \in skipped,
         \A msg \in Done', other \in Msg : other[1] = msg[1] /\ other[2] < msg[2] => other \in Done',
         Done \subseteq Done',
         UNCHANGED << Logged, Held, rows, lost, skipped, aborts >>
  PROVE  FateStep
<1>1. PICK S \in SUBSET Msg : S = Done'
  BY DEF Done
<1>2. Fate!Commit(S)
  BY <1>1 DEF Fate!Commit, Fate!TakenOrSkipped, Fate!Taken, Logged, Held, Done
<1> QED BY <1>2 DEF FateStep, Fate!Next

\* What is accounted for has been taken, in GroupFate's words, or skipped.
LEMMA AccountedTaken ==
  ASSUME TypeInv, NEW msg \in Msg, Accounted(msg)
  PROVE  Held[msg] > 0 \/ rows[msg] > 0 \/ msg \in lost \/ msg \in skipped
BY CopiesInFlight DEF Accounted, Held

LEMMA SameQueues ==
  ASSUME UNCHANGED << queue, worker >>
  PROVE  Held' = Held
<1>1. \A msg \in Msg : Copies(msg)' = Copies(msg)
  BY CopiesSame
<1> QED BY <1>1 DEF Held

\* Held, when only the copies of one message change.
LEMMA HeldChange ==
  ASSUME NEW msg \in Msg
  PROVE  /\ (\A c \in Msg : Copies(c)' = IF c = msg THEN Copies(c) + 1 ELSE Copies(c))
              => Held' = [Held EXCEPT ![msg] = @ + 1]
         /\ (\A c \in Msg : Copies(c)' = IF c = msg THEN Copies(c) - 1 ELSE Copies(c))
              => Held' = [Held EXCEPT ![msg] = @ - 1]
<1>1. [Held EXCEPT ![msg] = @ + 1] = [c \in Msg |-> IF c = msg THEN Copies(c) + 1 ELSE Copies(c)]
  BY DEF Held
<1>2. [Held EXCEPT ![msg] = @ - 1] = [c \in Msg |-> IF c = msg THEN Copies(c) - 1 ELSE Copies(c)]
  BY DEF Held
<1>3. Held' = [c \in Msg |-> Copies(c)']
  BY DEF Held
<1> QED BY <1>1, <1>2, <1>3

\* No member holds more copies of a message than may be taken.
LEMMA HeldBound ==
  ASSUME GroupInv, NEW msg \in Msg
  PROVE  /\ Copies(msg) \in Nat /\ Copies(msg)' \in Nat /\ rows[msg] \in Nat /\ aborts \in Nat
         /\ Copies(msg) + rows[msg] + Cardinality(Stragglers(msg))
              + (IF Settled(msg) THEN 0 ELSE 1) <= 1 + aborts
<1>1. /\ rows[msg] \in Nat /\ aborts \in Nat /\ Copies(msg) \in Nat /\ Copies(msg)' \in Nat
      /\ Cardinality(Stragglers(msg)) \in Nat
  BY CopiesNat, StragglersFinite DEF GroupInv, TypeInv, TypeOK
<1>2. Takes(msg) <= 1 + aborts
  BY DEF GroupInv, TakesBounded
<1> QED BY <1>1, <1>2 DEF Takes, Total

\* A step after which no message has more copies, and those with fewer are lost.
LEMMA LetsGo ==
  ASSUME GroupInv,
         \A msg \in Msg : Copies(msg)' <= Copies(msg),
         \A msg \in Msg : msg \in lost' <=> msg \in lost \/ Copies(msg)' < Copies(msg),
         lost' \subseteq Msg,
         aborts' \in {aborts, aborts + 1},
         UNCHANGED << produced, committed, rows, skipped >>
  PROVE  FateStep
<1>1. \A msg \in Msg : Held[msg] = Copies(msg) /\ Held'[msg] = Copies(msg)'
  BY DEF Held
<1>2. ASSUME NEW msg \in Msg PROVE Held'[msg] \in 0 .. aborts + 1 /\ Held'[msg] <= Held[msg]
  <2>1. Copies(msg)' \in Nat /\ Copies(msg) \in Nat /\ aborts \in Nat /\ Copies(msg) <= aborts + 1
    <3>1. Cardinality(Stragglers(msg)) \in Nat
      BY StragglersFinite
    <3> QED BY <3>1, HeldBound
  <2> QED BY <1>1, <2>1
<1>3. lost' = lost \cup { msg \in Msg : Held'[msg] < Held[msg] }
  BY <1>1 DEF GroupInv, TypeInv, TypeOK
<1>4. UNCHANGED << Logged, Done >>
  BY DEF Logged, Done
<1> QED BY <1>2, <1>3, <1>4, GoesLetGo

LEMMA ProduceAppends ==
  ASSUME GroupInv, NEW p \in Partitions, Produce(p)
  PROVE  FateStep
<1>1. PICK msg \in Msg : msg = << p, produced[p] >>
  <2>1. << p, produced[p] >> \in Msg
    BY BoundsAssumption DEF Produce, GroupInv, TypeInv, TypeOK, Offset, Msg
  <2> QED BY <2>1
<1>2. \A q \in Partitions : produced'[q] = IF q = p THEN produced[q] + 1 ELSE produced[q]
  BY DEF Produce, GroupInv, TypeInv, TypeOK
<1>3. \A c \in Msg : c[1] \in Partitions /\ c[2] \in Nat /\ c = << c[1], c[2] >>
  BY BoundsAssumption DEF Msg
<1>4. \A q \in Partitions : produced[q] \in Nat
  BY BoundsAssumption DEF GroupInv, TypeInv, TypeOK, Offset
<1>5. msg \notin Logged
  BY <1>1, <1>3, <1>4 DEF Logged
<1>6. ASSUME NEW c \in Msg
      PROVE  c[2] < produced'[c[1]] <=> c[2] < produced[c[1]] \/ c = msg
  <2>1. CASE c[1] = p
    <3>1. c = msg <=> c[2] = produced[p]
      BY <1>1, <1>3, <2>1
    <3> QED BY <1>2, <1>3, <1>4, <2>1, <3>1
  <2>2. CASE c[1] # p
    BY <1>1, <1>2, <1>3, <2>2
  <2> QED BY <2>1, <2>2
<1>7. Logged' = Logged \cup {msg}
  BY <1>6 DEF Logged
<1>8. UNCHANGED << Held, Done, rows, lost, skipped, aborts >>
  <2>1. UNCHANGED << queue, worker, committed, rows, lost, skipped, aborts >>
    BY DEF Produce, store, history
  <2> QED BY <2>1, SameQueues DEF Done
<1> QED BY <1>5, <1>7, <1>8, GoesAppend

LEMMA SendTakes ==
  ASSUME GroupInv, NEW m \in Members, NEW p \in Partitions, ClaimSend(m, p)
  PROVE  FateStep
<1>1. PICK msg \in Msg : msg = << p, pos[m][p] >>
  <2>1. << p, pos[m][p] >> \in Msg
    BY BoundsAssumption DEF ClaimSend, GroupInv, TypeInv, TypeOK, PosInLog, Offset, Msg
  <2> QED BY <2>1
<1>2. UNCHANGED << produced, committed, rows, lost, skipped, aborts >>
  BY DEF ClaimSend, kafka, store, history
<1>3. msg \in Logged
  BY <1>1 DEF Logged, ClaimSend, GroupInv, TypeInv, PosInLog
<1>4. Held[msg] + rows[msg] <= aborts
  <2>1. Held[msg] = Copies(msg) /\ Cardinality(Stragglers(msg)) \in Nat
    BY StragglersFinite DEF Held
  <2>2. ~Settled(msg) \/ m \in Stragglers(msg)
    BY <1>1, SenderCounted DEF GroupInv
  <2>3. m \in Stragglers(msg) => Cardinality(Stragglers(msg)) > 0
    BY <2>1, StragglersFinite, FS_EmptySet
  <2> QED BY <2>1, <2>2, <2>3, HeldBound
<1>5. ASSUME NEW other \in Msg, other[1] = msg[1], other[2] < msg[2]
      PROVE  Held[other] > 0 \/ rows[other] > 0 \/ other \in lost \/ other \in skipped
  <2>1. PICK o \in 0 .. MaxOffset - 1 : other = << p, o >>
    BY <1>1, <1>5 DEF Msg
  <2>2. o < pos[m][p] /\ claim[m][p] # "none"
    BY <1>1, <1>5, <2>1 DEF ClaimSend
  <2>3. Accounted(other)
    BY <2>1, <2>2 DEF GroupInv, AccountInv, ClaimsAccounted
  <2> QED BY <2>3, AccountedTaken DEF GroupInv
<1>6. Held' = [Held EXCEPT ![msg] = @ + 1]
  <2>1. \A c \in Msg : Copies(c) \in Nat /\ Copies(c)' = Copies(c) + (IF c = msg THEN 1 ELSE 0)
    BY <1>1, CopiesSend, CopiesNat DEF GroupInv
  <2>2. \A c \in Msg : Copies(c)' = IF c = msg THEN Copies(c) + 1 ELSE Copies(c)
    BY <2>1
  <2> QED BY <2>2, HeldChange
<1>7. UNCHANGED << Logged, Done >>
  BY <1>2 DEF Logged, Done
<1> QED BY <1>2, <1>3, <1>4, <1>5, <1>6, <1>7, GoesTake

LEMMA StoreStores ==
  ASSUME GroupInv, NEW m \in Members, NEW w \in Workers, WorkerStore(m, w)
  PROVE  FateStep
<1>1. PICK msg \in Msg : msg = worker[m][w]
  BY DEF WorkerStore
<1>2. /\ UNCHANGED << produced, committed, lost, skipped, aborts >>
      /\ rows' = [rows EXCEPT ![msg] = @ + 1]
  BY <1>1 DEF WorkerStore, kafka, history
<1>3. \A c \in Msg : /\ Copies(c) \in Nat /\ Copies(c)' \in Nat
                     /\ Copies(c)' = Copies(c) - (IF c = msg THEN 1 ELSE 0)
  BY <1>1, CopiesRelease, CopiesNat DEF GroupInv
<1>4. Held[msg] > 0
  <2>1. Copies(msg) > 0
    BY <1>3
  <2> QED BY <2>1 DEF Held
<1>5. Held' = [Held EXCEPT ![msg] = @ - 1]
  <2>1. \A c \in Msg : Copies(c)' = IF c = msg THEN Copies(c) - 1 ELSE Copies(c)
    BY <1>3
  <2> QED BY <2>1, HeldChange
<1>6. UNCHANGED << Logged, Done >>
  BY <1>2 DEF Logged, Done
<1> QED BY <1>2, <1>4, <1>5, <1>6, GoesStore

LEMMA CommitCommits ==
  ASSUME GroupInv, [Next]_vars, AccountInv',
         UNCHANGED << produced, queue, worker, rows, lost, skipped, aborts >>
  PROVE  FateStep
<1>1. ASSUME NEW msg \in Done'
      PROVE  Held[msg] > 0 \/ rows[msg] > 0 \/ msg \in lost \/ msg \in skipped
  <2>1. msg \in Msg /\ Accounted(msg)'
    BY DEF Done, AccountInv, CommittedAccounted
  <2>2. Accounted(msg)
    BY <2>1 DEF Accounted, InFlight, Holds, Queued, InHand
  <2> QED BY <2>1, <2>2, AccountedTaken DEF GroupInv
<1>2. \A p \in Partitions : committed[p] \in Int /\ committed'[p] \in Int
  BY TypeInvNext, BoundsAssumption DEF GroupInv, TypeInv, TypeOK, Offset, NoOffset
<1>3. \A msg \in Msg : msg[1] \in Partitions /\ msg[2] \in Int
  BY BoundsAssumption DEF Msg
<1>4. \A msg \in Done', other \in Msg :
        other[1] = msg[1] /\ other[2] < msg[2] => other \in Done'
  BY <1>2, <1>3 DEF Done
<1>5. Done \subseteq Done'
  <2> SUFFICES ASSUME NEW msg \in Msg, msg[2] < committed[msg[1]]
               PROVE  msg[2] < committed'[msg[1]]
    BY DEF Done
  <2>1. committed'[msg[1]] >= committed[msg[1]]
    BY <1>3, CommitNeverBack DEF GroupInv
  <2> QED BY <1>2, <1>3, <2>1
<1>6. UNCHANGED << Logged, Held >>
  BY SameQueues DEF Logged
<1> QED BY <1>1, <1>4, <1>5, <1>6, GoesCommit

LEMMA FormingSkips ==
  ASSUME GroupInv, FormGroup
  PROVE  FateStep
<1>1. PICK S \in SUBSET Msg :
        S = { msg \in Msg : committed[msg[1]] = NoOffset /\ msg[2] < produced[msg[1]] }
  OBVIOUS
<1>2. S \subseteq Logged \ Done
  BY <1>1, BoundsAssumption DEF Logged, Done, NoOffset, Msg
<1>3. UNCHANGED << produced, committed, queue, worker, rows, lost, aborts >> /\ skipped' = skipped \cup S
  BY <1>1 DEF FormGroup, store
<1>4. UNCHANGED << Logged, Held, Done >>
  BY <1>3, SameQueues DEF Logged, Done
<1> QED BY <1>2, <1>3, <1>4, GoesSkip

LEMMA VanishLetsGo ==
  ASSUME GroupInv, NEW m \in Members, Vanish(m), aborts' \in {aborts, aborts + 1},
         UNCHANGED << kafka, rows >>
  PROVE  FateStep
<1>1. UNCHANGED << produced, committed, rows, skipped >> /\ lost' = lost \cup Holds(m)
  BY DEF kafka, Vanish
<1>2. Holds(m) \subseteq Msg /\ lost \subseteq Msg
  BY DEF Holds, Queued, InHand, GroupInv, TypeInv, TypeOK
<1>3. \A msg \in Msg : Copies(msg)' <= Copies(msg) /\ (Copies(msg)' < Copies(msg) <=> msg \in Holds(m))
  BY CopiesVanish DEF GroupInv
<1> QED BY <1>1, <1>2, <1>3, LetsGo

LEMMA StepImplements ==
  ASSUME GroupInv, AccountInv', [Next]_vars
  PROVE  FateStep
<1>1. ASSUME UNCHANGED << produced, committed, skipped, queue, worker, rows, lost, aborts >>
      PROVE  FateStep
  <2>1. UNCHANGED << Logged, Held, Done >>
    BY <1>1, SameQueues DEF Logged, Done
  <2> QED BY <1>1, <2>1, GoesNowhere
<1>2. ASSUME NEW m \in Members, NEW w \in Workers, WorkerTake(m, w) \/ WorkerReturn(m, w)
      PROVE  FateStep
  <2>1. UNCHANGED << produced, committed, skipped, rows, lost, aborts >>
    BY <1>2 DEF WorkerTake, WorkerReturn, kafka, store, history
  <2>2. \A msg \in Msg : Copies(msg)' = Copies(msg)
    BY <1>2, CopiesTake, CopiesReturn DEF GroupInv
  <2>3. UNCHANGED << Logged, Held, Done >>
    BY <2>1, <2>2 DEF Logged, Held, Done
  <2> QED BY <2>1, <2>3, GoesNowhere
<1>3. ASSUME NEW m \in Members, NEW w \in Workers, WorkerTakeCancelled(m, w)
      PROVE  FateStep
  <2>1. /\ UNCHANGED << produced, committed, skipped, rows, aborts >>
        /\ lost' = lost \cup {Head(queue[m])}
    BY <1>3 DEF WorkerTakeCancelled, kafka, history
  <2>2. /\ Head(queue[m]) \in Msg /\ lost \subseteq Msg
        /\ \A msg \in Msg : Copies(msg) \in Nat
             /\ Copies(msg)' = Copies(msg) - (IF msg = Head(queue[m]) THEN 1 ELSE 0)
    <3>1. Head(queue[m]) \in Msg
      BY <1>3 DEF WorkerTakeCancelled, GroupInv, TypeInv, TypeOK
    <3> QED BY <1>3, <3>1, CopiesTakeCancelled, CopiesNat DEF GroupInv, TypeInv, TypeOK
  <2>3. \A msg \in Msg : Copies(msg)' <= Copies(msg)
                         /\ (Copies(msg)' < Copies(msg) <=> msg = Head(queue[m]))
    BY <2>2
  <2> QED BY <2>1, <2>2, <2>3, LetsGo
<1>4. ASSUME NEW m \in Members, NEW w \in Workers, WorkerStoreFails(m, w)
      PROVE  FateStep
  <2>1. /\ UNCHANGED << produced, committed, skipped, rows, aborts >>
        /\ worker[m][w] \in Msg /\ lost' = lost \cup {worker[m][w]}
    BY <1>4 DEF WorkerStoreFails, kafka
  <2>2. \A msg \in Msg : Copies(msg) \in Nat
             /\ Copies(msg)' = Copies(msg) - (IF msg = worker[m][w] THEN 1 ELSE 0)
    BY <1>4, CopiesRelease, CopiesNat DEF GroupInv
  <2>3. \A msg \in Msg : Copies(msg)' <= Copies(msg)
                         /\ (Copies(msg)' < Copies(msg) <=> msg = worker[m][w])
    BY <2>2
  <2>4. lost \subseteq Msg
    BY DEF GroupInv, TypeInv, TypeOK
  <2> QED BY <2>1, <2>3, <2>4, LetsGo
<1>5. ASSUME NEW m \in Members, Evict(m) \/ ConsumeReturnsUncommitted(m)
      PROVE  FateStep
  <2>1. /\ UNCHANGED << produced, committed, skipped, queue, worker, rows, lost >>
        /\ aborts' = aborts + 1 /\ lost \subseteq Msg
    BY <1>5 DEF Evict, ConsumeReturnsUncommitted, kafka, store, GroupInv, TypeInv, TypeOK
  <2>2. \A msg \in Msg : Copies(msg) \in Nat /\ Copies(msg)' = Copies(msg)
    BY <2>1, CopiesSame, CopiesNat
  <2>3. \A msg \in Msg : Copies(msg)' <= Copies(msg) /\ ~(Copies(msg)' < Copies(msg))
    BY <2>2
  <2> QED BY <2>1, <2>3, LetsGo
<1>6. ASSUME NEW m \in Members, StartConsumeReturn(m) \/ Crash(m)
      PROVE  FateStep
  BY <1>6, VanishLetsGo DEF StartConsumeReturn, Crash, history
<1>7. ASSUME NEW m \in Members, AutoCommit(m) \/ ConsumeReturns(m)
      PROVE  FateStep
  BY <1>7, CommitCommits DEF AutoCommit, ConsumeReturns, store, history
<1> QED
  BY <1>1, <1>2, <1>3, <1>4, <1>5, <1>6, <1>7, ProduceAppends, SendTakes, StoreStores, FormingSkips
  DEF Next, vars, LoopStep, LoopFault, ClaimStep, WorkerStep, ProcessStep, HeartbeatEndsSession,
      SpuriousRebalance, LoopCheck, ConsumeCancelled, ConsumeFails, CloseQueue, ClaimReceive,
      ClaimMark, ClaimReturn, ErrorHandlerReturn, Interrupt, Restart, kafka, store, history

\* Members that come and go, are evicted and die give every message the life
\* GroupFate describes: copies are taken in order, one for each abort besides
\* the first, none is dropped in silence, and nothing is committed untaken.
THEOREM ImplementsGroup == Spec => ImplementsGroupFate
<1>1. Init => Fate!Init
  <2> SUFFICES ASSUME Init PROVE Fate!Init
    OBVIOUS
  <2>1. ASSUME NEW msg \in Msg PROVE Copies(msg) = 0
    <3>1. QueuePlaces(queue, msg) = {} /\ HandPlaces(worker, msg) = {}
      BY WorkerAssumption, CapAssumption DEF Init, QueuePlaces, HandPlaces, AllIdle
    <3>2. Cardinality(QueuePlaces(queue, msg)) = 0 /\ Cardinality(HandPlaces(worker, msg)) = 0
      BY <3>1, FS_EmptySet
    <3> QED BY <3>2 DEF Copies
  <2>2. Logged = {} /\ Done = {}
    BY BoundsAssumption DEF Init, Logged, Done, Msg, NoOffset
  <2>3. Held = [msg \in Msg |-> 0]
    BY <2>1 DEF Held
  <2> QED BY <2>2, <2>3 DEF Init, Fate!Init, Logged, Done, Held
<1>2. GroupInv /\ GroupInv' /\ [Next]_vars => [Fate!Next]_(Fate!fate)
  BY StepImplements DEF GroupInv, FateStep
<1> QED BY <1>1, <1>2, GroupInvariant, PTL DEF Spec, ImplementsGroupFate, Fate!Spec
=============================================================================
