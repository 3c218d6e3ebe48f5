------------------------ MODULE ConsumerGroupProofs ------------------------
(***************************************************************************)
(* Theorems about ConsumerGroup, for every value of its constants.         *)
(***************************************************************************)
EXTENDS ConsumerGroupProps, TLAPS

-----------------------------------------------------------------------------
(***************************************************************************)
(* Type correctness. TypeOK is not inductive: a claim adds one to its      *)
(* position when it marks, which stays inside the log because the claim    *)
(* received a message that is there.                                       *)
(***************************************************************************)

\* A claim between the receipt of a message and its mark is at a message of
\* the log.
PosInLog ==
  \A m \in Members, p \in Partitions :
    claim[m][p] \in {"send", "mark"} => pos[m][p] < produced[p]

TypeInv == TypeOK /\ PosInLog

LEMMA TypeInvInit == Init => TypeInv
<1> SUFFICES ASSUME Init PROVE TypeInv
  OBVIOUS
<1>1. TypeOK
  BY CapAssumption, BoundsAssumption
  DEF Init, TypeOK, Offset, LoopPc, ClaimPc, NoClaims, NoMarks, AtZero, AllIdle, Msg, NoOffset
<1>2. PosInLog
  BY DEF Init, PosInLog, NoClaims
<1> QED BY <1>1, <1>2 DEF TypeInv

LEMMA TypeInvNext == TypeInv /\ [Next]_vars => TypeInv'
<1> SUFFICES ASSUME TypeInv, [Next]_vars PROVE TypeInv'
  OBVIOUS
<1> USE CapAssumption, BoundsAssumption DEF TypeInv, TypeOK, PosInLog, Offset, LoopPc, ClaimPc, NoOffset
<1>1. ASSUME FormGroup PROVE TypeInv'
  BY <1>1 DEF FormGroup, StartOffset, NoMarks, Fault, process, store
<1>2. ASSUME NEW p \in Partitions, Produce(p) PROVE TypeInv'
  BY <1>2 DEF Produce, session, process, store, history
<1>3. ASSUME NEW m \in Members, HeartbeatEndsSession(m) PROVE TypeInv'
  BY <1>3 DEF HeartbeatEndsSession, kafka, process, store, history
<1>4. ASSUME NEW m \in Members, SpuriousRebalance(m) PROVE TypeInv'
  BY <1>4 DEF SpuriousRebalance, Fault, kafka, process, store
<1>5. ASSUME NEW m \in Members, Evict(m) PROVE TypeInv'
  BY <1>5 DEF Evict, Fault, kafka, process, store
<1>6. ASSUME NEW m \in Members, AutoCommit(m) PROVE TypeInv'
  BY <1>6 DEF AutoCommit, CommitMarks, session, process, store, history
<1>7. ASSUME NEW m \in Members, LoopCheck(m) PROVE TypeInv'
  BY <1>7 DEF LoopCheck, kafka, session, store, history
<1>8. ASSUME NEW m \in Members, ConsumeCancelled(m) PROVE TypeInv'
  BY <1>8 DEF ConsumeCancelled, kafka, session, store, history
<1>9. ASSUME NEW m \in Members, ConsumeReturns(m) PROVE TypeInv'
  BY <1>9 DEF ConsumeReturns, CommitMarks, LeaveSession, NoClaims, NoMarks, AtZero, store, history
<1>10. ASSUME NEW m \in Members, CloseQueue(m) PROVE TypeInv'
  BY <1>10 DEF CloseQueue, kafka, session, store, history
<1>11. ASSUME NEW m \in Members, ConsumeFails(m) PROVE TypeInv'
  BY <1>11 DEF ConsumeFails, Fault, kafka, session, store
<1>12. ASSUME NEW m \in Members, ConsumeReturnsUncommitted(m) PROVE TypeInv'
  BY <1>12 DEF ConsumeReturnsUncommitted, Fault, LeaveSession, NoClaims, NoMarks, AtZero, kafka, store
<1>13. ASSUME NEW m \in Members, NEW p \in Partitions, ClaimReceive(m, p) PROVE TypeInv'
  BY <1>13 DEF ClaimReceive, kafka, process, store, history
<1>14. ASSUME NEW m \in Members, NEW p \in Partitions, ClaimSend(m, p) PROVE TypeInv'
  <2>1. << p, pos[m][p] >> \in Msg
    BY <1>14 DEF ClaimSend, Msg
  <2>2. Append(queue[m], << p, pos[m][p] >>) \in Seq(Msg)
    BY <2>1
  <2>3. Len(Append(queue[m], << p, pos[m][p] >>)) <= QueueCap
    BY <1>14, <2>1 DEF ClaimSend
  <2>4. queue' \in [Members -> Seq(Msg)] /\ \A n \in Members : Len(queue'[n]) <= QueueCap
    BY <1>14, <2>2, <2>3 DEF ClaimSend
  <2> QED
    BY <1>14, <2>4 DEF ClaimSend, kafka, process, store, history
<1>15. ASSUME NEW m \in Members, NEW p \in Partitions, ClaimMark(m, p) PROVE TypeInv'
  BY <1>15 DEF ClaimMark, kafka, process, store, history
<1>16. ASSUME NEW m \in Members, NEW p \in Partitions, ClaimReturn(m, p) PROVE TypeInv'
  BY <1>16 DEF ClaimReturn, kafka, process, store, history
<1>17. ASSUME NEW m \in Members, NEW w \in Workers, WorkerTake(m, w) PROVE TypeInv'
  BY <1>17 DEF WorkerTake, kafka, session, process, store, history
<1>18. ASSUME NEW m \in Members, NEW w \in Workers, WorkerTakeCancelled(m, w) PROVE TypeInv'
  BY <1>18 DEF WorkerTakeCancelled, kafka, session, process, store, history
<1>19. ASSUME NEW m \in Members, NEW w \in Workers, WorkerStore(m, w) PROVE TypeInv'
  BY <1>19 DEF WorkerStore, kafka, session, process, store, history
<1>20. ASSUME NEW m \in Members, NEW w \in Workers, WorkerStoreFails(m, w) PROVE TypeInv'
  BY <1>20 DEF WorkerStoreFails, Fault, kafka, session, process, store
<1>21. ASSUME NEW m \in Members, NEW w \in Workers, WorkerReturn(m, w) PROVE TypeInv'
  BY <1>21 DEF WorkerReturn, kafka, session, process, store, history
<1>22. ASSUME NEW m \in Members, ErrorHandlerReturn(m) PROVE TypeInv'
  BY <1>22 DEF ErrorHandlerReturn, kafka, session, store, history
<1>23. ASSUME NEW m \in Members, StartConsumeReturn(m) PROVE TypeInv'
  BY <1>23 DEF StartConsumeReturn, Vanish, Holds, Queued, InHand, LeaveSession, NoClaims, NoMarks, AtZero, AllIdle, kafka, history
<1>24. ASSUME NEW m \in Members, Interrupt(m) PROVE TypeInv'
  BY <1>24 DEF Interrupt, Fault, kafka, session, store
<1>25. ASSUME NEW m \in Members, Crash(m) PROVE TypeInv'
  BY <1>25 DEF Crash, Fault, Vanish, Holds, Queued, InHand, LeaveSession, NoClaims, NoMarks, AtZero, AllIdle, kafka
<1>26. ASSUME NEW m \in Members, Restart(m) PROVE TypeInv'
  BY <1>26 DEF Restart, kafka, session, store, history
<1>27. CASE UNCHANGED vars
  BY <1>27 DEF vars, kafka, session, process, store, history
<1> QED
  BY <1>1, <1>2, <1>3, <1>4, <1>5, <1>6, <1>7, <1>8, <1>9, <1>10, <1>11, <1>12, <1>13, <1>14, <1>15, <1>16, <1>17, <1>18, <1>19, <1>20, <1>21, <1>22, <1>23, <1>24, <1>25, <1>26, <1>27
  DEF Next, LoopStep, LoopFault, ClaimStep, WorkerStep, ProcessStep

\* Every variable keeps its type, MessageQueue stays within its capacity, and a
\* claim never marks a message that is not in the log.
THEOREM TypeCorrect == Spec => [](TypeOK /\ PosInLog)
<1> QED BY TypeInvInit, TypeInvNext, PTL DEF Spec, TypeInv

-----------------------------------------------------------------------------
(***************************************************************************)
(* Sessions. Claims, marks and evictions belong to a session, two sessions *)
(* Kafka honours share no partition, and such a session is never behind    *)
(* the committed offset of its partitions. From these it follows that      *)
(* nobody sends on a closed queue and that no commit moves back.           *)
(***************************************************************************)

OutsideSession ==
  \A m \in Members :
    loop[m] # "session" => claim[m] = NoClaims /\ marked[m] = NoMarks /\ ~evicted[m]

MarksBehindClaim ==
  \A m \in Members, p \in Partitions :
    marked[m][p] # NoOffset => claim[m][p] # "none" /\ marked[m][p] <= pos[m][p]

OneOwner ==
  \A m, n \in Owners, p \in Partitions :
    claim[m][p] # "none" /\ claim[n][p] # "none" => m = n

OwnersAhead ==
  \A m \in Owners, p \in Partitions :
    claim[m][p] # "none" =>
      /\ committed[p] <= pos[m][p]
      /\ marked[m][p] # NoOffset => committed[p] <= marked[m][p]

SessionInv == OutsideSession /\ MarksBehindClaim /\ OneOwner /\ OwnersAhead

LEMMA SessionInvInit == Init => SessionInv
  BY DEF Init, SessionInv, OutsideSession, MarksBehindClaim, OneOwner, OwnersAhead, Owners,
         NoClaims, NoMarks

LEMMA SessionInvNext == TypeInv /\ SessionInv /\ [Next]_vars => SessionInv'
<1> SUFFICES ASSUME TypeInv, SessionInv, [Next]_vars PROVE SessionInv'
  OBVIOUS
<1> USE BoundsAssumption DEF TypeInv, TypeOK, PosInLog, Offset, LoopPc, ClaimPc, NoOffset, SessionInv,
        OutsideSession, MarksBehindClaim, OneOwner, OwnersAhead, Owners, NoClaims, NoMarks
<1>1. ASSUME FormGroup PROVE SessionInv'
  BY <1>1 DEF FormGroup, StartOffset, NoMarks, Fault, process, store
<1>2. ASSUME NEW p \in Partitions, Produce(p) PROVE SessionInv'
  BY <1>2 DEF Produce, session, process, store, history
<1>3. ASSUME NEW m \in Members, HeartbeatEndsSession(m) PROVE SessionInv'
  BY <1>3 DEF HeartbeatEndsSession, kafka, process, store, history
<1>4. ASSUME NEW m \in Members, SpuriousRebalance(m) PROVE SessionInv'
  BY <1>4 DEF SpuriousRebalance, Fault, kafka, process, store
<1>5. ASSUME NEW m \in Members, Evict(m) PROVE SessionInv'
  BY <1>5 DEF Evict, Fault, kafka, process, store
<1>6. ASSUME NEW m \in Members, AutoCommit(m) PROVE SessionInv'
  BY <1>6 DEF AutoCommit, CommitMarks, session, process, store, history
<1>7. ASSUME NEW m \in Members, LoopCheck(m) PROVE SessionInv'
  BY <1>7 DEF LoopCheck, kafka, session, store, history
<1>8. ASSUME NEW m \in Members, ConsumeCancelled(m) PROVE SessionInv'
  BY <1>8 DEF ConsumeCancelled, kafka, session, store, history
<1>9. ASSUME NEW m \in Members, ConsumeReturns(m) PROVE SessionInv'
  BY <1>9 DEF ConsumeReturns, CommitMarks, LeaveSession, NoClaims, NoMarks, AtZero, store, history
<1>10. ASSUME NEW m \in Members, CloseQueue(m) PROVE SessionInv'
  BY <1>10 DEF CloseQueue, kafka, session, store, history
<1>11. ASSUME NEW m \in Members, ConsumeFails(m) PROVE SessionInv'
  BY <1>11 DEF ConsumeFails, Fault, kafka, session, store
<1>12. ASSUME NEW m \in Members, ConsumeReturnsUncommitted(m) PROVE SessionInv'
  BY <1>12 DEF ConsumeReturnsUncommitted, Fault, LeaveSession, NoClaims, NoMarks, AtZero, kafka, store
<1>13. ASSUME NEW m \in Members, NEW p \in Partitions, ClaimReceive(m, p) PROVE SessionInv'
  BY <1>13 DEF ClaimReceive, kafka, process, store, history
<1>14. ASSUME NEW m \in Members, NEW p \in Partitions, ClaimSend(m, p) PROVE SessionInv'
  BY <1>14 DEF ClaimSend, Msg, kafka, process, store, history
<1>15. ASSUME NEW m \in Members, NEW p \in Partitions, ClaimMark(m, p) PROVE SessionInv'
  <2>1. \A n \in Members, q \in Partitions : (claim'[n][q] # "none") <=> (claim[n][q] # "none")
    BY <1>15 DEF ClaimMark
  <2>2. \A n \in Members, q \in Partitions :
          n # m \/ q # p => marked'[n][q] = marked[n][q] /\ pos'[n][q] = pos[n][q]
    BY <1>15 DEF ClaimMark
  <2>3. marked'[m][p] = pos[m][p] + 1 /\ pos'[m][p] = pos[m][p] + 1
    BY <1>15 DEF ClaimMark
  <2>4. UNCHANGED << loop, evicted, committed >> /\ loop[m] = "session"
    BY <1>15 DEF ClaimMark, kafka, process
  <2>5. OutsideSession'
    BY <1>15, <2>4 DEF ClaimMark
  <2>6. pos[m][p] \in Nat /\ claim[m][p] # "none"
    BY <1>15 DEF ClaimMark
  <2>7. MarksBehindClaim'
    <3> SUFFICES ASSUME NEW n \in Members, NEW q \in Partitions, marked'[n][q] # NoOffset
                 PROVE  claim'[n][q] # "none" /\ marked'[n][q] <= pos'[n][q]
      BY DEF MarksBehindClaim
    <3>1. CASE n = m /\ q = p
      BY <3>1, <2>1, <2>3, <2>6
    <3>2. CASE n # m \/ q # p
      BY <3>2, <2>1, <2>2
    <3> QED BY <3>1, <3>2
  <2>8. OneOwner'
    BY <2>1, <2>4
  <2>9. OwnersAhead'
    <3> SUFFICES ASSUME NEW n \in Members, NEW q \in Partitions, (n \in Owners)',
                        claim'[n][q] # "none"
                 PROVE  /\ committed'[q] <= pos'[n][q]
                        /\ marked'[n][q] # NoOffset => committed'[q] <= marked'[n][q]
      BY DEF OwnersAhead
    <3>1. n \in Owners /\ claim[n][q] # "none" /\ committed[q] <= pos[n][q]
      BY <2>1, <2>4
    <3>2. CASE n = m /\ q = p
      <4>1. committed'[p] = committed[p] /\ committed[p] <= pos[m][p] /\ committed[p] \in Int
        BY <3>1, <3>2, <2>4
      <4> HIDE DEF TypeInv, TypeOK, SessionInv
      <4>2. committed'[p] <= pos[m][p] + 1
        BY <4>1, <2>6
      <4> QED BY <3>2, <4>2, <2>3
    <3>3. CASE n # m \/ q # p
      BY <3>1, <3>3, <2>2, <2>4
    <3> QED BY <3>2, <3>3
  <2> QED BY <2>5, <2>7, <2>8, <2>9
<1>16. ASSUME NEW m \in Members, NEW p \in Partitions, ClaimReturn(m, p) PROVE SessionInv'
  BY <1>16 DEF ClaimReturn, kafka, process, store, history
<1>17. ASSUME NEW m \in Members, NEW w \in Workers, WorkerTake(m, w) PROVE SessionInv'
  BY <1>17 DEF WorkerTake, kafka, session, process, store, history
<1>18. ASSUME NEW m \in Members, NEW w \in Workers, WorkerTakeCancelled(m, w) PROVE SessionInv'
  BY <1>18 DEF WorkerTakeCancelled, kafka, session, process, store, history
<1>19. ASSUME NEW m \in Members, NEW w \in Workers, WorkerStore(m, w) PROVE SessionInv'
  BY <1>19 DEF WorkerStore, kafka, session, process, store, history
<1>20. ASSUME NEW m \in Members, NEW w \in Workers, WorkerStoreFails(m, w) PROVE SessionInv'
  BY <1>20 DEF WorkerStoreFails, Fault, kafka, session, process, store
<1>21. ASSUME NEW m \in Members, NEW w \in Workers, WorkerReturn(m, w) PROVE SessionInv'
  BY <1>21 DEF WorkerReturn, kafka, session, process, store, history
<1>22. ASSUME NEW m \in Members, ErrorHandlerReturn(m) PROVE SessionInv'
  BY <1>22 DEF ErrorHandlerReturn, kafka, session, store, history
<1>23. ASSUME NEW m \in Members, StartConsumeReturn(m) PROVE SessionInv'
  BY <1>23 DEF StartConsumeReturn, Vanish, Holds, Queued, InHand, LeaveSession, NoClaims, NoMarks, AtZero, AllIdle, kafka, history
<1>24. ASSUME NEW m \in Members, Interrupt(m) PROVE SessionInv'
  BY <1>24 DEF Interrupt, Fault, kafka, session, store
<1>25. ASSUME NEW m \in Members, Crash(m) PROVE SessionInv'
  BY <1>25 DEF Crash, Fault, Vanish, Holds, Queued, InHand, LeaveSession, NoClaims, NoMarks, AtZero, AllIdle, kafka
<1>26. ASSUME NEW m \in Members, Restart(m) PROVE SessionInv'
  BY <1>26 DEF Restart, kafka, session, store, history
<1>27. CASE UNCHANGED vars
  BY <1>27 DEF vars, kafka, session, process, store, history
<1> QED
  BY <1>1, <1>2, <1>3, <1>4, <1>5, <1>6, <1>7, <1>8, <1>9, <1>10, <1>11, <1>12, <1>13, <1>14, <1>15, <1>16, <1>17, <1>18, <1>19, <1>20, <1>21, <1>22, <1>23, <1>24, <1>25, <1>26, <1>27
  DEF Next, LoopStep, LoopFault, ClaimStep, WorkerStep, ProcessStep
LEMMA SessionInvariant == Spec => [](TypeInv /\ SessionInv)
<1> QED BY TypeInvInit, TypeInvNext, SessionInvInit, SessionInvNext, PTL DEF Spec

\* ConsumeClaim never sends on a MessageQueue that StartConsume has closed: the
\* loop closes it only after Consume has seen every claim return.
THEOREM NeverSendOnClosedQueue == Spec => []NoSendOnClosedQueue
<1>1. TypeInv /\ SessionInv => NoSendOnClosedQueue
  BY DEF TypeInv, TypeOK, SessionInv, OutsideSession, NoSendOnClosedQueue, NoClaims
<1> QED BY <1>1, SessionInvariant, PTL

LEMMA CommitsOnly ==
  ASSUME [Next]_vars
  PROVE  committed' = committed \/ \E m \in Members : CommitMarks(m)
<1> QED
  BY DEF Next, vars, LoopStep, LoopFault, ClaimStep, WorkerStep, ProcessStep, FormGroup, Produce,
         HeartbeatEndsSession, SpuriousRebalance, Evict, AutoCommit, LoopCheck,
         ConsumeCancelled, ConsumeReturns, ConsumeFails, ConsumeReturnsUncommitted,
         CloseQueue, ClaimReceive, ClaimSend, ClaimMark, ClaimReturn, WorkerTake,
         WorkerTakeCancelled, WorkerStore, WorkerStoreFails, WorkerReturn,
         ErrorHandlerReturn, StartConsumeReturn, Interrupt, Crash, Restart, kafka

LEMMA CommitNeverBack ==
  ASSUME TypeInv, SessionInv, [Next]_vars, NEW p \in Partitions
  PROVE  committed'[p] >= committed[p]
<1>1. committed' = committed \/ \E m \in Members : CommitMarks(m)
  BY CommitsOnly
<1>2. committed[p] \in Int
  BY BoundsAssumption DEF TypeInv, TypeOK, Offset, NoOffset
<1>3. ASSUME NEW m \in Members, CommitMarks(m) PROVE committed'[p] >= committed[p]
  BY <1>2, <1>3, BoundsAssumption
  DEF CommitMarks, TypeInv, TypeOK, Offset, NoOffset, SessionInv, MarksBehindClaim, OwnersAhead
<1> QED BY <1>1, <1>2, <1>3

\* No commit moves the group back on a partition, whatever members are evicted,
\* crash, or commit while another one takes over.
THEOREM CommitsMonotone == Spec => CommittedMonotone
<1>1. TypeInv /\ SessionInv /\ [Next]_vars =>
        [\A p \in Partitions : committed'[p] >= committed[p]]_vars
  BY CommitNeverBack
<1> QED BY <1>1, SessionInvariant, PTL DEF Spec, CommittedMonotone

-----------------------------------------------------------------------------
(***************************************************************************)
(* No committed message vanishes. Every claim has handed over the messages *)
(* before its position, marks stay behind positions, and a message that is *)
(* accounted for stays so.                                                 *)
(***************************************************************************)

Elements(seq) == { seq[i] : i \in 1 .. Len(seq) }

LEMMA ElementsAppend ==
  ASSUME NEW S, NEW seq \in Seq(S), NEW e \in S
  PROVE  Elements(Append(seq, e)) = Elements(seq) \cup {e}
<1> QED BY DEF Elements

LEMMA ElementsTail ==
  ASSUME NEW S, NEW seq \in Seq(S), seq # << >>
  PROVE  Elements(seq) = {Head(seq)} \cup Elements(Tail(seq))
<1>1. \A i \in 1 .. Len(Tail(seq)) : Tail(seq)[i] = seq[i + 1] /\ i + 1 \in 1 .. Len(seq)
  OBVIOUS
<1>2. Head(seq) = seq[1] /\ 1 \in 1 .. Len(seq)
  OBVIOUS
<1>3. \A i \in 1 .. Len(seq) : i = 1 \/ (i - 1 \in 1 .. Len(Tail(seq)) /\ Tail(seq)[i - 1] = seq[i])
  OBVIOUS
<1>4. ASSUME NEW x \in Elements(seq) PROVE x \in {Head(seq)} \cup Elements(Tail(seq))
  BY <1>2, <1>3 DEF Elements
<1>5. ASSUME NEW x \in {Head(seq)} \cup Elements(Tail(seq)) PROVE x \in Elements(seq)
  BY <1>1, <1>2 DEF Elements
<1> QED BY <1>4, <1>5

ClaimsAccounted ==
  \A m \in Members, p \in Partitions, o \in 0 .. MaxOffset - 1 :
    claim[m][p] # "none" /\ (o < pos[m][p] \/ (o = pos[m][p] /\ claim[m][p] = "mark"))
      => Accounted(<< p, o >>)

\* The actions that touch neither MessageQueue, nor a worker, nor the database.
LEMMA QuietSteps ==
  ASSUME [Next]_vars
  PROVE  \/ UNCHANGED << queue, worker, rows, lost >> /\ skipped \subseteq skipped'
         \/ \E m \in Members, p \in Partitions : ClaimSend(m, p)
         \/ \E m \in Members, w \in Workers :
              WorkerTake(m, w) \/ WorkerTakeCancelled(m, w) \/ WorkerStore(m, w)
              \/ WorkerStoreFails(m, w) \/ WorkerReturn(m, w)
         \/ \E m \in Members : Vanish(m) /\ UNCHANGED << rows, skipped >>
<1> QED
  BY DEF Next, vars, LoopStep, LoopFault, ClaimStep, WorkerStep, ProcessStep, FormGroup, Produce,
         HeartbeatEndsSession, SpuriousRebalance, Evict, AutoCommit, LoopCheck,
         ConsumeCancelled, ConsumeReturns, ConsumeFails, ConsumeReturnsUncommitted,
         CloseQueue, ClaimReceive, ClaimMark, ClaimReturn, ErrorHandlerReturn,
         StartConsumeReturn, Interrupt, Crash, Restart, kafka, store

LEMMA AccountedStays ==
  ASSUME TypeInv, [Next]_vars, NEW msg \in Msg, Accounted(msg)
  PROVE  Accounted(msg)'
<1> USE DEF TypeInv, TypeOK
<1>1. CASE UNCHANGED << queue, worker, rows, lost >> /\ skipped \subseteq skipped'
  BY <1>1 DEF Accounted, InFlight, Holds, Queued, InHand
<1>2. ASSUME NEW m \in Members, NEW p \in Partitions, ClaimSend(m, p)
      PROVE  Accounted(msg)'
  <2>1. UNCHANGED << worker, rows, lost, skipped >>
    BY <1>2 DEF ClaimSend, store, kafka
  <2>2. \A n \in Members : Queued(n) \subseteq Queued(n)'
    <3>1. \A n \in Members \ {m} : queue'[n] = queue[n]
      BY <1>2 DEF ClaimSend
    <3>2. queue'[m] = Append(queue[m], << p, pos[m][p] >>) /\ queue[m] \in Seq(Msg)
      BY <1>2 DEF ClaimSend
    <3>3. \A i \in 1 .. Len(queue[m]) :
            i \in 1 .. Len(queue'[m]) /\ queue'[m][i] = queue[m][i]
      BY <3>2
    <3>4. Queued(m) \subseteq Queued(m)'
      BY <3>3 DEF Queued
    <3>5. \A n \in Members \ {m} : Queued(n)' = Queued(n)
      BY <3>1 DEF Queued
    <3> QED BY <3>4, <3>5
  <2> QED BY <2>1, <2>2 DEF Accounted, InFlight, Holds, InHand
<1>3. ASSUME NEW m \in Members, NEW w \in Workers,
             WorkerTake(m, w) \/ WorkerTakeCancelled(m, w)
      PROVE  Accounted(msg)'
  <2>1. UNCHANGED << rows, skipped >> /\ lost \subseteq lost'
    BY <1>3 DEF WorkerTake, WorkerTakeCancelled, store, kafka
  <2>2. queue[m] \in Seq(Msg) /\ queue[m] # << >> /\ queue'[m] = Tail(queue[m])
    BY <1>3 DEF WorkerTake, WorkerTakeCancelled
  <2>3. Queued(m) = {Head(queue[m])} \cup Queued(m)'
    <3>1. Elements(queue[m]) = {Head(queue[m])} \cup Elements(Tail(queue[m]))
      <4> HIDE DEF TypeInv, TypeOK
      <4> QED BY <2>2, ElementsTail
    <3>2. Queued(m) = Elements(queue[m]) /\ Queued(m)' = Elements(Tail(queue[m]))
      BY <2>2 DEF Queued, Elements
    <3> QED BY <3>1, <3>2
  <2>4. \A n \in Members \ {m} : Queued(n)' = Queued(n)
    BY <1>3 DEF WorkerTake, WorkerTakeCancelled, Queued
  <2>5. \A n \in Members : InHand(n) \subseteq InHand(n)'
    <3>1. ASSUME NEW n \in Members, NEW v \in Workers, worker[n][v] # Idle
          PROVE  worker'[n][v] = worker[n][v]
      <4>1. CASE WorkerTake(m, w)
        BY <3>1, <4>1 DEF WorkerTake
      <4>2. CASE WorkerTakeCancelled(m, w)
        BY <4>2 DEF WorkerTakeCancelled
      <4> QED BY <1>3, <4>1, <4>2
    <3> HIDE DEF TypeInv, TypeOK
    <3> QED BY <3>1 DEF InHand
  <2>6. Head(queue[m]) \in InHand(m)' \/ Head(queue[m]) \in lost'
    <3>1. CASE WorkerTake(m, w)
      <4>1. Head(queue[m]) \in Msg /\ worker'[m][w] = Head(queue[m])
        BY <3>1, <2>2 DEF WorkerTake
      <4> QED BY <4>1, WorkerAssumption DEF InHand
    <3>2. CASE WorkerTakeCancelled(m, w)
      BY <3>2 DEF WorkerTakeCancelled
    <3> QED BY <1>3, <3>1, <3>2
  <2> QED BY <2>1, <2>3, <2>4, <2>5, <2>6 DEF Accounted, InFlight, Holds
<1>4. ASSUME NEW m \in Members, NEW w \in Workers,
             WorkerStore(m, w) \/ WorkerStoreFails(m, w) \/ WorkerReturn(m, w)
      PROVE  Accounted(msg)'
  <2>1. UNCHANGED << queue, skipped >> /\ lost \subseteq lost'
    BY <1>4 DEF WorkerStore, WorkerStoreFails, WorkerReturn, store, kafka
  <2>2. rows[msg] > 0 => rows'[msg] > 0
    BY <1>4 DEF WorkerStore, WorkerStoreFails, WorkerReturn, store
  <2>3. \A n \in Members, v \in Workers :
          (n # m \/ v # w) => worker'[n][v] = worker[n][v]
    BY <1>4 DEF WorkerStore, WorkerStoreFails, WorkerReturn
  <2>4. worker[m][w] = msg => rows'[msg] > 0 \/ msg \in lost'
    BY <1>4, WorkerAssumption DEF WorkerStore, WorkerStoreFails, WorkerReturn
  <2>5. \A n \in Members : msg \in InHand(n) => msg \in InHand(n)' \/ worker[m][w] = msg
    <3> HIDE DEF TypeInv, TypeOK
    <3> QED BY <2>3 DEF InHand
  <2>6. \A n \in Members : Queued(n)' = Queued(n)
    BY <2>1 DEF Queued
  <2> QED BY <2>1, <2>2, <2>4, <2>5, <2>6 DEF Accounted, InFlight, Holds
<1>5. ASSUME NEW m \in Members, Vanish(m), UNCHANGED << rows, skipped >>
      PROVE  Accounted(msg)'
  <2>1. \A n \in Members \ {m} : Holds(n)' = Holds(n)
    BY <1>5 DEF Vanish, Holds, Queued, InHand
  <2>2. lost' = lost \cup Holds(m)
    BY <1>5 DEF Vanish
  <2> QED BY <1>5, <2>1, <2>2 DEF Accounted, InFlight
<1> QED BY <1>1, <1>2, <1>3, <1>4, <1>5, QuietSteps

AccountInv == ClaimsAccounted /\ CommittedAccounted

LEMMA AccountInvInit == Init => AccountInv
  BY DEF Init, AccountInv, ClaimsAccounted, CommittedAccounted, NoClaims, NoOffset, Msg

\* A claim the step neither creates, nor moves, nor takes to its mark.
SameClaim(m, p) ==
  claim'[m][p] # "none" =>
    /\ claim[m][p] # "none" /\ pos'[m][p] = pos[m][p]
    /\ claim'[m][p] = "mark" => claim[m][p] = "mark"

LEMMA SameClaims ==
  ASSUME TypeInv, [Next]_vars, NEW n \in Members, NEW q \in Partitions
  PROVE  SameClaim(n, q) \/ FormGroup \/ ClaimSend(n, q) \/ ClaimMark(n, q)
<1>1. CASE UNCHANGED << claim, pos >>
  BY <1>1 DEF SameClaim
<1>2. ASSUME NEW m \in Members, LeaveSession(m)
      PROVE  SameClaim(n, q)
  BY <1>2 DEF LeaveSession, NoClaims, SameClaim, TypeInv, TypeOK
<1>3. ASSUME NEW m \in Members, NEW p \in Partitions, ClaimReceive(m, p) \/ ClaimReturn(m, p)
      PROVE  SameClaim(n, q)
  <2>1. pos' = pos /\ claim[m][p] = "recv" /\ claim'[m][p] # "mark"
    BY <1>3 DEF ClaimReceive, ClaimReturn, TypeInv, TypeOK
  <2>2. m # n \/ p # q => claim'[n][q] = claim[n][q]
    BY <1>3 DEF ClaimReceive, ClaimReturn, TypeInv, TypeOK
  <2> QED BY <2>1, <2>2 DEF SameClaim
<1>4. ASSUME NEW m \in Members, NEW p \in Partitions, ClaimSend(m, p) \/ ClaimMark(m, p),
             m # n \/ p # q
      PROVE  SameClaim(n, q)
  BY <1>4 DEF ClaimSend, ClaimMark, SameClaim, TypeInv, TypeOK
<1> QED
  BY <1>1, <1>2, <1>3, <1>4
  DEF Next, vars, LoopStep, LoopFault, ClaimStep, WorkerStep, ProcessStep, Produce,
      HeartbeatEndsSession, SpuriousRebalance, Evict, AutoCommit, LoopCheck,
      ConsumeCancelled, ConsumeReturns, ConsumeFails, ConsumeReturnsUncommitted,
      CloseQueue, WorkerTake, WorkerTakeCancelled, WorkerStore, WorkerStoreFails,
      WorkerReturn, ErrorHandlerReturn, StartConsumeReturn, Interrupt, Crash, Restart,
      Vanish, session

LEMMA AccountInvNext ==
  TypeInv /\ SessionInv /\ AccountInv /\ [Next]_vars => AccountInv'
<1> SUFFICES ASSUME TypeInv, SessionInv, AccountInv, [Next]_vars PROVE AccountInv'
  OBVIOUS
<1>1. ASSUME NEW m \in Members, NEW p \in Partitions, NEW o \in 0 .. MaxOffset - 1,
             claim'[m][p] # "none",
             o < pos'[m][p] \/ (o = pos'[m][p] /\ claim'[m][p] = "mark")
      PROVE  Accounted(<< p, o >>)'
  <2>1. << p, o >> \in Msg
    BY DEF Msg
  <2>2. CASE Accounted(<< p, o >>)
    BY <2>1, <2>2, AccountedStays
  <2>3. CASE SameClaim(m, p)
    BY <1>1, <2>2, <2>3 DEF SameClaim, AccountInv, ClaimsAccounted
  <2>4. CASE FormGroup /\ ~SameClaim(m, p)
    <3>1. m \in Joining /\ pos'[m][p] = StartOffset(p) /\ claim'[m][p] = "recv"
      BY <1>1, <2>4 DEF FormGroup, SameClaim, TypeInv, TypeOK
    <3>2. o < StartOffset(p)
      BY <1>1, <3>1
    <3>3. CASE committed[p] = NoOffset
      BY <2>1, <2>4, <3>2, <3>3 DEF FormGroup, StartOffset, Accounted
    <3>4. CASE committed[p] # NoOffset
      BY <2>1, <2>2, <3>2, <3>4 DEF StartOffset, AccountInv, CommittedAccounted
    <3> QED BY <3>3, <3>4
  <2>5. CASE ClaimSend(m, p)
    <3>1. claim[m][p] = "send" /\ pos'[m][p] = pos[m][p]
      BY <2>5 DEF ClaimSend
    <3>2. CASE o < pos[m][p]
      BY <2>2, <3>1, <3>2 DEF AccountInv, ClaimsAccounted
    <3>3. CASE o = pos[m][p]
      <4>1. queue'[m] = Append(queue[m], << p, o >>) /\ queue[m] \in Seq(Msg)
        BY <2>5, <3>3 DEF ClaimSend, TypeInv, TypeOK
      <4>2. Len(queue'[m]) \in 1 .. Len(queue'[m]) /\ queue'[m][Len(queue'[m])] = << p, o >>
        BY <2>1, <4>1
      <4> QED BY <4>2 DEF Accounted, InFlight, Holds, Queued
    <3> QED BY <1>1, <3>1, <3>2, <3>3
  <2>6. CASE ClaimMark(m, p)
    <3>1. claim[m][p] = "mark" /\ pos'[m][p] = pos[m][p] + 1 /\ claim'[m][p] = "recv"
          /\ pos[m][p] \in Nat
      BY <2>6, BoundsAssumption DEF ClaimMark, TypeInv, TypeOK, Offset
    <3>2. o < pos[m][p] \/ o = pos[m][p]
      BY <1>1, <3>1
    <3> QED BY <2>2, <3>1, <3>2 DEF AccountInv, ClaimsAccounted
  <2> QED BY <2>3, <2>4, <2>5, <2>6, SameClaims
<1>2. ASSUME NEW msg \in Msg, msg[2] < committed'[msg[1]]
      PROVE  Accounted(msg)'
  <2>1. PICK p \in Partitions, o \in 0 .. MaxOffset - 1 : msg = << p, o >>
    BY DEF Msg
  <2>2. CASE committed'[p] = committed[p]
    BY <1>2, <2>1, <2>2, AccountedStays DEF AccountInv, CommittedAccounted
  <2>3. CASE committed'[p] # committed[p]
    <3>1. PICK m \in Members : CommitMarks(m)
      BY <2>3, CommitsOnly
    <3>2. /\ committed'[p] = marked[m][p] /\ claim[m][p] # "none"
          /\ marked[m][p] <= pos[m][p] /\ marked[m][p] \in Int /\ pos[m][p] \in Nat
      BY <2>3, <3>1, BoundsAssumption
      DEF CommitMarks, TypeInv, TypeOK, SessionInv, MarksBehindClaim, Offset, NoOffset
    <3>3. o < pos[m][p]
      BY <1>2, <2>1, <3>2
    <3>4. Accounted(msg)
      BY <2>1, <3>2, <3>3 DEF AccountInv, ClaimsAccounted
    <3> QED BY <3>4, AccountedStays
  <2> QED BY <2>2, <2>3
<1> QED BY <1>1, <1>2 DEF AccountInv, ClaimsAccounted, CommittedAccounted

\* Below the committed offset no message vanishes without a trace: Kafka is told
\* of a message only after MessageQueue has it.
THEOREM CommittedNeverVanish == Spec => []CommittedAccounted
<1>1. AccountInv => CommittedAccounted
  BY DEF AccountInv
<1> QED
  BY <1>1, TypeInvInit, TypeInvNext, SessionInvInit, SessionInvNext, AccountInvInit,
     AccountInvNext, PTL DEF Spec
=============================================================================
