---------------------- MODULE PartitionConsumerProofs ----------------------
(***************************************************************************)
(* Theorems about PartitionConsumer, for every value of its constants: no  *)
(* message is stored twice, none disappears between the goroutines, and    *)
(* the consumer implements MessageFate.                                    *)
(***************************************************************************)
EXTENDS PartitionConsumer, TLAPS

-----------------------------------------------------------------------------
(***************************************************************************)
(* Type correctness, with the message a busy reader or worker has.         *)
(***************************************************************************)

Busy ==
  /\ pos <= end
  /\ reader = "send" <=> hand # None
  /\ hand # None => hand = pos - 1
  /\ \A w \in Workers : wpc[w] \in {"store", "check"} => wmsg[w] \in Msg
  /\ proc = "down" =>
       /\ listener = "wait" /\ reader = "select" /\ queue = << >>
       /\ \A w \in Workers : wpc[w] = "range"

TypeInv == TypeOK /\ Busy

LEMMA TypeInvInit == Init => TypeInv
  BY CapAssumption, BoundsAssumption DEF Init, TypeInv, TypeOK, Busy, Msg, None, Result

LEMMA HoldsTyped == TypeInv => Holds \subseteq Msg
  BY DEF TypeInv, TypeOK, Busy, Holds

LEMMA TypeInvNext == TypeInv /\ [Next]_vars => TypeInv'
<1> SUFFICES ASSUME TypeInv, [Next]_vars PROVE TypeInv'
  OBVIOUS
<1> USE CapAssumption, BoundsAssumption
    DEF TypeInv, TypeOK, Busy, Msg, None, Result, Cancelled, kafka, process, reading,
        working, history
<1>1. CASE Produce
  BY <1>1 DEF Produce
<1>2. CASE ChannelsClose
  BY <1>2 DEF ChannelsClose, Fault
<1>3. CASE Interrupt
  BY <1>3 DEF Interrupt, Fault
<1>4. CASE CloseDone
  BY <1>4 DEF CloseDone
<1>5. CASE Receive
  BY <1>5 DEF Receive
<1>6. CASE Send
  BY <1>6 DEF Send
<1>7. CASE ReaderReturn
  BY <1>7 DEF ReaderReturn
<1>8. CASE ReaderDone
  BY <1>8 DEF ReaderDone
<1>9. ASSUME NEW w \in Workers, WorkerTake(w) PROVE TypeInv'
  <2>1. queue # << >> /\ Head(queue) \in Msg /\ queue' = Tail(queue)
    BY <1>9 DEF WorkerTake
  <2>2. queue' \in Seq(Msg) /\ Len(queue') <= QueueCap
    BY <2>1
  <2>3. wmsg' = [wmsg EXCEPT ![w] = Head(queue)]
        /\ (wpc' = [wpc EXCEPT ![w] = "store"] \/ wpc' = [wpc EXCEPT ![w] = "check"])
    BY <1>9 DEF WorkerTake
  <2>4. lost' \subseteq Msg /\ own' \in [Workers -> Result] /\ err' \in Result
    BY <1>9, <2>1 DEF WorkerTake
  <2>5. UNCHANGED << end, pos, channels, proc, listener, reader, hand, rows, missed, reported, faults >>
    BY <1>9 DEF WorkerTake
  <2>6. wpc' \in [Workers -> {"range", "store", "check", "stopped"}]
    BY <2>3
  <2>7. wmsg' \in [Workers -> Msg \cup {None}] /\ wmsg'[w] \in Msg
    BY <2>1, <2>3
  <2>8. ASSUME NEW v \in Workers, wpc'[v] \in {"store", "check"} PROVE wmsg'[v] \in Msg
    <3>1. v # w => wpc'[v] = wpc[v] /\ wmsg'[v] = wmsg[v]
      BY <2>3
    <3> QED BY <3>1, <2>7, <2>8
  <2>9. proc = "up"
    BY <2>1
  <2>10. TypeOK'
    BY <2>2, <2>4, <2>5, <2>6, <2>7
  <2>11. Busy'
    BY <2>5, <2>8, <2>9
  <2> QED BY <2>10, <2>11
<1>10. ASSUME NEW w \in Workers, WorkerStore(w) PROVE TypeInv'
  BY <1>10 DEF WorkerStore
<1>11. ASSUME NEW w \in Workers, WorkerStoreFails(w) PROVE TypeInv'
  <2>1. lost' \subseteq Msg
    BY <1>11 DEF WorkerStoreFails
  <2>2. faults' \in 0 .. MaxFaults
    BY <1>11 DEF WorkerStoreFails, Fault
  <2>3. TypeOK'
    BY <1>11, <2>1, <2>2 DEF WorkerStoreFails
  <2>4. Busy'
    BY <1>11 DEF WorkerStoreFails
  <2> QED BY <2>3, <2>4
<1>12. ASSUME NEW w \in Workers, WorkerCheck(w) PROVE TypeInv'
  <2>1. reported' \subseteq Msg
    BY <1>12 DEF WorkerCheck
  <2> QED BY <1>12, <2>1 DEF WorkerCheck
<1>13. ASSUME NEW w \in Workers, WorkerReturn(w) PROVE TypeInv'
  <2>1. TypeOK'
    BY <1>13 DEF WorkerReturn
  <2>2. Busy'
    BY <1>13 DEF WorkerReturn, QueueClosed
  <2> QED BY <2>1, <2>2
<1>14. CASE ConsumeReturn
  <2>1. lost' \subseteq Msg
    BY <1>14, HoldsTyped DEF ConsumeReturn, Vanish
  <2> QED BY <1>14, <2>1 DEF ConsumeReturn, Vanish
<1>15. CASE Crash
  <2>1. lost' \subseteq Msg
    BY <1>15, HoldsTyped DEF Crash, Vanish
  <2>2. faults' \in 0 .. MaxFaults /\ UNCHANGED << kafka, rows, missed, reported >>
    BY <1>15 DEF Crash, Fault
  <2>3. /\ proc' = "down" /\ listener' = "wait" /\ reader' = "select" /\ hand' = None /\ err' = "nil"
        /\ wpc' = [w \in Workers |-> "range"] /\ wmsg' = [w \in Workers |-> None]
        /\ own' = [w \in Workers |-> "nil"] /\ queue' = << >>
    BY <1>15 DEF Crash, Vanish
  <2>4. queue' \in Seq(Msg) /\ Len(queue') <= QueueCap
    BY <1>15 DEF Crash, Vanish
  <2>5. TypeOK'
    BY <2>1, <2>2, <2>3, <2>4
  <2>6. Busy'
    BY <2>2, <2>3
  <2> QED BY <2>5, <2>6
<1>16. CASE Restart
  <2>1. missed' \subseteq Msg /\ pos' = end
    BY <1>16 DEF Restart
  <2>2. /\ channels' = "open" /\ proc' = "up"
        /\ UNCHANGED << end, listener, reader, hand, queue, wpc, wmsg, own, err, rows, lost,
                        reported, faults >>
    BY <1>16 DEF Restart
  <2>3. TypeOK'
    BY <2>1, <2>2
  <2>4. hand' = None /\ reader' = "select"
    BY <1>16, <2>2 DEF Restart
  <2>5. \A w \in Workers : wpc'[w] = "range"
    BY <1>16, <2>2 DEF Restart
  <2>6. Busy'
    <3>1. pos' <= end' /\ reader' # "send" /\ hand' = None /\ proc' # "down"
      BY <2>1, <2>2, <2>4
    <3> QED BY <3>1, <2>5
  <2> QED BY <2>3, <2>6
<1>17. CASE UNCHANGED vars
  BY <1>17 DEF vars
<1> QED
  BY <1>1, <1>2, <1>3, <1>4, <1>5, <1>6, <1>7, <1>8, <1>9, <1>10, <1>11, <1>12, <1>13, <1>14, <1>15, <1>16, <1>17 DEF Next, ReaderStep, WorkerStep

\* Every variable keeps its type and messagesQueue stays within its capacity.
THEOREM TypeCorrect == Spec => []TypeOK
<1>1. TypeInv => TypeOK
  BY DEF TypeInv
<1> QED BY <1>1, TypeInvInit, TypeInvNext, PTL DEF Spec

-----------------------------------------------------------------------------
(***************************************************************************)
(* At most once. A message that is held is held in one place, and it has   *)
(* no row and is neither lost nor missed; nor is one the partition         *)
(* consumer has yet to yield.                                              *)
(***************************************************************************)

Fresh(msg) == rows[msg] = 0 /\ msg \notin lost /\ msg \notin missed

RowsOnce    == \A msg \in Msg : rows[msg] <= 1
AheadFresh  == \A msg \in Msg : msg >= pos => Fresh(msg)
HandFresh   == hand # None => Fresh(hand)
QueueFresh  == \A i \in 1 .. Len(queue) :
                 queue[i] < pos /\ queue[i] # hand /\ Fresh(queue[i])
QueueApart  == \A i, j \in 1 .. Len(queue) : queue[i] = queue[j] => i = j
WorkerFresh == \A w \in Workers : wpc[w] = "store" =>
                 /\ wmsg[w] < pos /\ wmsg[w] # hand /\ Fresh(wmsg[w])
                 /\ \A i \in 1 .. Len(queue) : queue[i] # wmsg[w]
WorkerApart == \A v, w \in Workers :
                 wpc[v] = "store" /\ wpc[w] = "store" /\ wmsg[v] = wmsg[w] => v = w

OnceInv == RowsOnce /\ AheadFresh /\ HandFresh /\ QueueFresh /\ QueueApart
             /\ WorkerFresh /\ WorkerApart

LEMMA OnceInvInit == Init => OnceInv
  BY BoundsAssumption DEF Init, OnceInv, RowsOnce, AheadFresh, HandFresh, QueueFresh, QueueApart,
     WorkerFresh, WorkerApart, Fresh, Msg

LEMMA TailFacts ==
  ASSUME NEW S, NEW seq \in Seq(S), seq # << >>
  PROVE  /\ Len(seq) \in Nat /\ Len(seq) > 0 /\ Head(seq) = seq[1] /\ Head(seq) \in S
         /\ Len(Tail(seq)) = Len(seq) - 1
         /\ \A i \in 1 .. Len(Tail(seq)) :
              Tail(seq)[i] = seq[i + 1] /\ i + 1 \in 1 .. Len(seq) /\ i + 1 # 1
<1> QED OBVIOUS

LEMMA AppendFacts ==
  ASSUME NEW S, NEW seq \in Seq(S), NEW e \in S
  PROVE  /\ Len(seq) \in Nat /\ Len(Append(seq, e)) = Len(seq) + 1
         /\ Append(seq, e)[Len(seq) + 1] = e
         /\ \A i \in 1 .. Len(seq) : Append(seq, e)[i] = seq[i]
<1> QED OBVIOUS

\* What the types give, for steps that need no more of them.
Typed ==
  /\ pos \in Int /\ hand \in Int /\ queue \in Seq(Msg) /\ Msg \subseteq Int
  /\ \A i \in 1 .. Len(queue) : queue[i] \in Msg
  /\ Len(queue) \in Nat
  /\ wpc \in [Workers -> {"range", "store", "check", "stopped"}]
  /\ wmsg \in [Workers -> Msg \cup {None}]
  /\ \A w \in Workers : wpc[w] = "store" => wmsg[w] \in Msg
  /\ rows \in [Msg -> Nat]

LEMMA TypedInv == TypeInv => Typed
  BY BoundsAssumption DEF TypeInv, TypeOK, Busy, Typed, Msg, None

\* Fresh after the step, of a message named before or after it.
StillFresh(msg) == rows'[msg] = 0 /\ msg \notin lost' /\ msg \notin missed'

LEMMA OnceReceive == TypeInv /\ OnceInv /\ Receive => OnceInv'
<1> SUFFICES ASSUME TypeInv, OnceInv, Receive PROVE OnceInv'
  OBVIOUS
<1>1. hand' = pos /\ pos' = pos + 1 /\ UNCHANGED << queue, wpc, wmsg, rows, lost, missed >>
  BY DEF Receive, process, working, history
<1>2. Typed
  BY TypedInv
<1>3. pos \in Msg
  BY BoundsAssumption DEF Receive, TypeInv, TypeOK, Msg
<1> USE DEF Fresh, StillFresh, Typed
<1>4. Fresh(pos)
  BY <1>2, <1>3 DEF OnceInv, AheadFresh
<1>5. QueueFresh' /\ QueueApart' /\ HandFresh'
  <2>1. \A i \in 1 .. Len(queue) : queue[i] \in Int /\ queue[i] < pos /\ Fresh(queue[i])
    BY <1>2 DEF OnceInv, QueueFresh
  <2>2. \A i \in 1 .. Len(queue) : queue[i] < pos + 1 /\ queue[i] # pos
    BY <2>1, <1>2
  <2> QED BY <1>1, <1>4, <2>1, <2>2 DEF OnceInv, QueueFresh, QueueApart, HandFresh
<1>6. WorkerFresh' /\ WorkerApart'
  <2>1. \A w \in Workers : wpc[w] = "store" => wmsg[w] \in Int /\ wmsg[w] < pos
    BY <1>2 DEF OnceInv, WorkerFresh
  <2>2. \A w \in Workers : wpc[w] = "store" => wmsg[w] < pos + 1 /\ wmsg[w] # pos
    BY <2>1, <1>2
  <2> QED BY <1>1, <2>2 DEF OnceInv, WorkerFresh, WorkerApart
<1>7. RowsOnce' /\ AheadFresh'
  BY <1>1, <1>2 DEF OnceInv, RowsOnce, AheadFresh
<1> QED BY <1>5, <1>6, <1>7 DEF OnceInv

LEMMA OnceSend == TypeInv /\ OnceInv /\ Send => OnceInv'
<1> SUFFICES ASSUME TypeInv, OnceInv, Send PROVE OnceInv'
  OBVIOUS
<1>1. /\ hand \in Msg /\ hand = pos - 1 /\ hand' = None /\ None \notin Msg
      /\ queue' = Append(queue, hand) /\ UNCHANGED << pos, wpc, wmsg, rows, lost, missed >>
  BY BoundsAssumption DEF Send, TypeInv, TypeOK, Busy, Msg, None, kafka, process, working, history
<1>2. Typed
  BY TypedInv
<1>3. /\ Len(queue') = Len(queue) + 1 /\ queue'[Len(queue) + 1] = hand
      /\ \A i \in 1 .. Len(queue) : queue'[i] = queue[i]
  BY <1>1, <1>2, AppendFacts DEF Typed
<1>4. \A i \in 1 .. Len(queue') : i = Len(queue) + 1 \/ i \in 1 .. Len(queue)
  BY <1>2, <1>3 DEF Typed
<1> USE DEF Fresh, StillFresh, Typed
<1>5. QueueFresh'
  <2> SUFFICES ASSUME NEW i \in 1 .. Len(queue')
               PROVE  queue'[i] < pos' /\ queue'[i] # hand' /\ StillFresh(queue'[i])
    BY DEF QueueFresh
  <2>1. CASE i = Len(queue) + 1
    <3>1. hand < pos /\ hand # None /\ Fresh(hand)
      BY <1>1, <1>2 DEF OnceInv, HandFresh
    <3> QED BY <1>1, <1>3, <2>1, <3>1
  <2>2. CASE i \in 1 .. Len(queue)
    <3>1. queue[i] < pos /\ Fresh(queue[i]) /\ queue[i] # None
      BY <1>1, <1>2, <2>2 DEF OnceInv, QueueFresh
    <3> QED BY <1>1, <1>3, <2>2, <3>1
  <2> QED BY <1>4, <2>1, <2>2
<1>6. QueueApart'
  <2> SUFFICES ASSUME NEW i \in 1 .. Len(queue'), NEW j \in 1 .. Len(queue'), queue'[i] = queue'[j]
               PROVE  i = j
    BY DEF QueueApart
  <2>1. CASE i = Len(queue) + 1 /\ j = Len(queue) + 1
    BY <2>1
  <2>2. CASE i \in 1 .. Len(queue) /\ j \in 1 .. Len(queue)
    BY <1>3, <2>2 DEF OnceInv, QueueApart
  <2>3. \A k \in 1 .. Len(queue) : queue'[k] # queue'[Len(queue) + 1]
    BY <1>3 DEF OnceInv, QueueFresh
  <2> QED BY <1>4, <2>1, <2>2, <2>3
<1>7. WorkerFresh'
  <2> SUFFICES ASSUME NEW w \in Workers, wpc[w] = "store"
               PROVE  /\ wmsg[w] < pos /\ wmsg[w] # None /\ Fresh(wmsg[w])
                      /\ \A i \in 1 .. Len(queue') : queue'[i] # wmsg[w]
    BY <1>1 DEF WorkerFresh
  <2>1. wmsg[w] < pos /\ wmsg[w] # hand /\ Fresh(wmsg[w]) /\ wmsg[w] # None
        /\ \A i \in 1 .. Len(queue) : queue[i] # wmsg[w]
    BY <1>1, <1>2 DEF OnceInv, WorkerFresh
  <2> QED BY <2>1, <1>3, <1>4
<1>8. WorkerApart' /\ RowsOnce' /\ AheadFresh' /\ HandFresh'
  BY <1>1 DEF OnceInv, WorkerApart, RowsOnce, AheadFresh, HandFresh
<1> QED BY <1>5, <1>6, <1>7, <1>8 DEF OnceInv

LEMMA OnceTake ==
  ASSUME TypeInv, OnceInv, NEW w \in Workers, WorkerTake(w) PROVE OnceInv'
<1>1. Typed
  BY TypedInv
<1>2. /\ queue # << >> /\ queue' = Tail(queue) /\ wpc[w] = "range"
      /\ wmsg' = [wmsg EXCEPT ![w] = Head(queue)] /\ UNCHANGED << pos, hand, rows, missed >>
  BY DEF WorkerTake, kafka, reading, history
<1>3. \A v \in Workers : v # w => wpc'[v] = wpc[v] /\ wmsg'[v] = wmsg[v]
  BY <1>1 DEF WorkerTake, Typed
<1>4. (lost' = lost /\ wpc'[w] = "store") \/ (lost' = lost \cup {Head(queue)} /\ wpc'[w] = "check")
  BY <1>1 DEF WorkerTake, Typed
<1>5. /\ Len(queue) > 0 /\ Head(queue) = queue[1] /\ Head(queue) \in Msg
      /\ Len(queue') = Len(queue) - 1
      /\ \A i \in 1 .. Len(queue') :
           queue'[i] = queue[i + 1] /\ i + 1 \in 1 .. Len(queue) /\ i + 1 # 1
  BY <1>1, <1>2, TailFacts DEF Typed
<1>6. 1 \in 1 .. Len(queue) /\ wmsg'[w] = queue[1]
  BY <1>1, <1>2, <1>5 DEF Typed
<1>7. \A i \in 1 .. Len(queue') : queue'[i] # queue[1]
  BY <1>5, <1>6 DEF OnceInv, QueueApart
<1>8. \A msg : Fresh(msg) /\ msg # queue[1] => StillFresh(msg)
  BY <1>2, <1>4, <1>5 DEF Fresh, StillFresh
<1>9. QueueFresh'
  <2> SUFFICES ASSUME NEW i \in 1 .. Len(queue')
               PROVE  queue'[i] < pos /\ queue'[i] # hand /\ StillFresh(queue'[i])
    BY <1>2 DEF QueueFresh, Fresh, StillFresh
  <2>1. queue[i + 1] < pos /\ queue[i + 1] # hand /\ Fresh(queue[i + 1])
    BY <1>5 DEF OnceInv, QueueFresh
  <2>2. queue'[i] = queue[i + 1] /\ queue[i + 1] # queue[1]
    BY <1>5, <1>7
  <2>3. StillFresh(queue[i + 1])
    BY <2>1, <2>2, <1>8
  <2> QED BY <2>1, <2>2, <2>3
<1>10. QueueApart'
  <2> SUFFICES ASSUME NEW i \in 1 .. Len(queue'), NEW j \in 1 .. Len(queue'), queue'[i] = queue'[j]
               PROVE  i = j
    BY DEF QueueApart
  <2>1. i + 1 = j + 1
    BY <1>5 DEF OnceInv, QueueApart
  <2> QED BY <2>1
<1>11. RowsOnce' /\ AheadFresh' /\ HandFresh'
  <2>1. queue[1] < pos /\ queue[1] # hand /\ queue[1] \in Msg
    BY <1>1, <1>6 DEF OnceInv, QueueFresh, Typed
  <2>2. AheadFresh'
    BY <2>1, <1>1, <1>2, <1>4, <1>5 DEF OnceInv, AheadFresh, Fresh, Typed
  <2> QED BY <2>1, <2>2, <1>2, <1>4, <1>5 DEF OnceInv, RowsOnce, HandFresh, Fresh
<1>12. WorkerFresh'
  <2> SUFFICES ASSUME NEW v \in Workers, wpc'[v] = "store"
               PROVE  /\ wmsg'[v] < pos /\ wmsg'[v] # hand /\ StillFresh(wmsg'[v])
                      /\ \A i \in 1 .. Len(queue') : queue'[i] # wmsg'[v]
    BY <1>2 DEF WorkerFresh, Fresh, StillFresh
  <2>1. CASE v = w
    <3>1. lost' = lost /\ UNCHANGED << rows, missed >>
      BY <2>1, <1>2, <1>4
    <3>2. queue[1] < pos /\ queue[1] # hand /\ Fresh(queue[1])
      BY <1>6 DEF OnceInv, QueueFresh
    <3> QED BY <2>1, <3>1, <3>2, <1>6, <1>7 DEF Fresh, StillFresh
  <2>2. CASE v # w
    <3>1. /\ wmsg[v] < pos /\ wmsg[v] # hand /\ Fresh(wmsg[v])
          /\ \A i \in 1 .. Len(queue) : queue[i] # wmsg[v]
      BY <2>2, <1>3 DEF OnceInv, WorkerFresh
    <3>2. wmsg'[v] = wmsg[v] /\ wmsg[v] # queue[1]
      BY <2>2, <3>1, <1>3, <1>6
    <3>3. \A i \in 1 .. Len(queue') : queue'[i] # wmsg[v]
      BY <3>1, <1>5
    <3> QED BY <3>1, <3>2, <3>3, <1>8
  <2> QED BY <2>1, <2>2
<1>13. WorkerApart'
  <2> SUFFICES ASSUME NEW u \in Workers, NEW v \in Workers, wpc'[u] = "store", wpc'[v] = "store",
                      wmsg'[u] = wmsg'[v]
               PROVE  u = v
    BY DEF WorkerApart
  <2>1. \A x \in Workers : x # w /\ wpc[x] = "store" => wmsg[x] # queue[1]
    BY <1>6 DEF OnceInv, WorkerFresh
  <2> QED BY <2>1, <1>3, <1>6 DEF OnceInv, WorkerApart
<1> QED BY <1>9, <1>10, <1>11, <1>12, <1>13 DEF OnceInv

LEMMA OnceStore ==
  ASSUME TypeInv, OnceInv, NEW w \in Workers, WorkerStore(w) PROVE OnceInv'
<1>1. Typed
  BY TypedInv
<1>2. /\ wpc[w] = "store" /\ wmsg[w] \in Msg /\ wpc' = [wpc EXCEPT ![w] = "check"]
      /\ rows' = [rows EXCEPT ![wmsg[w]] = @ + 1]
      /\ UNCHANGED << pos, hand, queue, wmsg, lost, missed >>
  BY <1>1 DEF WorkerStore, Typed, kafka, reading, history
<1>3. \A msg \in Msg : msg # wmsg[w] => rows'[msg] = rows[msg]
  BY <1>1, <1>2 DEF Typed
<1>4. wmsg[w] < pos /\ wmsg[w] # hand /\ rows[wmsg[w]] = 0
      /\ \A i \in 1 .. Len(queue) : queue[i] # wmsg[w]
  BY <1>2 DEF OnceInv, WorkerFresh, Fresh
<1>5. RowsOnce'
  BY <1>1, <1>2, <1>3, <1>4 DEF OnceInv, RowsOnce, Typed
<1>6. AheadFresh'
  BY <1>1, <1>2, <1>3, <1>4 DEF OnceInv, AheadFresh, Fresh, Typed
<1>7. HandFresh'
  <2>1. hand # None => hand \in Msg
    BY DEF TypeInv, TypeOK
  <2> QED BY <2>1, <1>2, <1>3, <1>4 DEF OnceInv, HandFresh, Fresh
<1>8. QueueFresh' /\ QueueApart'
  BY <1>1, <1>2, <1>3, <1>4 DEF OnceInv, QueueFresh, QueueApart, Fresh, Typed
<1>9. \A v \in Workers : wpc'[v] = "store" => v # w /\ wpc[v] = "store" /\ wmsg[v] \in Msg
  BY <1>1, <1>2 DEF Typed
<1>10. WorkerFresh' /\ WorkerApart'
  BY <1>2, <1>3, <1>9 DEF OnceInv, WorkerFresh, WorkerApart, Fresh
<1> QED BY <1>5, <1>6, <1>7, <1>8, <1>10 DEF OnceInv

LEMMA OnceInvNext == TypeInv /\ OnceInv /\ [Next]_vars => OnceInv'
<1> SUFFICES ASSUME TypeInv, OnceInv, [Next]_vars PROVE OnceInv'
  OBVIOUS
<1> USE BoundsAssumption
    DEF TypeInv, TypeOK, Busy, Msg, None, OnceInv, RowsOnce, AheadFresh, HandFresh, QueueFresh,
        QueueApart, WorkerFresh, WorkerApart, Fresh, kafka, process, reading, working, history
<1>1. CASE Produce
  BY <1>1 DEF Produce
<1>2. CASE ChannelsClose
  BY <1>2 DEF ChannelsClose, Fault
<1>3. CASE Interrupt
  BY <1>3 DEF Interrupt, Fault
<1>4. CASE CloseDone
  BY <1>4 DEF CloseDone
<1>5. CASE Receive
  BY <1>5, OnceReceive
<1>6. CASE Send
  BY <1>6, OnceSend
<1>7. CASE ReaderReturn
  BY <1>7 DEF ReaderReturn
<1>8. CASE ReaderDone
  BY <1>8 DEF ReaderDone
<1>9. ASSUME NEW w \in Workers, WorkerTake(w) PROVE OnceInv'
  BY <1>9, OnceTake
<1>10. ASSUME NEW w \in Workers, WorkerStore(w) PROVE OnceInv'
  BY <1>10, OnceStore
<1>11. ASSUME NEW w \in Workers, WorkerStoreFails(w) PROVE OnceInv'
  BY <1>11 DEF WorkerStoreFails, Fault
<1>12. ASSUME NEW w \in Workers, WorkerCheck(w) PROVE OnceInv'
  BY <1>12 DEF WorkerCheck
<1>13. ASSUME NEW w \in Workers, WorkerReturn(w) PROVE OnceInv'
  BY <1>13 DEF WorkerReturn
<1>14. CASE ConsumeReturn
  BY <1>14 DEF ConsumeReturn, Vanish, Holds
<1>15. CASE Crash
  BY <1>15 DEF Crash, Fault, Vanish, Holds
<1>16. CASE Restart
  BY <1>16 DEF Restart
<1>17. CASE UNCHANGED vars
  BY <1>17 DEF vars
<1> QED
  BY <1>1, <1>2, <1>3, <1>4, <1>5, <1>6, <1>7, <1>8, <1>9, <1>10, <1>11, <1>12, <1>13, <1>14, <1>15, <1>16, <1>17 DEF Next, ReaderStep, WorkerStep

\* However often the process dies and starts again, no message gets two rows.
THEOREM AtMostOnce == Spec => []StoredAtMostOnce
<1>1. OnceInv => StoredAtMostOnce
  BY DEF OnceInv, RowsOnce, StoredAtMostOnce
<1> QED BY <1>1, TypeInvInit, TypeInvNext, OnceInvInit, OnceInvNext, PTL DEF Spec

-----------------------------------------------------------------------------
(***************************************************************************)
(* Nothing is left behind. A worker returns only from a closed queue that  *)
(* is empty, and a closed queue gets nothing more.                         *)
(***************************************************************************)

StoppedDrained == \A w \in Workers : wpc[w] = "stopped" => QueueClosed /\ queue = << >>

LEMMA StoppedDrainedNext == TypeInv /\ StoppedDrained /\ [Next]_vars => StoppedDrained'
<1> SUFFICES ASSUME TypeInv, StoppedDrained, [Next]_vars PROVE StoppedDrained'
  OBVIOUS
<1> USE DEF TypeInv, TypeOK, StoppedDrained, QueueClosed, kafka, process, reading, working, history
<1>1. CASE Produce \/ ChannelsClose \/ Interrupt \/ CloseDone
  BY <1>1 DEF Produce, ChannelsClose, Interrupt, CloseDone
<1>2. CASE Receive \/ ReaderStep
  BY <1>2 DEF Receive, ReaderStep, Send, ReaderReturn, ReaderDone
<1>3. ASSUME NEW w \in Workers, WorkerStep(w) PROVE StoppedDrained'
  BY <1>3 DEF WorkerStep, WorkerTake, WorkerStore, WorkerStoreFails, WorkerCheck, WorkerReturn
<1>4. CASE ConsumeReturn \/ Crash
  BY <1>4 DEF ConsumeReturn, Crash, Vanish
<1>5. CASE Restart
  BY <1>5 DEF Restart
<1>6. CASE UNCHANGED vars
  BY <1>6 DEF vars
<1> QED BY <1>1, <1>2, <1>3, <1>4, <1>5, <1>6 DEF Next

\* Consume returns with an empty queue and empty hands.
THEOREM Drained == Spec => []DrainedOnReturn
<1>1. Init => StoppedDrained
  BY DEF Init, StoppedDrained
<1>2. TypeInv /\ StoppedDrained => DrainedOnReturn
  <2> SUFFICES ASSUME TypeInv, StoppedDrained, AllDone PROVE Holds = {}
    BY DEF DrainedOnReturn
  <2>1. queue = << >>
    BY WorkerAssumption DEF AllDone, StoppedDrained
  <2>2. hand = None
    BY DEF AllDone, TypeInv, Busy
  <2>3. \A w \in Workers : wpc[w] # "store"
    BY DEF AllDone
  <2> QED BY <2>1, <2>2, <2>3 DEF Holds
<1> QED BY <1>1, <1>2, TypeInvInit, TypeInvNext, StoppedDrainedNext, PTL DEF Spec

-----------------------------------------------------------------------------
(***************************************************************************)
(* Where a message is held: in the queue, in the reader's hand, or in a    *)
(* worker's.                                                               *)
(***************************************************************************)

Queued(msg)  == \E i \in 1 .. Len(queue) : queue[i] = msg
Storing(msg) == \E w \in Workers : wpc[w] = "store" /\ wmsg[w] = msg

LEMMA HoldsMeans ==
  \A msg \in Msg : msg \in Holds <=> Queued(msg) \/ hand = msg \/ Storing(msg)
  BY BoundsAssumption DEF Holds, Queued, Storing, Msg, None

\* How the steps that move a message change Queued and Storing.
LEMMA QueuedSend ==
  ASSUME TypeInv, Send
  PROVE  \A msg \in Msg : Queued(msg)' <=> Queued(msg) \/ msg = hand
<1>1. queue \in Seq(Msg) /\ hand \in Msg /\ queue' = Append(queue, hand)
  BY DEF TypeInv, TypeOK, Busy, Send
<1>2. /\ Len(queue) \in Nat /\ Len(queue') = Len(queue) + 1 /\ queue'[Len(queue) + 1] = hand
      /\ \A i \in 1 .. Len(queue) : queue'[i] = queue[i]
  BY <1>1, AppendFacts
<1>3. \A i \in 1 .. Len(queue') : i = Len(queue) + 1 \/ i \in 1 .. Len(queue)
  BY <1>2
<1>4. Len(queue) + 1 \in 1 .. Len(queue') /\ 1 .. Len(queue) \subseteq 1 .. Len(queue')
  BY <1>2
<1> QED BY <1>2, <1>3, <1>4 DEF Queued

LEMMA QueuedTake ==
  ASSUME TypeInv, OnceInv, NEW w \in Workers, WorkerTake(w)
  PROVE  /\ Head(queue) \in Msg /\ Queued(Head(queue))
         /\ \A msg \in Msg : Queued(msg)' <=> Queued(msg) /\ msg # Head(queue)
<1>1. queue \in Seq(Msg) /\ queue # << >> /\ queue' = Tail(queue)
  BY DEF TypeInv, TypeOK, WorkerTake
<1>2. /\ Len(queue) \in Nat /\ Len(queue) > 0 /\ Head(queue) = queue[1] /\ Head(queue) \in Msg
      /\ Len(queue') = Len(queue) - 1
      /\ \A i \in 1 .. Len(queue') :
           queue'[i] = queue[i + 1] /\ i + 1 \in 1 .. Len(queue) /\ i + 1 # 1
  BY <1>1, TailFacts
<1>3. \A j \in 1 .. Len(queue) : j # 1 => j - 1 \in 1 .. Len(queue') /\ queue'[j - 1] = queue[j]
  BY <1>2
<1>4. \A j \in 1 .. Len(queue) : queue[j] = queue[1] => j = 1
  BY <1>2 DEF OnceInv, QueueApart
<1>5. Queued(Head(queue))
  BY <1>2 DEF Queued
<1>6. ASSUME NEW msg \in Msg, Queued(msg)' PROVE Queued(msg) /\ msg # Head(queue)
  <2>1. PICK i \in 1 .. Len(queue') : queue'[i] = msg
    BY <1>6 DEF Queued
  <2> QED BY <2>1, <1>2, <1>4 DEF Queued
<1>7. ASSUME NEW msg \in Msg, Queued(msg), msg # Head(queue) PROVE Queued(msg)'
  <2>1. PICK j \in 1 .. Len(queue) : queue[j] = msg
    BY <1>7 DEF Queued
  <2>2. j # 1
    BY <2>1, <1>2, <1>7
  <2> QED BY <2>1, <2>2, <1>3 DEF Queued
<1> QED BY <1>2, <1>5, <1>6, <1>7

Held(msg) == Queued(msg) \/ hand = msg \/ Storing(msg)

LEMMA HeldSend ==
  ASSUME TypeInv, OnceInv, Send
  PROVE  \A msg \in Msg : Held(msg)' <=> Held(msg)
<1>1. hand' = None /\ None \notin Msg /\ UNCHANGED << wpc, wmsg >>
  BY BoundsAssumption DEF Send, working, None, Msg
<1>2. \A msg \in Msg : Storing(msg)' <=> Storing(msg)
  BY <1>1 DEF Storing
<1> QED BY <1>1, <1>2, QueuedSend DEF Held

LEMMA HeldReceive ==
  ASSUME TypeInv, Receive
  PROVE  /\ pos \in Msg /\ \A msg \in Msg : Held(msg)' <=> Held(msg) \/ msg = pos
<1>1. /\ hand' = pos /\ hand = None /\ None \notin Msg /\ pos \in Msg
      /\ UNCHANGED << queue, wpc, wmsg >>
  BY BoundsAssumption DEF Receive, working, None, Msg, TypeInv, TypeOK, Busy
<1>2. \A msg \in Msg : (Queued(msg)' <=> Queued(msg)) /\ (Storing(msg)' <=> Storing(msg))
  BY <1>1 DEF Queued, Storing
<1> QED BY <1>1, <1>2 DEF Held

\* A worker that takes a message holds it, or after an interrupt lets go of it.
LEMMA HeldTake ==
  ASSUME TypeInv, OnceInv, NEW w \in Workers, WorkerTake(w), NEW msg \in Msg, msg = Head(queue)
  PROVE  /\ Held(msg)
         /\ \A other \in Msg \ {msg} : Held(other)' <=> Held(other)
         /\ \/ lost' = lost /\ Held(msg)'
            \/ lost' = lost \cup {msg} /\ ~Held(msg)'
<1>1. Queued(msg) /\ \A other \in Msg : Queued(other)' <=> Queued(other) /\ other # msg
  BY QueuedTake
<1>2. /\ UNCHANGED hand /\ wmsg' = [wmsg EXCEPT ![w] = msg] /\ wpc[w] = "range"
      /\ wpc \in [Workers -> {"range", "store", "check", "stopped"}]
      /\ wmsg \in [Workers -> Msg \cup {None}]
  BY DEF WorkerTake, reading, TypeInv, TypeOK
<1>3. \/ lost' = lost /\ wpc' = [wpc EXCEPT ![w] = "store"]
      \/ lost' = lost \cup {msg} /\ wpc' = [wpc EXCEPT ![w] = "check"]
  BY DEF WorkerTake
<1>4. hand # msg /\ ~Storing(msg)
  BY <1>1 DEF OnceInv, QueueFresh, WorkerFresh, Queued, Storing
<1>5. \A other \in Msg \ {msg} : Storing(other)' <=> Storing(other)
  BY <1>2, <1>3 DEF Storing
<1>6. \/ lost' = lost /\ Storing(msg)'
      \/ lost' = lost \cup {msg} /\ ~Storing(msg)'
  <2>1. CASE wpc' = [wpc EXCEPT ![w] = "store"]
    BY <1>2, <1>3, <2>1 DEF Storing
  <2>2. CASE wpc' = [wpc EXCEPT ![w] = "check"]
    BY <1>2, <1>3, <1>4, <2>2 DEF Storing
  <2> QED BY <1>3, <2>1, <2>2
<1> QED BY <1>1, <1>2, <1>4, <1>5, <1>6 DEF Held

\* A worker whose ProcessMessageFunc returns holds its message no more.
LEMMA HeldReturned ==
  ASSUME TypeInv, OnceInv, NEW w \in Workers, WorkerStore(w) \/ WorkerStoreFails(w),
         NEW msg \in Msg, msg = wmsg[w]
  PROVE  /\ Held(msg) /\ ~Held(msg)'
         /\ \A other \in Msg \ {msg} : Held(other)' <=> Held(other)
<1>1. /\ wpc[w] = "store" /\ wpc' = [wpc EXCEPT ![w] = "check"]
      /\ UNCHANGED << hand, queue, wmsg >>
      /\ wpc \in [Workers -> {"range", "store", "check", "stopped"}]
  BY DEF WorkerStore, WorkerStoreFails, reading, TypeInv, TypeOK
<1>2. hand # msg /\ ~Queued(msg)
  BY <1>1 DEF OnceInv, WorkerFresh, Queued
<1>3. \A v \in Workers : v # w /\ wpc[v] = "store" => wmsg[v] # msg
  BY <1>1 DEF OnceInv, WorkerApart
<1>4. Storing(msg) /\ ~Storing(msg)'
  BY <1>1, <1>3 DEF Storing
<1>5. \A other \in Msg \ {msg} : Storing(other)' <=> Storing(other)
  BY <1>1 DEF Storing
<1>6. \A other : Queued(other)' <=> Queued(other)
  BY <1>1 DEF Queued
<1> QED BY <1>1, <1>2, <1>4, <1>5, <1>6 DEF Held

\* A process that is gone holds nothing, nor does one that starts.
LEMMA HeldVanish ==
  ASSUME Vanish PROVE \A msg \in Msg : ~Held(msg)'
  BY BoundsAssumption DEF Vanish, Held, Queued, Storing, Msg, None

LEMMA HeldDown ==
  ASSUME TypeInv, proc = "down" PROVE \A msg \in Msg : ~Held(msg)
  BY BoundsAssumption DEF TypeInv, Busy, Held, Queued, Storing, Msg, None

\* All other steps leave what is held alone.
LEMMA HeldSame ==
  ASSUME UNCHANGED << hand, queue, wmsg >>,
         \A w \in Workers : wpc'[w] = "store" <=> wpc[w] = "store"
  PROVE  \A msg \in Msg : Held(msg)' <=> Held(msg)
  BY DEF Held, Queued, Storing

\* A message that is held is below the position, and fresh.
LEMMA HeldFresh ==
  ASSUME TypeInv, OnceInv, NEW msg \in Msg, Held(msg)
  PROVE  msg < pos /\ Fresh(msg)
<1>1. CASE Queued(msg)
  BY <1>1 DEF Queued, OnceInv, QueueFresh
<1>2. CASE hand = msg
  BY <1>2, BoundsAssumption DEF OnceInv, HandFresh, TypeInv, TypeOK, Busy, Msg, None
<1>3. CASE Storing(msg)
  BY <1>3 DEF Storing, OnceInv, WorkerFresh
<1> QED BY <1>1, <1>2, <1>3 DEF Held

-----------------------------------------------------------------------------
(***************************************************************************)
(* What has been read is accounted for.                                    *)
(***************************************************************************)

AccountedFor(msg) == rows[msg] > 0 \/ Held(msg) \/ msg \in lost \/ msg \in missed
ReadInv           == \A msg \in Msg : msg < pos => AccountedFor(msg)

LEMMA ReadInvNext == TypeInv /\ OnceInv /\ ReadInv /\ [Next]_vars => ReadInv'
<1> SUFFICES ASSUME TypeInv, OnceInv, ReadInv, [Next]_vars PROVE ReadInv'
  OBVIOUS
<1> USE DEF ReadInv, AccountedFor, kafka, process, reading, working, history
<1>1. CASE Produce \/ ChannelsClose \/ Interrupt \/ CloseDone \/ ReaderReturn \/ ReaderDone
  <2>1. /\ UNCHANGED << pos, rows, lost, missed, hand, queue, wpc, wmsg >>
    BY <1>1 DEF Produce, ChannelsClose, Interrupt, CloseDone, ReaderReturn, ReaderDone
  <2> QED BY <2>1, HeldSame
<1>2. CASE Receive
  <2>1. pos' = pos + 1 /\ pos \in Int /\ UNCHANGED << rows, lost, missed >> /\ Msg \subseteq Int
    BY <1>2 DEF Receive, TypeInv, TypeOK, Msg
  <2>2. \A msg \in Msg : msg < pos + 1 => msg < pos \/ msg = pos
    BY <2>1
  <2> QED BY <1>2, <2>1, <2>2, HeldReceive
<1>3. CASE Send
  <2>1. UNCHANGED << pos, rows, lost, missed >>
    BY <1>3 DEF Send
  <2> QED BY <1>3, <2>1, HeldSend
<1>4. ASSUME NEW w \in Workers, WorkerTake(w) PROVE ReadInv'
  <2>1. UNCHANGED << pos, rows, missed >> /\ Head(queue) \in Msg
    BY <1>4, QueuedTake DEF WorkerTake
  <2>2. PICK msg \in Msg : msg = Head(queue)
    BY <2>1
  <2>3. /\ \A other \in Msg \ {msg} : Held(other)' <=> Held(other)
        /\ (lost' = lost /\ Held(msg)') \/ lost' = lost \cup {msg}
    BY <1>4, <2>2, HeldTake
  <2> QED BY <2>1, <2>3
<1>5. ASSUME NEW w \in Workers, WorkerStore(w) \/ WorkerStoreFails(w) PROVE ReadInv'
  <2>1. PICK msg \in Msg : msg = wmsg[w]
    BY <1>5 DEF WorkerStore, WorkerStoreFails, TypeInv, Busy
  <2>2. /\ rows \in [Msg -> Nat] /\ UNCHANGED << pos, missed >>
        /\ \/ rows' = [rows EXCEPT ![msg] = @ + 1] /\ lost' = lost
           \/ rows' = rows /\ lost' = lost \cup {msg}
    BY <1>5, <2>1 DEF WorkerStore, WorkerStoreFails, TypeInv, TypeOK
  <2>3. \A other \in Msg \ {msg} : Held(other)' <=> Held(other)
    BY <1>5, <2>1, HeldReturned
  <2>4. rows'[msg] > 0 \/ msg \in lost'
    BY <2>2
  <2>5. \A other \in Msg \ {msg} : rows'[other] = rows[other] /\ (other \in lost => other \in lost')
    BY <2>2
  <2> QED BY <2>2, <2>3, <2>4, <2>5
<1>6. ASSUME NEW w \in Workers, WorkerCheck(w) \/ WorkerReturn(w) PROVE ReadInv'
  <2>1. UNCHANGED << pos, rows, lost, missed, hand, queue >>
    BY <1>6 DEF WorkerCheck, WorkerReturn
  <2>2. /\ \A v \in Workers : wpc'[v] = "store" <=> wpc[v] = "store"
        /\ \A v \in Workers : wpc[v] = "store" => wmsg'[v] = wmsg[v]
    BY <1>6 DEF WorkerCheck, WorkerReturn, TypeInv, TypeOK
  <2> QED BY <2>1, <2>2 DEF Held, Queued, Storing
<1>7. CASE ConsumeReturn \/ Crash
  <2>1. UNCHANGED << pos, rows, missed >> /\ lost' = lost \cup Holds
    BY <1>7 DEF ConsumeReturn, Crash, Vanish
  <2> QED BY <2>1, HoldsMeans DEF Held
<1>8. CASE Restart
  <2>1. /\ pos' = end /\ UNCHANGED << rows, lost >> /\ missed' = missed \cup (pos .. end - 1)
        /\ pos \in Int /\ end \in Int /\ Msg \subseteq Int
        /\ \A msg \in Msg : Held(msg) <=> Held(msg)'
    BY <1>8, HeldSame DEF Restart, TypeInv, TypeOK, Msg
  <2>2. \A msg \in Msg : msg < end => msg < pos \/ msg \in pos .. end - 1
    BY <2>1
  <2> QED BY <2>1, <2>2
<1>9. CASE UNCHANGED vars
  BY <1>9, HeldSame DEF vars
<1> QED BY <1>1, <1>2, <1>3, <1>4, <1>5, <1>6, <1>7, <1>8, <1>9 DEF Next, ReaderStep, WorkerStep

\* Every message below the position has a row, is held, was let go of or missed.
THEOREM ReadAreAccounted == Spec => []ReadAccounted
<1>1. Init => ReadInv
  BY DEF Init, ReadInv, Msg
<1>2. ReadInv => ReadAccounted
  BY HoldsMeans DEF ReadInv, AccountedFor, ReadAccounted, Held
<1> QED BY <1>1, <1>2, TypeInvInit, TypeInvNext, OnceInvInit, OnceInvNext, ReadInvNext, PTL DEF Spec

-----------------------------------------------------------------------------
(***************************************************************************)
(* Refinement: every step gives one message, or several that are let go of *)
(* or missed together, the next state of its fate, or changes no fate.     *)
(***************************************************************************)

LEMMA HoldsIsHeld ==
  ASSUME NEW msg \in Msg
  PROVE  (msg \in Holds <=> Held(msg)) /\ (msg \in Holds' <=> Held(msg)')
  BY BoundsAssumption DEF Holds, Held, Queued, Storing, Msg, None

\* FateOf, before and after a step, with Held for Holds.
LEMMA FateBefore ==
  ASSUME NEW msg \in Msg, rows[msg] \in {0, 1}
  PROVE  /\ rows[msg] = 1 => FateOf(msg) = "stored"
         /\ rows[msg] = 0 /\ msg \in lost => FateOf(msg) = "lost"
         /\ rows[msg] = 0 /\ msg \notin lost /\ msg \in missed => FateOf(msg) = "missed"
         /\ Fresh(msg) /\ Held(msg) => FateOf(msg) = "held"
         /\ Fresh(msg) /\ ~Held(msg) /\ msg >= end => FateOf(msg) = "absent"
         /\ Fresh(msg) /\ ~Held(msg) /\ ~(msg >= end) => FateOf(msg) = "logged"
<1>1. CASE rows[msg] = 1
  BY <1>1 DEF FateOf, Fresh
<1>2. CASE rows[msg] = 0 /\ msg \in lost
  BY <1>2 DEF FateOf, Fresh
<1>3. CASE rows[msg] = 0 /\ msg \notin lost /\ msg \in missed
  BY <1>3 DEF FateOf, Fresh
<1>4. CASE Fresh(msg)
  BY <1>4, HoldsIsHeld DEF FateOf, Fresh
<1> QED BY <1>1, <1>2, <1>3, <1>4 DEF Fresh

LEMMA FateAfter ==
  ASSUME NEW msg \in Msg, rows'[msg] \in {0, 1}
  PROVE  /\ rows'[msg] = 1 => FateOf(msg)' = "stored"
         /\ rows'[msg] = 0 /\ msg \in lost' => FateOf(msg)' = "lost"
         /\ rows'[msg] = 0 /\ msg \notin lost' /\ msg \in missed' => FateOf(msg)' = "missed"
         /\ StillFresh(msg) /\ Held(msg)' => FateOf(msg)' = "held"
         /\ StillFresh(msg) /\ ~Held(msg)' /\ msg >= end' => FateOf(msg)' = "absent"
         /\ StillFresh(msg) /\ ~Held(msg)' /\ ~(msg >= end') => FateOf(msg)' = "logged"
<1>1. CASE rows'[msg] = 1
  BY <1>1 DEF FateOf, StillFresh
<1>2. CASE rows'[msg] = 0 /\ msg \in lost'
  BY <1>2 DEF FateOf, StillFresh
<1>3. CASE rows'[msg] = 0 /\ msg \notin lost' /\ msg \in missed'
  BY <1>3 DEF FateOf, StillFresh
<1>4. CASE StillFresh(msg)
  BY <1>4, HoldsIsHeld DEF FateOf, StillFresh
<1> QED BY <1>1, <1>2, <1>3, <1>4 DEF StillFresh

LEMMA FateSame ==
  ASSUME NEW msg \in Msg, rows'[msg] = rows[msg], msg \in lost' <=> msg \in lost,
         msg \in missed' <=> msg \in missed, Held(msg)' <=> Held(msg), msg >= end' <=> msg >= end
  PROVE  FateOf(msg)' = FateOf(msg)
<1> QED BY HoldsIsHeld DEF FateOf

\* All the messages of S, and they alone, go from f to g.
Goes(S, f, g) ==
  /\ \A msg \in S : FateOf(msg) = f /\ FateOf(msg)' = g
  /\ \A msg \in Msg \ S : FateOf(msg)' = FateOf(msg)

LEMMA GoesBecomes ==
  ASSUME NEW S \in SUBSET Msg, NEW f, NEW g, Goes(S, f, g)
  PROVE  /\ Fate!Become(S, g) /\ S \subseteq Fate!With({f})
         /\ \A msg \in S : [m \in Msg |-> FateOf(m)][msg] = f
  BY DEF Goes, Fate!Become, Fate!With

LEMMA GoesFate ==
  ASSUME \/ \E msg \in Msg : \/ Goes({msg}, "absent", "logged") \/ Goes({msg}, "logged", "held")
                             \/ Goes({msg}, "held", "stored")
         \/ \E S \in SUBSET Msg : Goes(S, "held", "lost") \/ Goes(S, "logged", "missed")
  PROVE  Fate!Next
<1>1. ASSUME NEW msg \in Msg, Goes({msg}, "absent", "logged") PROVE Fate!Next
  BY <1>1, GoesBecomes DEF Fate!Next, Fate!Append
<1>2. ASSUME NEW msg \in Msg, Goes({msg}, "logged", "held") PROVE Fate!Next
  BY <1>2, GoesBecomes DEF Fate!Next, Fate!Take
<1>3. ASSUME NEW msg \in Msg, Goes({msg}, "held", "stored") PROVE Fate!Next
  BY <1>3, GoesBecomes DEF Fate!Next, Fate!Store
<1>4. ASSUME NEW S \in SUBSET Msg, Goes(S, "held", "lost") PROVE Fate!Next
  BY <1>4, GoesBecomes DEF Fate!Next, Fate!Lose
<1>5. ASSUME NEW S \in SUBSET Msg, Goes(S, "logged", "missed") PROVE Fate!Next
  BY <1>5, GoesBecomes DEF Fate!Next, Fate!Miss
<1> QED BY <1>1, <1>2, <1>3, <1>4, <1>5

\* A step that changes no fate.
LEMMA GoesNowhere ==
  ASSUME UNCHANGED << rows, lost, missed, end >>, \A msg \in Msg : Held(msg)' <=> Held(msg)
  PROVE  UNCHANGED [msg \in Msg |-> FateOf(msg)]
<1>1. \A msg \in Msg : FateOf(msg)' = FateOf(msg)
  BY FateSame
<1> QED BY <1>1

\* A message a worker stops holding, and what becomes of it.
LEMMA GoesOn ==
  ASSUME TypeInv, OnceInv, NEW msg \in Msg, Held(msg), ~Held(msg)',
         \A other \in Msg \ {msg} : Held(other)' <=> Held(other),
         UNCHANGED << missed, end >>,
         \/ rows' = [rows EXCEPT ![msg] = @ + 1] /\ lost' = lost
         \/ rows' = rows /\ lost' = lost \cup {msg}
  PROVE  Goes({msg}, "held", "stored") \/ Goes({msg}, "held", "lost")
<1>1. Fresh(msg) /\ rows \in [Msg -> Nat]
  BY HeldFresh DEF TypeInv, TypeOK
<1>2. FateOf(msg) = "held"
  BY <1>1, FateBefore DEF Fresh
<1>3. rows'[msg] = 1 \/ (rows'[msg] = 0 /\ msg \in lost')
  <2>1. rows[msg] = 0
    BY <1>1 DEF Fresh
  <2> QED BY <1>1, <2>1
<1>4. FateOf(msg)' \in {"stored", "lost"}
  BY <1>3, FateAfter
<1>5. \A other \in Msg \ {msg} : FateOf(other)' = FateOf(other)
  BY <1>1, FateSame
<1> QED BY <1>2, <1>4, <1>5 DEF Goes

LEMMA StepImplements ==
  TypeInv /\ OnceInv /\ [Next]_vars => Fate!Next \/ UNCHANGED [msg \in Msg |-> FateOf(msg)]
<1> SUFFICES ASSUME TypeInv, OnceInv, [Next]_vars
             PROVE  Fate!Next \/ UNCHANGED [msg \in Msg |-> FateOf(msg)]
  OBVIOUS
<1> USE DEF kafka, process, reading, working, history
<1>1. CASE Produce
  <2>1. /\ end' = end + 1 /\ end \in Msg /\ pos <= end /\ pos \in Int /\ Msg \subseteq Int
        /\ UNCHANGED << hand, queue, wpc, wmsg, rows, lost, missed >>
    BY <1>1, BoundsAssumption DEF Produce, TypeInv, TypeOK, Busy, Msg
  <2>2. \A msg \in Msg : Held(msg)' <=> Held(msg)
    BY <2>1, HeldSame
  <2>3. Fresh(end) /\ ~Held(end)
    BY <2>1, HeldFresh DEF OnceInv, AheadFresh
  <2>4. PICK msg \in Msg : msg = end
    BY <2>1
  <2>5. FateOf(msg) = "absent"
    BY <2>1, <2>3, <2>4, FateBefore DEF Fresh
  <2>6. StillFresh(msg) /\ ~Held(msg)' /\ ~(msg >= end')
    BY <2>1, <2>2, <2>3, <2>4 DEF Fresh, StillFresh
  <2>7. FateOf(msg)' = "logged"
    BY <2>6, FateAfter DEF StillFresh
  <2>8. \A other \in Msg \ {msg} : other >= end' <=> other >= end
    BY <2>1, <2>4
  <2>9. \A other \in Msg \ {msg} : FateOf(other)' = FateOf(other)
    BY <2>1, <2>2, <2>8, FateSame
  <2> QED BY <2>5, <2>7, <2>9, GoesFate DEF Goes
<1>2. CASE ChannelsClose \/ Interrupt \/ CloseDone \/ ReaderReturn \/ ReaderDone
  <2>1. UNCHANGED << end, rows, lost, missed, hand, queue, wpc, wmsg >>
    BY <1>2 DEF ChannelsClose, Interrupt, CloseDone, ReaderReturn, ReaderDone
  <2> QED BY <2>1, HeldSame, GoesNowhere
<1>3. CASE Receive
  <2>1. /\ pos \in Msg /\ pos < end /\ Msg \subseteq Int /\ end \in Int
        /\ UNCHANGED << end, rows, lost, missed >>
        /\ \A msg \in Msg : Held(msg)' <=> Held(msg) \/ msg = pos
    BY <1>3, HeldReceive DEF Receive, TypeInv, TypeOK, Msg
  <2>2. PICK msg \in Msg : msg = pos
    BY <2>1
  <2>3. Fresh(msg) /\ ~Held(msg) /\ ~(msg >= end)
    BY <2>1, <2>2, HeldFresh DEF OnceInv, AheadFresh
  <2>4. FateOf(msg) = "logged"
    BY <2>3, FateBefore DEF Fresh
  <2>5. StillFresh(msg) /\ Held(msg)'
    BY <2>1, <2>2, <2>3 DEF Fresh, StillFresh
  <2>6. FateOf(msg)' = "held"
    BY <2>5, FateAfter DEF StillFresh
  <2>7. \A other \in Msg \ {msg} : FateOf(other)' = FateOf(other)
    BY <2>1, <2>2, FateSame
  <2> QED BY <2>4, <2>6, <2>7, GoesFate DEF Goes
<1>4. CASE Send
  <2>1. UNCHANGED << end, rows, lost, missed >>
    BY <1>4 DEF Send
  <2> QED BY <1>4, <2>1, HeldSend, GoesNowhere
<1>5. ASSUME NEW w \in Workers, WorkerTake(w)
      PROVE  Fate!Next \/ UNCHANGED [msg \in Msg |-> FateOf(msg)]
  <2>1. UNCHANGED << end, rows, missed >> /\ Head(queue) \in Msg
    BY <1>5, QueuedTake DEF WorkerTake
  <2>2. PICK msg \in Msg : msg = Head(queue)
    BY <2>1
  <2>3. /\ Held(msg) /\ \A other \in Msg \ {msg} : Held(other)' <=> Held(other)
        /\ (lost' = lost /\ Held(msg)') \/ (lost' = lost \cup {msg} /\ ~Held(msg)')
    BY <1>5, <2>2, HeldTake
  <2>4. CASE lost' = lost /\ Held(msg)'
    <3>1. \A m \in Msg : Held(m)' <=> Held(m)
      BY <2>3, <2>4
    <3> QED BY <2>1, <2>4, <3>1, GoesNowhere
  <2>5. CASE lost' = lost \cup {msg} /\ ~Held(msg)'
    BY <2>1, <2>3, <2>5, GoesOn, GoesFate
  <2> QED BY <2>3, <2>4, <2>5
<1>6. ASSUME NEW w \in Workers, WorkerStore(w) \/ WorkerStoreFails(w)
      PROVE  Fate!Next \/ UNCHANGED [msg \in Msg |-> FateOf(msg)]
  <2>1. PICK msg \in Msg : msg = wmsg[w]
    BY <1>6 DEF WorkerStore, WorkerStoreFails, TypeInv, Busy
  <2>2. /\ UNCHANGED << end, missed >>
        /\ \/ rows' = [rows EXCEPT ![msg] = @ + 1] /\ lost' = lost
           \/ rows' = rows /\ lost' = lost \cup {msg}
    BY <1>6, <2>1 DEF WorkerStore, WorkerStoreFails
  <2>3. Held(msg) /\ ~Held(msg)' /\ \A other \in Msg \ {msg} : Held(other)' <=> Held(other)
    BY <1>6, <2>1, HeldReturned
  <2> QED BY <2>2, <2>3, GoesOn, GoesFate
<1>7. ASSUME NEW w \in Workers, WorkerCheck(w) \/ WorkerReturn(w)
      PROVE  Fate!Next \/ UNCHANGED [msg \in Msg |-> FateOf(msg)]
  <2>1. UNCHANGED << end, rows, lost, missed, hand, queue >>
    BY <1>7 DEF WorkerCheck, WorkerReturn
  <2>2. /\ \A v \in Workers : wpc'[v] = "store" <=> wpc[v] = "store"
        /\ \A v \in Workers : wpc[v] = "store" => wmsg'[v] = wmsg[v]
    BY <1>7 DEF WorkerCheck, WorkerReturn, TypeInv, TypeOK
  <2>3. \A msg \in Msg : Held(msg)' <=> Held(msg)
    BY <2>1, <2>2 DEF Held, Queued, Storing
  <2> QED BY <2>1, <2>3, GoesNowhere
<1>8. CASE ConsumeReturn \/ Crash
  <2>1. UNCHANGED << end, rows, missed >> /\ lost' = lost \cup Holds /\ Vanish
    BY <1>8 DEF ConsumeReturn, Crash, Vanish
  <2>2. Holds \in SUBSET Msg /\ \A msg \in Msg : msg \in Holds <=> Held(msg)
    BY HoldsTyped, HoldsMeans DEF Held
  <2>3. PICK S \in SUBSET Msg : S = Holds
    BY <2>2
  <2>4. ASSUME NEW msg \in S PROVE FateOf(msg) = "held" /\ FateOf(msg)' = "lost"
    <3>1. Fresh(msg) /\ Held(msg)
      BY <2>2, <2>3, HeldFresh
    <3>2. rows'[msg] = 0 /\ msg \in lost'
      BY <2>1, <2>3, <3>1 DEF Fresh
    <3> QED BY <3>1, <3>2, FateBefore, FateAfter DEF Fresh
  <2>5. ASSUME NEW msg \in Msg \ S PROVE FateOf(msg)' = FateOf(msg)
    BY <2>1, <2>2, <2>3, HeldVanish, FateSame
  <2> QED BY <2>4, <2>5, GoesFate DEF Goes
<1>9. CASE Restart
  <2>1. /\ UNCHANGED << end, rows, lost >> /\ missed' = missed \cup (pos .. end - 1)
        /\ pos \in Int /\ end \in 0 .. MaxOffset /\ Msg \subseteq Int
        /\ \A msg \in Msg : ~Held(msg) /\ ~Held(msg)'
    BY <1>9, HeldDown, HeldSame DEF Restart, TypeInv, TypeOK, Msg
  <2>2. pos .. end - 1 \in SUBSET Msg
    BY <2>1, BoundsAssumption DEF Msg, TypeInv, TypeOK
  <2>3. PICK S \in SUBSET Msg : S = pos .. end - 1
    BY <2>2
  <2>4. ASSUME NEW msg \in S PROVE FateOf(msg) = "logged" /\ FateOf(msg)' = "missed"
    <3>1. Fresh(msg) /\ ~(msg >= end)
      BY <2>1, <2>3 DEF OnceInv, AheadFresh
    <3>2. rows'[msg] = 0 /\ msg \notin lost' /\ msg \in missed'
      BY <2>1, <2>3, <3>1 DEF Fresh
    <3> QED BY <2>1, <3>1, <3>2, FateBefore, FateAfter DEF Fresh
  <2>5. ASSUME NEW msg \in Msg \ S PROVE FateOf(msg)' = FateOf(msg)
    BY <2>1, <2>3, FateSame
  <2> QED BY <2>4, <2>5, GoesFate DEF Goes
<1>10. CASE UNCHANGED vars
  <2>1. UNCHANGED << end, rows, lost, missed, hand, queue, wpc, wmsg >>
    BY <1>10 DEF vars
  <2> QED BY <2>1, HeldSame, GoesNowhere
<1> QED BY <1>1, <1>2, <1>3, <1>4, <1>5, <1>6, <1>7, <1>8, <1>9, <1>10 DEF Next, ReaderStep, WorkerStep

\* Consume's goroutines, its deaths and its restarts give every message the life
\* that MessageFate describes.
THEOREM Implements == Spec => ImplementsFate
<1>1. Init => Fate!Init
  <2> SUFFICES ASSUME Init PROVE \A msg \in Msg : FateOf(msg) = "absent"
    BY DEF Fate!Init
  <2> SUFFICES ASSUME NEW msg \in Msg PROVE FateOf(msg) = "absent"
    OBVIOUS
  <2>1. Fresh(msg) /\ ~Held(msg) /\ msg >= end
    BY BoundsAssumption DEF Init, Fresh, Held, Queued, Storing, Msg, None
  <2> QED BY <2>1, FateBefore DEF Fresh
<1>2. TypeInv /\ OnceInv /\ [Next]_vars => [Fate!Next]_([msg \in Msg |-> FateOf(msg)])
  BY StepImplements
<1> QED BY <1>1, <1>2, TypeInvInit, TypeInvNext, OnceInvInit, OnceInvNext, PTL
        DEF Spec, ImplementsFate, Fate!Spec
=============================================================================
