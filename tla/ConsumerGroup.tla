--------------------------- MODULE ConsumerGroup ---------------------------
(***************************************************************************)
(* The consumer group of internal/kafkacp/kafkaconsumergroup: every member *)
(* is a process that runs StartConsume, and all of them read one topic and *)
(* insert its messages in one database.                                    *)
(*                                                                         *)
(* Inside a member run, concurrently,                                      *)
(*   - the consumer loop, which calls sarama's Consume again and again;    *)
(*   - one ConsumeClaim goroutine per partition of the current session,    *)
(*     which moves a message to the bounded MessageQueue and marks it;     *)
(*   - the workers, which take messages off the queue and store them;      *)
(*   - the error handler, which only matters to shutdown;                  *)
(*   - the goroutine of StartConsume itself, which waits for all of them.  *)
(*                                                                         *)
(* Kafka (the log, the committed offsets, the assignment of partitions and *)
(* the eviction of slow members) is modelled from how the code uses it.    *)
(***************************************************************************)
EXTENDS Integers, Sequences, FiniteSets

CONSTANTS
  Members,      \* the consumer processes of the group
  Partitions,   \* the partitions of the topic
  Workers,      \* the worker goroutines of one member (NumberOfWorkers)
  QueueCap,     \* MessageBufferSize, the capacity of MessageQueue
  MaxOffset,    \* bound: messages produced on a partition
  MaxFaults,    \* bound: faults, of every kind together
  Idle,         \* a worker that waits in its select
  Stopped       \* a worker that has returned

Msg == Partitions \X (0 .. MaxOffset - 1)

\* No offset of the group is stored for a partition, or nothing is marked.
NoOffset == -1

ASSUME CapAssumption    == QueueCap \in Nat \ {0}
ASSUME BoundsAssumption == MaxOffset \in Nat /\ MaxFaults \in Nat
ASSUME FiniteAssumption == IsFiniteSet(Members) /\ IsFiniteSet(Workers)
ASSUME WorkerAssumption == Idle # Stopped /\ Idle \notin Msg /\ Stopped \notin Msg

VARIABLES
  produced,     \* [Partitions -> Nat], the end of each partition's log
  committed,    \* [Partitions -> offset], the next offset the group will read
  rows,         \* [Msg -> Nat], the rows of the database each message has
  up,           \* [Members -> BOOLEAN], the process runs
  cancelled,    \* [Members -> BOOLEAN], ctx of StartConsume is done
  errh,         \* [Members -> BOOLEAN], the error handler goroutine runs
  loop,         \* [Members -> pc of the consumer loop]
  ending,       \* [Members -> BOOLEAN], the session's context is done
  evicted,      \* [Members -> BOOLEAN], Kafka gave the session's partitions away
  claim,        \* [Members -> [Partitions -> pc of ConsumeClaim]]
  pos,          \* [Members -> [Partitions -> offset the claim is at]]
  marked,       \* [Members -> [Partitions -> offset marked by MarkMessage]]
  queue,        \* [Members -> Seq(Msg)], MessageQueue
  worker,       \* [Members -> [Workers -> the message it stores, Idle or Stopped]]
  skipped,      \* history: messages the group's initial offset jumped over
  lost,         \* history: messages a member took and let go of without a row
  aborts,       \* history: sessions that ended and did not commit what they marked
  faults        \* history: faults so far, bounded by MaxFaults

kafka   == << produced, committed, skipped >>
session == << ending, evicted, claim, pos, marked >>
process == << up, cancelled, errh, loop >>
store   == << rows, lost >>
history == << aborts, faults >>
vars    == << kafka, session, process, store, history, queue, worker >>

LoopPc  == {"check", "consume", "session", "counted", "closed"}
ClaimPc == {"none", "recv", "send", "mark", "done"}
Offset  == 0 .. MaxOffset

TypeOK ==
  /\ produced  \in [Partitions -> Offset]
  /\ committed \in [Partitions -> Offset \cup {NoOffset}]
  /\ rows      \in [Msg -> Nat]
  /\ up        \in [Members -> BOOLEAN]
  /\ cancelled \in [Members -> BOOLEAN]
  /\ errh      \in [Members -> BOOLEAN]
  /\ loop      \in [Members -> LoopPc]
  /\ ending    \in [Members -> BOOLEAN]
  /\ evicted   \in [Members -> BOOLEAN]
  /\ claim     \in [Members -> [Partitions -> ClaimPc]]
  /\ pos       \in [Members -> [Partitions -> Offset]]
  /\ marked    \in [Members -> [Partitions -> Offset \cup {NoOffset}]]
  /\ queue     \in [Members -> Seq(Msg)]
  /\ \A m \in Members : Len(queue[m]) <= QueueCap
  /\ worker    \in [Members -> [Workers -> Msg \cup {Idle, Stopped}]]
  /\ skipped   \subseteq Msg
  /\ lost      \subseteq Msg
  /\ aborts    \in Nat
  /\ faults    \in 0 .. MaxFaults

-----------------------------------------------------------------------------
(***************************************************************************)
(* Sets and conditions the actions and the properties share.               *)
(***************************************************************************)

Queued(m)  == { queue[m][i] : i \in 1 .. Len(queue[m]) }
InHand(m)  == { worker[m][w] : w \in Workers } \ {Idle, Stopped}
Holds(m)   == Queued(m) \cup InHand(m)

\* Members whose session Kafka honours: it takes their commits.
Owners == { m \in Members : loop[m] = "session" /\ ~evicted[m] }

Owned(p) == \E m \in Owners : claim[m][p] # "none"

\* Members that wait inside Consume for the group to be formed.
Joining == { m \in Members : up[m] /\ loop[m] = "consume" /\ ~cancelled[m] }

\* Members on their way back to Consume, for which the coordinator waits.
Rejoining == { m \in Members : up[m] /\ loop[m] = "check" /\ ~cancelled[m] }

\* What makes the coordinator form the group anew.
RebalanceNeeded == Joining # {} \/ \E p \in Partitions : ~Owned(p)

\* Where the group starts on p: at its committed offset or, for want of one, at
\* the end of the log (Offsets.Initial is left at sarama's OffsetNewest).
StartOffset(p) == IF committed[p] = NoOffset THEN produced[p] ELSE committed[p]

Fault == faults < MaxFaults /\ faults' = faults + 1

NoClaims == [p \in Partitions |-> "none"]
NoMarks  == [p \in Partitions |-> NoOffset]
AtZero   == [p \in Partitions |-> 0]
AllIdle  == [w \in Workers |-> Idle]

Init ==
  /\ produced  = [p \in Partitions |-> 0]
  /\ committed = [p \in Partitions |-> NoOffset]
  /\ rows      = [msg \in Msg |-> 0]
  /\ up        = [m \in Members |-> TRUE]
  /\ cancelled = [m \in Members |-> FALSE]
  /\ errh      = [m \in Members |-> TRUE]
  /\ loop      = [m \in Members |-> "check"]
  /\ ending    = [m \in Members |-> FALSE]
  /\ evicted   = [m \in Members |-> FALSE]
  /\ claim     = [m \in Members |-> NoClaims]
  /\ pos       = [m \in Members |-> AtZero]
  /\ marked    = [m \in Members |-> NoMarks]
  /\ queue     = [m \in Members |-> << >>]
  /\ worker    = [m \in Members |-> AllIdle]
  /\ skipped   = {}
  /\ lost      = {}
  /\ aborts    = 0
  /\ faults    = 0

-----------------------------------------------------------------------------
(***************************************************************************)
(* Kafka.                                                                  *)
(***************************************************************************)

\* The webhook server's producer appends a message.
Produce(p) ==
  /\ produced[p] < MaxOffset
  /\ produced' = [produced EXCEPT ![p] = @ + 1]
  /\ UNCHANGED << committed, skipped, session, process, store, history, queue, worker >>

\* The group is formed: every session Kafka honours has ended, and each
\* partition goes to one of the members that joined; a member may get none. The
\* coordinator waits for the others to rejoin, unless they miss its deadline.
FormGroup ==
  /\ Owners = {}
  /\ Joining # {}
  /\ (Rejoining = {} /\ UNCHANGED faults) \/ (Rejoining # {} /\ Fault)
  /\ \E assigned \in [Partitions -> Joining] :
       claim' = [m \in Members |->
                   IF m \in Joining
                   THEN [p \in Partitions |-> IF assigned[p] = m THEN "recv" ELSE "none"]
                   ELSE claim[m]]
  /\ pos'    = [m \in Members |->
                  IF m \in Joining THEN [p \in Partitions |-> StartOffset(p)] ELSE pos[m]]
  /\ marked' = [m \in Members |-> IF m \in Joining THEN NoMarks ELSE marked[m]]
  /\ loop'   = [m \in Members |-> IF m \in Joining THEN "session" ELSE loop[m]]
  /\ skipped' = skipped \cup
                { msg \in Msg : committed[msg[1]] = NoOffset /\ msg[2] < produced[msg[1]] }
  /\ UNCHANGED << produced, committed, up, cancelled, errh, ending, evicted, store,
                  aborts, queue, worker >>

\* The heartbeat goroutine learns that the group must be formed anew, or that
\* the member is no longer part of it, and ends the session's context.
HeartbeatEndsSession(m) ==
  /\ loop[m] = "session" /\ ~ending[m]
  /\ evicted[m] \/ RebalanceNeeded
  /\ ending' = [ending EXCEPT ![m] = TRUE]
  /\ UNCHANGED << kafka, evicted, claim, pos, marked, process, store, history, queue, worker >>

\* A heartbeat fails, or the topic's metadata changes: a rebalance nobody needs.
SpuriousRebalance(m) ==
  /\ loop[m] = "session" /\ ~ending[m]
  /\ Fault
  /\ ending' = [ending EXCEPT ![m] = TRUE]
  /\ UNCHANGED << kafka, evicted, claim, pos, marked, process, store, aborts, queue, worker >>

\* The member missed the session or the rebalance timeout. Its goroutines run
\* on, but Kafka refuses its commits and may give its partitions to others.
Evict(m) ==
  /\ m \in Owners
  /\ Fault
  /\ evicted' = [evicted EXCEPT ![m] = TRUE]
  /\ aborts'  = aborts + 1
  /\ UNCHANGED << kafka, ending, claim, pos, marked, process, store, queue, worker >>

\* Mutant of CommitMarks: the commit of an evicted member counts too.
CommitMarksOfAnyone(m) ==
  committed' = [p \in Partitions |->
                  IF marked[m][p] # NoOffset THEN marked[m][p] ELSE committed[p]]

\* What Kafka stores when member m commits its marks.
CommitMarks(m) ==
  committed' = [p \in Partitions |->
                  IF m \in Owners /\ marked[m][p] # NoOffset
                  THEN marked[m][p] ELSE committed[p]]

\* sarama's auto-commit goroutine flushes what has been marked so far.
AutoCommit(m) ==
  /\ m \in Owners
  /\ CommitMarks(m)
  /\ UNCHANGED << produced, skipped, session, process, store, history, queue, worker >>

-----------------------------------------------------------------------------
(***************************************************************************)
(* ConsumeClaim: for msg := range claim.Messages() { queue <- msg; mark }. *)
(***************************************************************************)

\* claim.Messages() yields the next message; one that sarama has buffered may
\* still come after the session's context is done.
ClaimReceive(m, p) ==
  /\ claim[m][p] = "recv"
  /\ pos[m][p] < produced[p]
  /\ claim' = [claim EXCEPT ![m][p] = "send"]
  /\ UNCHANGED << kafka, ending, evicted, pos, marked, process, store, history, queue, worker >>

\* Mutant of ClaimSend: a queue without a bound.
ClaimSendUnbounded(m, p) ==
  /\ claim[m][p] = "send"
  /\ queue' = [queue EXCEPT ![m] = Append(@, << p, pos[m][p] >>)]
  /\ claim' = [claim EXCEPT ![m][p] = "mark"]
  /\ UNCHANGED << kafka, ending, evicted, pos, marked, process, store, history, worker >>

\* Mutant of ClaimSend: a message that does not fit is dropped, and marked.
ClaimSendOrDrop(m, p) ==
  /\ claim[m][p] = "send"
  /\ queue' = [queue EXCEPT ![m] = IF Len(@) < QueueCap THEN Append(@, << p, pos[m][p] >>) ELSE @]
  /\ claim' = [claim EXCEPT ![m][p] = "mark"]
  /\ UNCHANGED << kafka, ending, evicted, pos, marked, process, store, history, worker >>

\* c.MessageQueue <- msg, which blocks while the queue is full.
ClaimSend(m, p) ==
  /\ claim[m][p] = "send"
  /\ Len(queue[m]) < QueueCap
  /\ queue' = [queue EXCEPT ![m] = Append(@, << p, pos[m][p] >>)]
  /\ claim' = [claim EXCEPT ![m][p] = "mark"]
  /\ UNCHANGED << kafka, ending, evicted, pos, marked, process, store, history, worker >>

\* sess.MarkMessage(msg, ""): the message counts as consumed.
ClaimMark(m, p) ==
  /\ claim[m][p] = "mark"
  /\ marked' = [marked EXCEPT ![m][p] = pos[m][p] + 1]
  /\ pos'    = [pos EXCEPT ![m][p] = @ + 1]
  /\ claim'  = [claim EXCEPT ![m][p] = "recv"]
  /\ UNCHANGED << kafka, ending, evicted, process, store, history, queue, worker >>

\* Mutant of ClaimReturn: only a rebalance ends the claim.
ClaimReturnOnRebalance(m, p) ==
  /\ claim[m][p] = "recv"
  /\ ending[m]
  /\ claim' = [claim EXCEPT ![m][p] = "done"]
  /\ UNCHANGED << kafka, ending, evicted, pos, marked, process, store, history, queue, worker >>

\* The session's context is done, so sarama closes claim.Messages().
ClaimReturn(m, p) ==
  /\ claim[m][p] = "recv"
  /\ ending[m] \/ cancelled[m]
  /\ claim' = [claim EXCEPT ![m][p] = "done"]
  /\ UNCHANGED << kafka, ending, evicted, pos, marked, process, store, history, queue, worker >>

-----------------------------------------------------------------------------
(***************************************************************************)
(* The consumer loop of StartConsume.                                      *)
(***************************************************************************)

\* if ctx.Err() != nil { return }, and otherwise the call of Consume.
LoopCheck(m) ==
  /\ up[m] /\ loop[m] = "check"
  /\ loop' = [loop EXCEPT ![m] = IF cancelled[m] THEN "counted" ELSE "consume"]
  /\ UNCHANGED << kafka, session, up, cancelled, errh, store, history, queue, worker >>

\* Mutant of ConsumeCancelled: Consume does not wait for the session's claims.
ConsumeAbandonsSession(m) ==
  /\ loop[m] \in {"consume", "session"} /\ cancelled[m]
  /\ loop' = [loop EXCEPT ![m] = "counted"]
  /\ UNCHANGED << kafka, session, up, cancelled, errh, store, history, queue, worker >>

\* Consume gives up before there is a session because ctx is done.
ConsumeCancelled(m) ==
  /\ loop[m] = "consume" /\ cancelled[m]
  /\ loop' = [loop EXCEPT ![m] = "counted"]
  /\ UNCHANGED << kafka, session, up, cancelled, errh, store, history, queue, worker >>

\* Consume returns an error: it is logged and Consume is called again at once.
ConsumeFails(m) ==
  /\ loop[m] = "consume" /\ ~cancelled[m]
  /\ Fault
  /\ loop' = [loop EXCEPT ![m] = "check"]
  /\ UNCHANGED << kafka, session, up, cancelled, errh, store, aborts, queue, worker >>

\* All the claims of a session whose context is done have returned.
SessionOver(m) ==
  /\ loop[m] = "session"
  /\ ending[m] \/ cancelled[m]
  /\ \A p \in Partitions : claim[m][p] \in {"none", "done"}

LeaveSession(m) ==
  /\ loop'    = [loop EXCEPT ![m] = "check"]
  /\ ending'  = [ending EXCEPT ![m] = FALSE]
  /\ evicted' = [evicted EXCEPT ![m] = FALSE]
  /\ claim'   = [claim EXCEPT ![m] = NoClaims]
  /\ pos'     = [pos EXCEPT ![m] = AtZero]
  /\ marked'  = [marked EXCEPT ![m] = NoMarks]

\* Mutant of ConsumeReturns: the marks of the session are not committed.
ConsumeReturnsForgets(m) ==
  /\ SessionOver(m)
  /\ LeaveSession(m)
  /\ UNCHANGED << kafka, up, cancelled, errh, store, history, queue, worker >>

\* Consume commits the marks of the session and returns.
ConsumeReturns(m) ==
  /\ SessionOver(m)
  /\ CommitMarks(m)
  /\ LeaveSession(m)
  /\ UNCHANGED << produced, skipped, up, cancelled, errh, store, history, queue, worker >>

\* The last commit of the session does not reach Kafka.
ConsumeReturnsUncommitted(m) ==
  /\ SessionOver(m) /\ m \in Owners
  /\ Fault
  /\ aborts' = aborts + 1
  /\ LeaveSession(m)
  /\ UNCHANGED << kafka, up, cancelled, errh, store, queue, worker >>

\* The loop has counted itself out of the wait group and closes MessageQueue.
CloseQueue(m) ==
  /\ loop[m] = "counted"
  /\ loop' = [loop EXCEPT ![m] = "closed"]
  /\ UNCHANGED << kafka, session, up, cancelled, errh, store, history, queue, worker >>

-----------------------------------------------------------------------------
(***************************************************************************)
(* The workers of StartConsume.                                            *)
(***************************************************************************)

\* A worker takes a message and starts ProcessMessageFunc, ctx not being done.
WorkerTake(m, w) ==
  /\ worker[m][w] = Idle /\ queue[m] # << >> /\ ~cancelled[m]
  /\ worker' = [worker EXCEPT ![m][w] = Head(queue[m])]
  /\ queue'  = [queue EXCEPT ![m] = Tail(@)]
  /\ UNCHANGED << kafka, session, process, store, history >>

\* select may prefer the queue to ctx.Done(): the message is taken, and the
\* INSERT fails at once because ctx is done. The error is logged.
WorkerTakeCancelled(m, w) ==
  /\ worker[m][w] = Idle /\ queue[m] # << >> /\ cancelled[m]
  /\ queue' = [queue EXCEPT ![m] = Tail(@)]
  /\ lost'  = lost \cup {Head(queue[m])}
  /\ UNCHANGED << kafka, session, process, rows, history, worker >>

\* ProcessMessageFunc inserts a row. Nothing in the INSERT tells a message that
\* already has one.
WorkerStore(m, w) ==
  /\ worker[m][w] \in Msg
  /\ rows'   = [rows EXCEPT ![worker[m][w]] = @ + 1]
  /\ worker' = [worker EXCEPT ![m][w] = Idle]
  /\ UNCHANGED << kafka, session, process, lost, history, queue >>

\* Mutant of WorkerStoreFails: the worker returns where it should go on.
WorkerStoreFailsStops(m, w) ==
  /\ worker[m][w] \in Msg
  /\ (cancelled[m] /\ UNCHANGED faults) \/ Fault
  /\ lost'   = lost \cup {worker[m][w]}
  /\ worker' = [worker EXCEPT ![m][w] = Stopped]
  /\ UNCHANGED << kafka, session, process, rows, aborts, queue >>

\* ProcessMessageFunc fails: the error is logged and the worker goes on.
WorkerStoreFails(m, w) ==
  /\ worker[m][w] \in Msg
  /\ (cancelled[m] /\ UNCHANGED faults) \/ Fault
  /\ lost'   = lost \cup {worker[m][w]}
  /\ worker' = [worker EXCEPT ![m][w] = Idle]
  /\ UNCHANGED << kafka, session, process, rows, aborts, queue >>

\* case <-ctx.Done(), or the queue is closed and empty.
WorkerReturn(m, w) ==
  /\ worker[m][w] = Idle
  /\ cancelled[m] \/ (loop[m] = "closed" /\ queue[m] = << >>)
  /\ worker' = [worker EXCEPT ![m][w] = Stopped]
  /\ UNCHANGED << kafka, session, process, store, history, queue >>

-----------------------------------------------------------------------------
(***************************************************************************)
(* The process.                                                            *)
(***************************************************************************)

\* A process that is gone has no memory; what it held without a row is lost.
Vanish(m) ==
  /\ up'        = [up EXCEPT ![m] = FALSE]
  /\ cancelled' = [cancelled EXCEPT ![m] = FALSE]
  /\ errh'      = [errh EXCEPT ![m] = TRUE]
  /\ LeaveSession(m)
  /\ queue'     = [queue EXCEPT ![m] = << >>]
  /\ worker'    = [worker EXCEPT ![m] = AllIdle]
  /\ lost'      = lost \cup Holds(m)

\* SIGINT: the context of signal.NotifyContext is done.
Interrupt(m) ==
  /\ up[m] /\ ~cancelled[m]
  /\ Fault
  /\ cancelled' = [cancelled EXCEPT ![m] = TRUE]
  /\ UNCHANGED << kafka, session, up, errh, loop, store, aborts, queue, worker >>

ErrorHandlerReturn(m) ==
  /\ cancelled[m] /\ errh[m]
  /\ errh' = [errh EXCEPT ![m] = FALSE]
  /\ UNCHANGED << kafka, session, up, cancelled, loop, store, history, queue, worker >>

\* <-ctx.Done(); wg.Wait(); SaramaConsumerGroup.Close(): the program ends.
StartConsumeReturn(m) ==
  /\ cancelled[m] /\ ~errh[m]
  /\ loop[m] \in {"counted", "closed"}
  /\ \A w \in Workers : worker[m][w] = Stopped
  /\ Vanish(m)
  /\ UNCHANGED << kafka, rows, history >>

\* The process dies: SIGKILL, SIGTERM (which nobody handles), a panic.
Crash(m) ==
  /\ up[m]
  /\ Fault
  /\ aborts' = IF m \in Owners THEN aborts + 1 ELSE aborts
  /\ Vanish(m)
  /\ UNCHANGED << kafka, rows >>

Restart(m) ==
  /\ ~up[m]
  /\ up' = [up EXCEPT ![m] = TRUE]
  /\ UNCHANGED << kafka, session, cancelled, errh, loop, store, history, queue, worker >>

-----------------------------------------------------------------------------

LoopStep(m) == LoopCheck(m) \/ ConsumeCancelled(m) \/ ConsumeReturns(m) \/ CloseQueue(m)
LoopFault(m) == ConsumeFails(m) \/ ConsumeReturnsUncommitted(m)

ClaimStep(m, p) == ClaimSend(m, p) \/ ClaimMark(m, p) \/ ClaimReturn(m, p)

WorkerStep(m, w) ==
  \/ WorkerTake(m, w) \/ WorkerTakeCancelled(m, w)
  \/ WorkerStore(m, w) \/ WorkerStoreFails(m, w)

ProcessStep(m) == Interrupt(m) \/ Crash(m) \/ Restart(m)

Next ==
  \/ FormGroup
  \/ \E p \in Partitions : Produce(p)
  \/ \E m \in Members :
       \/ HeartbeatEndsSession(m) \/ SpuriousRebalance(m) \/ Evict(m) \/ AutoCommit(m)
       \/ LoopStep(m) \/ LoopFault(m)
       \/ \E p \in Partitions : ClaimReceive(m, p) \/ ClaimStep(m, p)
       \/ \E w \in Workers : WorkerStep(m, w) \/ WorkerReturn(m, w)
       \/ ErrorHandlerReturn(m) \/ StartConsumeReturn(m)
       \/ ProcessStep(m)

\* The Go scheduler runs every goroutine that can run, and select chooses among
\* the ready cases at random, so a worker does not ignore ctx.Done() for ever.
\* Kafka forms groups and delivers messages. Faults, interrupts and restarts
\* are under no obligation.
MemberFairness(m) ==
  /\ WF_vars(HeartbeatEndsSession(m))
  /\ WF_vars(LoopStep(m))
  /\ \A p \in Partitions : WF_vars(ClaimReceive(m, p)) /\ WF_vars(ClaimStep(m, p))
  /\ \A w \in Workers : WF_vars(WorkerStep(m, w)) /\ WF_vars(WorkerReturn(m, w))
  /\ WF_vars(ErrorHandlerReturn(m))
  /\ WF_vars(StartConsumeReturn(m))

Fairness == WF_vars(FormGroup) /\ \A m \in Members : MemberFairness(m)

Spec == Init /\ [][Next]_vars

FairSpec == Spec /\ Fairness
=============================================================================
