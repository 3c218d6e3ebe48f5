----------------------------- MODULE GroupFate -----------------------------
(***************************************************************************)
(* What a consumer group promises of every message, whoever its members    *)
(* are: one copy of it is taken off the topic, and one more at the most    *)
(* for each session that was aborted before it committed; each copy is     *)
(* held until it becomes a row or is lost; no message is passed over,      *)
(* except those skipped when the group began; and only what has been taken *)
(* or skipped is ever committed.                                           *)
(***************************************************************************)
EXTENDS Naturals

CONSTANTS
  Msg,
  Earlier     \* [Msg -> SUBSET Msg], the messages before it in its partition

VARIABLES
  logged,     \* the messages in the topic
  held,       \* [Msg -> Nat], the copies in the members' memories
  rows,       \* [Msg -> Nat], the copies in the database
  lost,       \* messages of which a copy was let go of
  skipped,    \* messages that precede the group's start
  done,       \* messages the group has committed
  aborts      \* sessions that were aborted

fate == << logged, held, rows, lost, skipped, done, aborts >>

Init ==
  /\ logged = {} /\ lost = {} /\ skipped = {} /\ done = {}
  /\ held = [msg \in Msg |-> 0] /\ rows = [msg \in Msg |-> 0]
  /\ aborts = 0

Append(msg) ==
  /\ msg \notin logged
  /\ logged' = logged \cup {msg}
  /\ UNCHANGED << held, rows, lost, skipped, done, aborts >>

Taken(msg) == held[msg] > 0 \/ rows[msg] > 0 \/ msg \in lost

TakenOrSkipped(S) == \A msg \in S : Taken(msg) \/ msg \in skipped

Take(msg) ==
  /\ msg \in logged /\ held[msg] + rows[msg] <= aborts
  /\ TakenOrSkipped(Earlier[msg])
  /\ held' = [held EXCEPT ![msg] = @ + 1]
  /\ UNCHANGED << logged, rows, lost, skipped, done, aborts >>

Store(msg) ==
  /\ held[msg] > 0
  /\ held' = [held EXCEPT ![msg] = @ - 1]
  /\ rows' = [rows EXCEPT ![msg] = @ + 1]
  /\ UNCHANGED << logged, lost, skipped, done, aborts >>

\* A member lets go of some copies, of none, of all it holds; its session may
\* be aborted with that.
LetGo ==
  /\ held' \in [Msg -> 0 .. aborts + 1]
  /\ \A msg \in Msg : held'[msg] <= held[msg]
  /\ lost' = lost \cup { msg \in Msg : held'[msg] < held[msg] }
  /\ aborts' \in {aborts, aborts + 1}
  /\ UNCHANGED << logged, rows, skipped, done >>

Skip(S) ==
  /\ S \subseteq logged \ done
  /\ skipped' = skipped \cup S
  /\ UNCHANGED << logged, held, rows, lost, done, aborts >>

\* Offsets are committed: of each partition all messages before one.
Commit(S) ==
  /\ TakenOrSkipped(S)
  /\ \A msg \in S : Earlier[msg] \subseteq S \cup done
  /\ done' = done \cup S
  /\ UNCHANGED << logged, held, rows, lost, skipped, aborts >>

Next ==
  \/ \E msg \in Msg : Append(msg) \/ Take(msg) \/ Store(msg)
  \/ LetGo
  \/ \E S \in SUBSET Msg : Skip(S) \/ Commit(S)

Spec == Init /\ [][Next]_fate
=============================================================================
