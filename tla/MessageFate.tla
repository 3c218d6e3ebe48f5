---------------------------- MODULE MessageFate ----------------------------
(***************************************************************************)
(* What a consumer without committed offsets promises of every message:    *)
(* it is taken off the topic at most once, and from then on it is held     *)
(* until it gets its row or is lost. A message that was in the topic       *)
(* before the consumer (re)started is missed.                              *)
(***************************************************************************)
CONSTANT Msg

VARIABLE fate   \* [Msg -> Fates]

Fates == {"absent", "logged", "held", "stored", "lost", "missed"}

With(S) == { msg \in Msg : fate[msg] \in S }

\* All the messages of S go to state f.
Become(S, f) == fate' = [msg \in Msg |-> IF msg \in S THEN f ELSE fate[msg]]

Init == fate = [msg \in Msg |-> "absent"]

Append(msg) == fate[msg] = "absent" /\ Become({msg}, "logged")
Take(msg)   == fate[msg] = "logged" /\ Become({msg}, "held")
Store(msg)  == fate[msg] = "held"   /\ Become({msg}, "stored")
Lose(S)     == S \subseteq With({"held"}) /\ Become(S, "lost")
Miss(S)     == S \subseteq With({"logged"}) /\ Become(S, "missed")

Next ==
  \/ \E msg \in Msg : Append(msg) \/ Take(msg) \/ Store(msg)
  \/ \E S \in SUBSET Msg : Lose(S) \/ Miss(S)

Spec == Init /\ [][Next]_fate
=============================================================================
