----------------------------- MODULE LaunchProofs -----------------------------
(***************************************************************************)
(* Proofs about Launch, for all environments, for callers with any         *)
(* options, for any times at which the services become reachable, and for  *)
(* any numbers of attempts.                                                *)
(***************************************************************************)
EXTENDS Launch, OptionsProofs, SequenceTheorems

-----------------------------------------------------------------------------
(***************************************************************************)
(* The plans.                                                              *)
(***************************************************************************)

LEMMA ServerPlan ==
  ASSUME program = "webhookserver"
  PROVE  /\ Len(Plan) = 10
         /\ Plan[1] = Do("parse") /\ Plan[2] = MakeLogger(env)
         /\ Plan[3] = Make("producer", Connection(env))
         /\ Plan[4] = Do("connect") /\ Plan[5] = Do("queues")
         /\ Plan[6] = Make("health", << Option("Version", "version") >>)
         /\ Plan[7] = MakeHandler("github", env.GITHUB_HMAC_SECRET)
         /\ Plan[8] = MakeHandler("gitlab", env.GITLAB_HMAC_SECRET)
         /\ Plan[9] = MakeServer(env) /\ Plan[10] = Do("serve")
<1>1. Plan = WebhookServerPlan(env)
  BY DEF Plan, Consumers
<1> QED BY <1>1 DEF WebhookServerPlan

Provider == Consumers[program][1]
Kind     == Consumers[program][2]

LEMMA ConsumerPlanIs ==
  ASSUME program \in DOMAIN Consumers
  PROVE  /\ Len(Plan) = 7
         /\ Plan[1] = Do("parse") /\ Plan[2] = MakeLogger(env)
         /\ Plan[3] = MakeStorage(Provider, env) /\ Plan[4] = Do("ping")
         /\ Plan[5] = Make(Kind, Connection(env) \o OwnOptions(Kind, env))
         /\ Plan[6] = Do("connect") /\ Plan[7] = Do("serve")
<1>1. Plan = ConsumerPlan(Provider, Kind, env)
  BY DEF Plan, Consumers, Provider, Kind
<1> QED BY <1>1 DEF ConsumerPlan

LEMMA ConsumersAre ==
  /\ DOMAIN Consumers = {"githubconsumer", "githubconsumergroup", "gitlabconsumer", "gitlabconsumergroup"}
  /\ program \in DOMAIN Consumers =>
       /\ Provider \in Providers /\ Kind \in {"consumer", "group"}
       /\ Kind = "group" <=> program \in {"githubconsumergroup", "gitlabconsumergroup"}
BY DEF Consumers, Provider, Kind, Providers

LEMMA CallerPlan ==
  ASSUME program = "caller"
  PROVE  Len(Plan) = 1 /\ Plan[1] = Make(env.constructor, env.options)
<1>1. Plan = << Make(env.constructor, env.options) >>
  BY DEF Plan, Consumers
<1> QED BY <1>1

LEMMA PlanStays ==
  ASSUME UNCHANGED << program, env >>
  PROVE  Plan' = Plan
BY DEF Plan

\* What Run does, and when.
LEMMA ServerDoes ==
  ASSUME program = "webhookserver"
  PROVE  /\ Len(Plan) = 10
         /\ Plan[1].does = "parse" /\ Plan[2].does = "new" /\ Plan[3].does = "new"
         /\ Plan[4].does = "connect" /\ Plan[5].does = "queues" /\ Plan[6].does = "new"
         /\ Plan[7].does = "new" /\ Plan[8].does = "new" /\ Plan[9].does = "new"
         /\ Plan[10].does = "serve"
BY ServerPlan DEF Do, Make, MakeLogger, MakeServer, MakeHandler

LEMMA ConsumerDoes ==
  ASSUME program \in DOMAIN Consumers
  PROVE  /\ Len(Plan) = 7
         /\ Plan[1].does = "parse" /\ Plan[2].does = "new" /\ Plan[3].does = "new"
         /\ Plan[4].does = "ping" /\ Plan[5].does = "new" /\ Plan[6].does = "connect"
         /\ Plan[7].does = "serve"
BY ConsumerPlanIs DEF Do, Make, MakeLogger, MakeStorage

LEMMA ServerAt ==
  ASSUME program = "webhookserver", done \in 0 .. Len(Plan), NEW what, At(what)
  PROVE  /\ done \in 0 .. 9
         /\ what = "parse" <=> done = 0
         /\ what = "new" <=> done \in {1, 2, 5, 6, 7, 8}
         /\ what # "ping"
         /\ what = "connect" <=> done = 3
         /\ what = "queues" <=> done = 4
         /\ what = "serve" <=> done = 9
<1>1. Len(Plan) = 10
  BY ServerDoes
<1>2. done \in 0 .. 9 /\ what = Plan[done + 1].does
  BY <1>1 DEF At, Step
<1>3. done = 0 \/ done = 1 \/ done = 2 \/ done = 3 \/ done = 4 \/ done = 5 \/ done = 6 \/ done = 7 \/ done = 8 \/ done = 9
  BY <1>2
<1>4. done = 0 => what = "parse"
  BY <1>2, ServerDoes
<1>5. done = 1 => what = "new"
  BY <1>2, ServerDoes
<1>6. done = 2 => what = "new"
  BY <1>2, ServerDoes
<1>7. done = 3 => what = "connect"
  BY <1>2, ServerDoes
<1>8. done = 4 => what = "queues"
  BY <1>2, ServerDoes
<1>9. done = 5 => what = "new"
  BY <1>2, ServerDoes
<1>10. done = 6 => what = "new"
  BY <1>2, ServerDoes
<1>11. done = 7 => what = "new"
  BY <1>2, ServerDoes
<1>12. done = 8 => what = "new"
  BY <1>2, ServerDoes
<1>13. done = 9 => what = "serve"
  BY <1>2, ServerDoes
<1> QED BY <1>2, <1>3, <1>4, <1>5, <1>6, <1>7, <1>8, <1>9, <1>10, <1>11, <1>12, <1>13

LEMMA ConsumerAt ==
  ASSUME program \in DOMAIN Consumers, done \in 0 .. Len(Plan), NEW what, At(what)
  PROVE  /\ done \in 0 .. 6
         /\ what = "parse" <=> done = 0
         /\ what = "new" <=> done \in {1, 2, 4}
         /\ what = "ping" <=> done = 3
         /\ what = "connect" <=> done = 5
         /\ what # "queues"
         /\ what = "serve" <=> done = 6
<1>1. Len(Plan) = 7
  BY ConsumerDoes
<1>2. done \in 0 .. 6 /\ what = Plan[done + 1].does
  BY <1>1 DEF At, Step
<1>3. done = 0 \/ done = 1 \/ done = 2 \/ done = 3 \/ done = 4 \/ done = 5 \/ done = 6
  BY <1>2
<1>4. done = 0 => what = "parse"
  BY <1>2, ConsumerDoes
<1>5. done = 1 => what = "new"
  BY <1>2, ConsumerDoes
<1>6. done = 2 => what = "new"
  BY <1>2, ConsumerDoes
<1>7. done = 3 => what = "ping"
  BY <1>2, ConsumerDoes
<1>8. done = 4 => what = "new"
  BY <1>2, ConsumerDoes
<1>9. done = 5 => what = "connect"
  BY <1>2, ConsumerDoes
<1>10. done = 6 => what = "serve"
  BY <1>2, ConsumerDoes
<1> QED BY <1>2, <1>3, <1>4, <1>5, <1>6, <1>7, <1>8, <1>9, <1>10

LEMMA CallerAt ==
  ASSUME program = "caller", done \in 0 .. Len(Plan), NEW what, At(what)
  PROVE  done = 0 /\ what = "new"
<1>1. Len(Plan) = 1 /\ Plan[1].does = "new"
  BY CallerPlan DEF Make
<1>2. done = 0 /\ what = Plan[done + 1].does
  BY <1>1 DEF At, Step
<1> QED BY <1>1, <1>2

IsServer   == program = "webhookserver"
IsConsumer == program \in DOMAIN Consumers
IsCaller   == program = "caller"

\* How far the plan can have been followed.
Placed == /\ IsServer \/ IsConsumer \/ IsCaller
          /\ done \in 0 .. Len(Plan)

LEMMA OneProgram ==
  /\ IsServer => ~IsConsumer /\ ~IsCaller
  /\ IsConsumer => ~IsServer /\ ~IsCaller
  /\ IsCaller => ~IsServer /\ ~IsConsumer
  /\ program \in Programs \cup {"caller"} <=> IsServer \/ IsConsumer \/ IsCaller
BY ConsumersAre DEF IsServer, IsConsumer, IsCaller, Programs

LEMMA Where ==
  ASSUME Placed, NEW what, At(what)
  PROVE  /\ done \in Nat /\ done + 1 \in 0 .. Len(Plan)
         /\ IsServer => /\ done \in 0 .. 9
                        /\ what = "parse" <=> done = 0
                        /\ what = "new" <=> done \in {1, 2, 5, 6, 7, 8}
                        /\ what # "ping"
                        /\ what = "connect" <=> done = 3
                        /\ what = "queues" <=> done = 4
                        /\ what = "serve" <=> done = 9
         /\ IsConsumer => /\ done \in 0 .. 6
                          /\ what = "parse" <=> done = 0
                          /\ what = "new" <=> done \in {1, 2, 4}
                          /\ what = "ping" <=> done = 3
                          /\ what = "connect" <=> done = 5
                          /\ what # "queues"
                          /\ what = "serve" <=> done = 6
         /\ IsCaller => done = 0 /\ what = "new"
<1>1. CASE IsServer
  <2>1. Len(Plan) = 10
    BY <1>1, ServerDoes DEF IsServer
  <2>2. /\ done \in 0 .. 9
        /\ what = "parse" <=> done = 0
        /\ what = "new" <=> done \in {1, 2, 5, 6, 7, 8}
        /\ what # "ping"
        /\ what = "connect" <=> done = 3
        /\ what = "queues" <=> done = 4
        /\ what = "serve" <=> done = 9
    BY <1>1, ServerAt, Zenon DEF Placed, IsServer
  <2>3. ~IsConsumer /\ ~IsCaller
    BY <1>1, OneProgram
  <2>4. done \in Nat /\ done + 1 \in 0 .. Len(Plan)
    BY <2>1, <2>2
  <2> QED BY <1>1, <2>2, <2>3, <2>4
<1>2. CASE IsConsumer
  <2>1. Len(Plan) = 7
    BY <1>2, ConsumerDoes DEF IsConsumer
  <2>2. /\ done \in 0 .. 6
        /\ what = "parse" <=> done = 0
        /\ what = "new" <=> done \in {1, 2, 4}
        /\ what = "ping" <=> done = 3
        /\ what = "connect" <=> done = 5
        /\ what # "queues"
        /\ what = "serve" <=> done = 6
    BY <1>2, ConsumerAt, Zenon DEF Placed, IsConsumer
  <2>3. ~IsServer /\ ~IsCaller
    BY <1>2, OneProgram
  <2>4. done \in Nat /\ done + 1 \in 0 .. Len(Plan)
    BY <2>1, <2>2
  <2> QED BY <1>2, <2>2, <2>3, <2>4
<1>3. CASE IsCaller
  <2>1. Len(Plan) = 1
    BY <1>3, CallerPlan DEF IsCaller
  <2> QED BY <1>3, <2>1, OneProgram, CallerAt DEF Placed, IsCaller
<1> QED BY <1>1, <1>2, <1>3 DEF Placed

-----------------------------------------------------------------------------
(***************************************************************************)
(* What is deferred, and what is closed.                                   *)
(***************************************************************************)

\* What Run has deferred closing, from what it has done.
HasDeferred ==
  /\ IsServer => deferred = IF done <= 3 THEN << >> ELSE << "client" >>
  /\ IsConsumer => deferred = IF done <= 3 THEN << >> ELSE IF done <= 5 THEN << "pool" >>
                             ELSE << client, "pool" >>
  /\ IsCaller => deferred = << >>

\* Where the client is.
HasClient ==
  /\ client \in {"nil", "client"}
  /\ IsServer => (client = "client" <=> done >= 4)
  /\ IsConsumer /\ done <= 5 => client = "nil"
  /\ IsCaller => client = "nil"

\* What serves has done all of the plan.
Serves == status = "serving" => client = "client" /\ done = Len(Plan)

\* What has been closed.
HasClosed ==
  status \in {"ended", "failed"} =>
    /\ closed = IF GroupServed THEN << client >> \o deferred ELSE deferred
    /\ GroupServed => client = "client"
    /\ "nil" \notin ToSet(deferred)

DeferInv == Placed /\ HasDeferred /\ HasClient /\ Serves /\ HasClosed

LEMMA PlacedInit == Init => Placed
<1> SUFFICES ASSUME Init PROVE Placed
  OBVIOUS
<1>1. IsServer \/ IsConsumer \/ IsCaller
  BY OneProgram DEF Init
<1>2. Len(Plan) \in Nat /\ done = 0
  BY <1>1, ServerDoes, ConsumerDoes, CallerPlan DEF Init, IsServer, IsConsumer, IsCaller
<1> QED BY <1>1, <1>2 DEF Placed

\* The program and its environment never change, and the plan is followed step
\* by step.
LEMMA PlacedNext ==
  ASSUME Placed, [Next]_vars
  PROVE  /\ Placed' /\ Plan' = Plan /\ UNCHANGED world
         /\ done' = done \/ done' = done + 1
<1>1. UNCHANGED world
  BY DEF Next, StartStep, PingStep, ConnectStep, ParseEnvironment, Construct, PingReturns, PingFails,
    PingGivesUp, Connect, ConnectFails, ConnectLoopEnds, MakeQueues, Serve, NoSuchPartition, Return,
    GroupReturn,
    SleepFrom, vars
<1>2. Plan' = Plan
  BY <1>1, PlanStays DEF world
<1>3. \/ done' = done
      \/ done' = done + 1 /\ \E what : At(what)
  BY DEF Next, StartStep, PingStep, ConnectStep, ParseEnvironment, Construct, PingReturns, PingFails,
    PingGivesUp, Connect, ConnectFails, ConnectLoopEnds, MakeQueues, Serve, NoSuchPartition, Return,
    GroupReturn,
    SleepFrom, vars, GoOn, Leave, Die
<1>4. done' \in 0 .. Len(Plan)
  BY <1>3, Where DEF Placed
<1>5. (IsServer \/ IsConsumer \/ IsCaller)'
  BY <1>1 DEF Placed, world, IsServer, IsConsumer, IsCaller
<1> QED BY <1>1, <1>2, <1>3, <1>4, <1>5 DEF Placed

LEMMA InFront ==
  ASSUME NEW a, NEW b
  PROVE  << a >> \o << b >> = << a, b >>
<1> DEFINE s == << a >> \o << b >>
           t == << a, b >>
<1>1. Len(s) = 2 /\ s[1] = a /\ s[2] = b /\ DOMAIN s = 1 .. 2
  OBVIOUS
<1>2. s = [ i \in 1 .. 2 |-> s[i] ] /\ t = [ i \in 1 .. 2 |-> t[i] ]
  BY <1>1
<1>3. \A i \in 1 .. 2 : s[i] = t[i]
  BY <1>1
<1> HIDE DEF s, t
<1> QED BY <1>2, <1>3 DEF s, t

\* A step that leaves the client and what is deferred alone, and the plan where
\* it is or past something that is not a connection or a ping.
LEMMA DeferStays ==
  ASSUME DeferInv, Placed',
         UNCHANGED << world, client, deferred >>,
         \/ done' = done
         \/ \E what \in {"parse", "new", "queues", "serve"} : At(what) /\ done' = done + 1
  PROVE  HasDeferred' /\ HasClient'
<1>1. /\ IsServer' <=> IsServer
      /\ IsConsumer' <=> IsConsumer
      /\ IsCaller' <=> IsCaller
  BY DEF world, IsServer, IsConsumer, IsCaller
<1>2. done \in Int
  BY DEF DeferInv, Placed
<1>3. /\ IsServer => (done' <= 3 <=> done <= 3) /\ (done' >= 4 <=> done >= 4)
      /\ IsConsumer => (done' <= 3 <=> done <= 3) /\ (done' <= 5 <=> done <= 5)
  BY <1>2, Where DEF DeferInv
<1>4. HasDeferred /\ HasClient
  BY DEF DeferInv
<1> QED BY <1>1, <1>3, <1>4 DEF HasDeferred, HasClient

\* Leaving closes what is deferred.
LEMMA LeaveCloses ==
  ASSUME Placed, NEW how, how # "serving", Leave(how), UNCHANGED << world, client, deferred >>,
         program \notin Groups \/ \E what : At(what)
  PROVE  HasClosed' /\ Serves' /\ UNCHANGED done
<1>1. done' = done /\ program' = program /\ Plan' = Plan
  BY PlanStays DEF Leave, world
<1>2. ~GroupServed'
  <2>1. (\E what : At(what)) => done # Len(Plan)
    BY Where
  <2> QED BY <1>1, <2>1 DEF GroupServed
<1>3. status' \in {how, "panicked"} /\ (status' # "panicked" => closed' = deferred' /\ "nil" \notin ToSet(deferred'))
  BY DEF Leave
<1> QED BY <1>1, <1>2, <1>3 DEF HasClosed, Serves

\* A step of a start that goes on, and one that changes nothing of this.
LEMMA CloseStays ==
  ASSUME DeferInv, Placed',
         UNCHANGED << world, status, closed >>,
         UNCHANGED << done, client, deferred >> \/ \E what : At(what)
  PROVE  HasClosed' /\ Serves'
<1>1. CASE \E what : At(what)
  BY <1>1 DEF At, HasClosed, Serves
<1>2. CASE UNCHANGED << done, client, deferred >>
  <2>1. (GroupServed' <=> GroupServed) /\ Plan' = Plan
    BY <1>2, PlanStays DEF GroupServed, world
  <2> QED BY <1>2, <2>1 DEF DeferInv, HasClosed, Serves
<1> QED BY <1>1, <1>2

LEMMA DeferNext ==
  ASSUME DeferInv, [Next]_vars
  PROVE  DeferInv'
<1> USE DEF DeferInv
<1>1. Placed' /\ UNCHANGED world
  BY PlacedNext
<1>2. CASE ParseEnvironment
  <2>1. /\ UNCHANGED << client, deferred >> /\ At("parse")
        /\ \/ done' = done + 1 /\ UNCHANGED << status, closed >>
           \/ Leave("failed")
    BY <1>2 DEF ParseEnvironment, loop, GoOn
  <2> QED BY <1>1, <2>1, LeaveCloses, CloseStays, DeferStays
<1>3. CASE Construct
  <2>1. /\ UNCHANGED << client, deferred >> /\ At("new")
        /\ \/ done' = done + 1 /\ UNCHANGED << status, closed >>
           \/ Leave("failed")
    BY <1>3 DEF Construct, GoOn
  <2> QED BY <1>1, <2>1, LeaveCloses, CloseStays, DeferStays
<1>4. CASE PingReturns
  <2>1. /\ At("ping") /\ done' = done + 1 /\ client' = client /\ UNCHANGED << status, closed >>
        /\ deferred' = << "pool" >> \o deferred
    BY <1>4 DEF PingReturns, GoOn
  <2>2. IsConsumer /\ ~IsServer /\ ~IsCaller /\ done = 3
    BY <2>1, Where, OneProgram DEF Placed
  <2>3. deferred = << >> /\ client = "nil"
    BY <2>2 DEF HasDeferred, HasClient
  <2>4. deferred' = << "pool" >> /\ client' = "nil" /\ done' = 4
    BY <2>1, <2>2, <2>3
  <2>5. IsConsumer' /\ ~IsServer' /\ ~IsCaller'
    BY <1>1, <2>2 DEF world, IsServer, IsConsumer, IsCaller
  <2>6. HasDeferred' /\ HasClient'
    BY <2>4, <2>5 DEF HasDeferred, HasClient
  <2>7. HasClosed' /\ Serves'
    BY <1>1, <2>1, CloseStays
  <2> QED BY <1>1, <2>6, <2>7
<1>5. CASE PingFails \/ ConnectFails
  <2>1. UNCHANGED << client, deferred, status, closed, done >>
    BY <1>5 DEF PingFails, ConnectFails, SleepFrom, ends
  <2> QED BY <1>1, <2>1, CloseStays, DeferStays
<1>6. CASE PingGivesUp
  <2>1. UNCHANGED << client, deferred >> /\ Leave("failed") /\ At("ping")
    BY <1>6 DEF PingGivesUp, loop
  <2> QED BY <1>1, <2>1, LeaveCloses, CloseStays, DeferStays
<1>7. CASE Connect
  <2>1. /\ At("connect") /\ done' = done + 1 /\ client' = "client" /\ UNCHANGED << status, closed >>
        /\ deferred' = << "client" >> \o deferred
    BY <1>7 DEF Connect, GoOn, DeferClient
  <2>2. HasClosed' /\ Serves'
    BY <1>1, <2>1, CloseStays
  <2>3. CASE IsServer
    <3>1. done = 3 /\ ~IsConsumer /\ ~IsCaller /\ deferred = << >>
      BY <2>1, <2>3, Where, OneProgram DEF HasDeferred
    <3>2. deferred' = << "client" >> /\ done' = 4
      BY <2>1, <3>1
    <3>3. IsServer' /\ ~IsConsumer' /\ ~IsCaller'
      BY <1>1, <2>3, <3>1 DEF world, IsServer, IsConsumer, IsCaller
    <3> QED BY <1>1, <2>1, <2>2, <3>2, <3>3 DEF HasDeferred, HasClient
  <2>4. CASE IsConsumer
    <3>1. done = 5 /\ ~IsServer /\ ~IsCaller /\ deferred = << "pool" >>
      BY <2>1, <2>4, Where, OneProgram DEF HasDeferred
    <3>2. deferred' = << client', "pool" >> /\ done' = 6
      BY <2>1, <3>1, InFront
    <3>3. IsConsumer' /\ ~IsServer' /\ ~IsCaller'
      BY <1>1, <2>4, <3>1 DEF world, IsServer, IsConsumer, IsCaller
    <3>4. HasDeferred'
      BY <3>2, <3>3 DEF HasDeferred
    <3>5. HasClient'
      BY <2>1, <3>2, <3>3 DEF HasClient
    <3> QED BY <1>1, <2>2, <3>4, <3>5
  <2> QED BY <2>1, <2>3, <2>4, Where DEF Placed
<1>8. CASE ConnectLoopEnds
  <2>1. CASE \E how \in {"failed", "panicked"} : At("connect") /\ Leave(how) /\ UNCHANGED << client, deferred >>
    BY <1>1, <2>1, LeaveCloses, CloseStays, DeferStays
  <2>2. CASE program # "webhookserver" /\ GoOn /\ DeferClient("nil")
    <3>1. At("connect") /\ client' = client /\ UNCHANGED << status, closed >> /\ done' = done + 1
      BY <1>8, <2>2 DEF ConnectLoopEnds, loop, GoOn
    <3>2. IsConsumer /\ ~IsServer /\ ~IsCaller /\ done = 5
      BY <2>2, <3>1, Where, OneProgram DEF Placed, IsServer
    <3>3. deferred = << "pool" >> /\ client = "nil"
      BY <3>2 DEF HasDeferred, HasClient
    <3>4. deferred' = << "nil", "pool" >> /\ done' = 6 /\ client' = "nil"
      BY <2>2, <3>1, <3>2, <3>3, InFront DEF DeferClient
    <3>5. IsConsumer' /\ ~IsServer' /\ ~IsCaller'
      BY <1>1, <3>2 DEF world, IsServer, IsConsumer, IsCaller
    <3>6. HasDeferred' /\ HasClient'
      BY <3>4, <3>5 DEF HasDeferred, HasClient
    <3>7. HasClosed' /\ Serves'
      BY <1>1, <3>1, CloseStays
    <3> QED BY <1>1, <3>6, <3>7
  <2> QED BY <1>8, <2>1, <2>2 DEF ConnectLoopEnds, loop
<1>9. CASE MakeQueues
  <2>1. /\ UNCHANGED << client, deferred >> /\ At("queues")
        /\ \/ done' = done + 1 /\ UNCHANGED << status, closed >>
           \/ Leave("panicked")
    BY <1>9 DEF MakeQueues, loop, GoOn
  <2> QED BY <1>1, <2>1, LeaveCloses, CloseStays, DeferStays
<1>10. CASE Serve
  <2>1. /\ UNCHANGED << client, deferred >> /\ At("serve")
        /\ \/ done' = done + 1 /\ status' = "serving" /\ client = "client"
           \/ Leave("panicked")
           \/ done' = done /\ status' = "panicked"
    BY <1>10 DEF Serve, loop, Die
  <2>2. HasClosed' /\ Serves'
    <3>1. CASE done' = done + 1 /\ status' = "serving" /\ client = "client"
      <4>1. done + 1 = Len(Plan)
        <5>1. CASE IsServer
          BY <2>1, <5>1, Where, ServerDoes DEF IsServer
        <5>2. CASE IsConsumer
          BY <2>1, <5>2, Where, ConsumerDoes DEF IsConsumer
        <5>3. IsServer \/ IsConsumer
          BY <2>1, Where DEF Placed
        <5> QED BY <5>1, <5>2, <5>3
      <4>2. Plan' = Plan
        BY <1>1, PlanStays DEF world
      <4> QED BY <2>1, <3>1, <4>1, <4>2 DEF HasClosed, Serves
    <3>2. CASE status' = "panicked"
      BY <3>2 DEF HasClosed, Serves
    <3> QED BY <1>1, <2>1, <3>1, <3>2, LeaveCloses
  <2>3. HasDeferred' /\ HasClient'
    BY <1>1, <2>1, DeferStays DEF Leave
  <2> QED BY <1>1, <2>2, <2>3
<1>11. CASE NoSuchPartition
  <2>1. UNCHANGED << client, deferred >> /\ Leave("failed") /\ At("serve")
    BY <1>11 DEF NoSuchPartition, loop
  <2> QED BY <1>1, <2>1, LeaveCloses, DeferStays
<1>13. CASE Return
  <2>1. UNCHANGED << client, deferred >> /\ Leave("ended") /\ program \notin Groups
    BY <1>13 DEF Return, loop
  <2> QED BY <1>1, <2>1, LeaveCloses, DeferStays
<1>14. CASE GroupReturn
  <2>1. /\ UNCHANGED << client, deferred, done >> /\ status = "serving" /\ program \in Groups
        /\ status' \in {"ended", "failed"} /\ closed' = << client >> \o deferred
    BY <1>14 DEF GroupReturn, loop
  <2>2. client = "client" /\ done = Len(Plan)
    BY <2>1 DEF Serves
  <2>3. HasDeferred' /\ HasClient'
    BY <1>1, <2>1, DeferStays
  <2>4. "nil" \notin ToSet(deferred)
    <3>1. deferred \in {<< >>, << "pool" >>, << "client" >>, << "client", "pool" >>}
      BY <2>2, OneProgram DEF HasDeferred, Placed
    <3> QED BY <3>1 DEF ToSet
  <2>5. GroupServed' /\ closed' = << client' >> \o deferred'
    BY <1>1, <2>1, <2>2, PlanStays DEF GroupServed, world
  <2> QED BY <1>1, <2>1, <2>2, <2>3, <2>4, <2>5 DEF HasClosed, Serves
<1>12. CASE UNCHANGED vars
  <2>1. UNCHANGED << client, deferred, status, closed, done >>
    BY <1>12 DEF vars, ends, loop
  <2> QED BY <1>1, <2>1, CloseStays, DeferStays
<1> QED BY <1>2, <1>3, <1>4, <1>5, <1>6, <1>7, <1>8, <1>9, <1>10, <1>11, <1>12, <1>13, <1>14
  DEF Next, StartStep, PingStep, ConnectStep

LEMMA DeferInit == Init => DeferInv
<1> SUFFICES ASSUME Init PROVE DeferInv
  OBVIOUS
<1>1. done = 0 /\ deferred = << >> /\ client = "nil" /\ status = "starting"
  BY DEF Init
<1> QED BY <1>1, PlacedInit DEF DeferInv, HasDeferred, HasClient, Serves, HasClosed

LEMMA DeferAlways == Spec => []DeferInv
BY DeferInit, DeferNext, PTL DEF Spec

LEMMA DeferImpliesOrder == DeferInv => ClosedInOrder
<1> SUFFICES ASSUME DeferInv, status \in {"ended", "failed"}
             PROVE  /\ ClosedBefore("client", "pool")
                    /\ IF GroupServed THEN Head(closed) = "client" /\ IsInjective(Tail(closed))
                                      ELSE IsInjective(closed)
                    /\ ("client" \in ToSet(closed)) <=> (client = "client")
                    /\ program # "webhookserver" /\ client = "client" => "pool" \in ToSet(closed)
  BY DEF ClosedInOrder
<1>1. /\ closed = IF GroupServed THEN << client >> \o deferred ELSE deferred
      /\ GroupServed => client = "client"
      /\ HasDeferred /\ HasClient /\ Placed /\ "nil" \notin ToSet(deferred)
  BY DEF DeferInv, HasClosed
<1>2. CASE closed = << >> /\ client = "nil" /\ ~GroupServed
  BY <1>2 DEF ClosedBefore, IsInjective, ToSet
<1>3. CASE closed = << "client" >> /\ client = "client" /\ IsServer /\ ~GroupServed
  BY <1>3 DEF ClosedBefore, IsInjective, ToSet, IsServer
<1>4. CASE closed = << "pool" >> /\ client = "nil" /\ ~GroupServed
  BY <1>4 DEF ClosedBefore, IsInjective, ToSet
<1>5. CASE closed = << "client", "pool" >> /\ client = "client" /\ ~GroupServed
  BY <1>5 DEF ClosedBefore, IsInjective, ToSet
<1>6. CASE closed = << "client" >> \o << "client", "pool" >> /\ client = "client" /\ GroupServed
  <2>1. /\ closed \in Seq({"client", "pool"}) /\ Len(closed) = 3
        /\ closed[1] = "client" /\ closed[2] = "client" /\ closed[3] = "pool"
    BY <1>6
  <2>2. Head(closed) = "client"
    BY <2>1
  <2>3. IsInjective(Tail(closed))
    <3>1. closed # << >>
      BY <2>1
    <3>2. /\ Tail(closed) \in Seq({"client", "pool"}) /\ Len(Tail(closed)) = Len(closed) - 1
          /\ \A i \in 1 .. Len(Tail(closed)) : Tail(closed)[i] = closed[i + 1]
      BY <2>1, <3>1, HeadTailProperties
    <3> DEFINE tail == Tail(closed)
    <3> HIDE DEF tail
    <3>3. tail \in Seq({"client", "pool"}) /\ Len(tail) = 2 /\ tail[1] = "client" /\ tail[2] = "pool"
      BY <2>1, <3>2 DEF tail
    <3>4. IsInjective(tail)
      BY <3>3 DEF IsInjective
    <3> QED BY <3>4 DEF tail
  <2>4. DOMAIN closed = 1 .. 3
    BY <2>1
  <2>5. ClosedBefore("client", "pool")
    BY <2>1, <2>4 DEF ClosedBefore
  <2>6. "client" \in ToSet(closed) /\ "pool" \in ToSet(closed)
    BY <2>1, <2>4 DEF ToSet
  <2> QED BY <1>6, <2>2, <2>3, <2>5, <2>6
<1>7. GroupServed => IsConsumer /\ deferred = << "client", "pool" >>
  <2>1. GroupServed => IsConsumer /\ ~IsServer /\ ~IsCaller
    BY <1>1, ConsumersAre, OneProgram DEF GroupServed, Groups, IsConsumer, Placed
  <2>2. IsConsumer => Len(Plan) = 7
    BY ConsumerDoes DEF IsConsumer
  <2> QED BY <1>1, <2>1, <2>2 DEF HasDeferred, GroupServed
<1>8. CASE ~GroupServed
  <2>1. deferred = << client, "pool" >> => client = "client"
    <3>1. deferred = << client, "pool" >> => deferred[1] = client /\ 1 \in DOMAIN deferred
      OBVIOUS
    <3> QED BY <1>1, <3>1 DEF ToSet, HasClient
  <2>2. CASE IsServer
    BY <1>1, <1>2, <1>3, <1>8, <2>2 DEF HasDeferred, HasClient, Placed
  <2>3. CASE IsConsumer
    BY <1>1, <1>2, <1>4, <1>5, <1>8, <2>1, <2>3 DEF HasDeferred, HasClient, Placed
  <2>4. CASE IsCaller
    BY <1>1, <1>2, <1>8, <2>4 DEF HasDeferred, HasClient
  <2> QED BY <1>1, <2>2, <2>3, <2>4 DEF Placed
<1> QED BY <1>1, <1>6, <1>7, <1>8

\* A program that ends or gives up has closed all it had deferred closing, the
\* client before the pool its workers store through, and nothing twice, but for
\* the group StartConsume has closed first of all.
THEOREM ResourcesClosedInOrder == Spec => []ClosedInOrder
BY DeferAlways, DeferImpliesOrder, PTL

-----------------------------------------------------------------------------
(***************************************************************************)
(* What the programs make, and from which options.                         *)
(***************************************************************************)

LEMMA OptionIs ==
  \A f, v : Option(f, v).field = f /\ Option(f, v).value = v
BY DEF Option

\* The fields of each constructor.
LEMMA FieldsOf ==
  /\ DOMAIN Defaults("logger") = {"Level", "Writer"}
  /\ DOMAIN Defaults("health") = {"Version"}
  /\ \A c \in Handlers : DOMAIN Defaults(c) = {"Logger", "Topic", "Secret", "MessageQueue"}
  /\ \A c \in Storages : DOMAIN Defaults(c) = {"Logger", "DatabaseDSN"}
  /\ DOMAIN Defaults("server") = {"Logger", "Handlers", "KafkaGitHubTopic", "KafkaBrokers",
                                "ListenAddr", "ReadTimeout", "WriteTimeout", "IdleTimeout"}
<1> USE DEF Handlers, Storages
<1>1. Defaults("logger") = [ Level |-> "nil", Writer |-> "nil" ] /\ Defaults("health") = [ Version |-> Empty ]
  BY DEF Defaults
<1>2. Defaults("server") = ServerDefaults
  BY DEF Defaults
<1>3. \A c \in Handlers : Defaults(c) = HandlerDefaults
  BY DEF Defaults
<1>4. \A c \in Storages : Defaults(c) = StorageDefaults
  BY DEF Defaults
<1> QED BY <1>1, <1>2, <1>3, <1>4 DEF ServerDefaults, HandlerDefaults, StorageDefaults

LEMMA ClientFields ==
  /\ \A c \in Clients : {"Logger", "FactoryFunc", "KafkaBrokers", "DialTimeout", "ReadTimeout",
                        "WriteTimeout", "MaxRetries", "Backoff"} \subseteq DOMAIN Defaults(c)
  /\ {"ProcessMessageFunc", "Topic", "Partition"} \subseteq DOMAIN Defaults("consumer")
  /\ {"ProcessMessageFunc", "Topic", "KafkaGroupName"} \subseteq DOMAIN Defaults("group")
<1>1. /\ Defaults("producer") = ProducerDefaults
      /\ Defaults("consumer") = ConsumerDefaults
      /\ Defaults("group") = GroupDefaults
  BY DEF Defaults, Handlers, Storages
<1> QED BY <1>1 DEF Clients, ProducerDefaults, ConsumerDefaults, GroupDefaults, Extend

LEMMA LoggerOptions ==
  LET new == MakeLogger(env)
  IN  /\ new.does = "new" /\ new.constructor = "logger"
      /\ Len(new.options) = 1 /\ new.options[1] = Option("Level", env.LOG_LEVEL)
      /\ OptionsFor("logger", new.options)
<1> DEFINE options == << Option("Level", env.LOG_LEVEL) >>
<1>1. MakeLogger(env) = Make("logger", options)
  BY DEF MakeLogger
<1>2. Len(options) = 1 /\ DOMAIN options = 1 .. 1 /\ options[1] = Option("Level", env.LOG_LEVEL)
  OBVIOUS
<1> HIDE DEF options
<1>3. OptionsFor("logger", options)
  BY <1>2, OptionIs, FieldsOf DEF OptionsFor
<1> QED BY <1>1, <1>2, <1>3 DEF Make

LEMMA HandlerOptions ==
  ASSUME NEW p \in Providers, NEW secret
  PROVE  LET new == MakeHandler(p, secret)
         IN  /\ new.does = "new" /\ new.constructor \in Handlers
             /\ Len(new.options) = 4
             /\ new.options[1] = Option("Logger", "logger") /\ new.options[2] = Option("Topic", p)
             /\ new.options[3] = Option("Secret", secret) /\ new.options[4] = Option("MessageQueue", p)
             /\ OptionsFor(new.constructor, new.options)
<1> DEFINE options == << Option("Logger", "logger"), Option("Topic", p), Option("Secret", secret),
                        Option("MessageQueue", p) >>
           c == IF p = "github" THEN "githubhandler" ELSE "gitlabhandler"
<1>1. MakeHandler(p, secret) = Make(c, options)
  BY DEF MakeHandler
<1>2. /\ Len(options) = 4 /\ DOMAIN options = 1 .. 4
      /\ options[1] = Option("Logger", "logger") /\ options[2] = Option("Topic", p)
      /\ options[3] = Option("Secret", secret) /\ options[4] = Option("MessageQueue", p)
  OBVIOUS
<1>3. c \in Handlers
  BY DEF Handlers
<1> HIDE DEF options, c
<1>4. OptionsFor(c, options)
  BY <1>2, <1>3, OptionIs, FieldsOf DEF OptionsFor
<1> QED BY <1>1, <1>2, <1>3, <1>4 DEF Make

LEMMA StorageOptions ==
  ASSUME NEW p \in Providers
  PROVE  LET new == MakeStorage(p, env)
         IN  /\ new.does = "new" /\ new.constructor \in Storages
             /\ Len(new.options) = 2
             /\ new.options[1] = Option("DatabaseDSN", env.DATABASE_URL)
             /\ new.options[2] = Option("Logger", "logger")
             /\ OptionsFor(new.constructor, new.options)
<1> DEFINE options == << Option("DatabaseDSN", env.DATABASE_URL), Option("Logger", "logger") >>
           c == IF p = "github" THEN "githubstorage" ELSE "gitlabstorage"
<1>1. MakeStorage(p, env) = Make(c, options)
  BY DEF MakeStorage
<1>2. /\ Len(options) = 2 /\ DOMAIN options = 1 .. 2
      /\ options[1] = Option("DatabaseDSN", env.DATABASE_URL) /\ options[2] = Option("Logger", "logger")
  OBVIOUS
<1>3. c \in Storages
  BY DEF Storages
<1> HIDE DEF options, c
<1>4. OptionsFor(c, options)
  BY <1>2, <1>3, OptionIs, FieldsOf DEF OptionsFor
<1> QED BY <1>1, <1>2, <1>3, <1>4 DEF Make

HealthOptions == << Option("Version", "version") >>

LEMMA HealthOptionsAre ==
  /\ Len(HealthOptions) = 1 /\ HealthOptions[1] = Option("Version", "version")
  /\ OptionsFor("health", HealthOptions)
<1>1. /\ Len(HealthOptions) = 1 /\ DOMAIN HealthOptions = 1 .. 1
      /\ HealthOptions[1] = Option("Version", "version")
  BY DEF HealthOptions
<1> QED BY <1>1, OptionIs, FieldsOf DEF OptionsFor

ServerOptions == MakeServer(env).options

LEMMA ServerOptionsAre ==
  /\ MakeServer(env) = Make("server", ServerOptions)
  /\ Len(ServerOptions) = 10 /\ DOMAIN ServerOptions = 1 .. 10
  /\ ServerOptions[1] = Option("Logger", "logger")
  /\ ServerOptions[2] = Option("ListenAddr", env.LISTEN_ADDR)
  /\ ServerOptions[3] = Option("ReadTimeout", env.SERVER_READ_TIMEOUT)
  /\ ServerOptions[4] = Option("WriteTimeout", env.SERVER_WRITE_TIMEOUT)
  /\ ServerOptions[5] = Option("IdleTimeout", env.SERVER_IDLE_TIMEOUT)
  /\ ServerOptions[6] = Option("KafkaGitHubTopic", "github")
  /\ ServerOptions[7] = Option("KafkaBrokers", env.KCP_BROKERS)
  /\ ServerOptions[8] = HandleRoute("GET", "/healthz", "health")
  /\ ServerOptions[9] = HandleRoute("POST", "/v1/webhook/github", "github")
  /\ ServerOptions[10] = HandleRoute("POST", "/v1/webhook/gitlab", "gitlab")
BY DEF MakeServer, ServerOptions, Make

LEMMA HandleRouteIs ==
  \A m, p, h : LET route == HandleRoute(m, p, h)
              IN  /\ route.field = "Handlers" /\ route.value.path = p
                  /\ route.value.method = m /\ route.value.handler = h
BY DEF HandleRoute, Option

LEMMA ServerOptionsFor == OptionsFor("server", ServerOptions)
BY ServerOptionsAre, HandleRouteIs, OptionIs, FieldsOf DEF OptionsFor

ClientOptions(kind) == IF kind = "producer" THEN Connection(env) ELSE Connection(env) \o OwnOptions(kind, env)

LEMMA ConnectionIs ==
  LET options == Connection(env)
  IN  /\ Len(options) = 7 /\ DOMAIN options = 1 .. 7
      /\ options[1] = Option("Logger", "logger")
      /\ options[2] = Option("KafkaBrokers", env.KCP_BROKERS)
      /\ options[3] = Option("DialTimeout", env.DIAL_TIMEOUT)
      /\ options[4] = Option("ReadTimeout", env.READ_TIMEOUT)
      /\ options[5] = Option("WriteTimeout", env.WRITE_TIMEOUT)
      /\ options[6] = Option("Backoff", env.BACKOFF)
      /\ options[7] = Option("MaxRetries", env.MAX_RETRIES)
BY DEF Connection

OwnLast(kind) ==
  IF kind = "group" THEN Option("KafkaGroupName", env.KCG_NAME)
                    ELSE Option("Partition", env.KC_PARTITION)

LEMMA OwnOptionsAre ==
  ASSUME NEW kind
  PROVE  LET options == OwnOptions(kind, env)
         IN  /\ Len(options) = 3 /\ DOMAIN options = 1 .. 3
             /\ options[1] = Option("ProcessMessageFunc", "store")
             /\ options[2] = Option("Topic", env.KC_TOPIC)
             /\ options[3] = OwnLast(kind)
<1> DEFINE last == OwnLast(kind)
<1>1. OwnOptions(kind, env) = << Option("ProcessMessageFunc", "store"), Option("Topic", env.KC_TOPIC), last >>
  BY DEF OwnOptions, OwnLast
<1> HIDE DEF last
<1> QED BY <1>1 DEF last

LEMMA SevenAndThree ==
  ASSUME NEW a1, NEW a2, NEW a3, NEW a4, NEW a5, NEW a6, NEW a7, NEW b1, NEW b2, NEW b3
  PROVE  LET first  == << a1, a2, a3, a4, a5, a6, a7 >>
             second == << b1, b2, b3 >>
             both   == first \o second
         IN  /\ Len(both) = 10 /\ DOMAIN both = 1 .. 10
             /\ \A i \in 1 .. 7 : both[i] = first[i]
             /\ \A i \in 8 .. 10 : both[i] = second[i - 7]
OBVIOUS

\* All clients are given the connection's options, and these are the first.
LEMMA ClientOptionsAre ==
  ASSUME NEW kind \in Clients
  PROVE  LET options == ClientOptions(kind)
         IN  /\ Len(options) = IF kind = "producer" THEN 7 ELSE 10
             /\ DOMAIN options = 1 .. Len(options)
             /\ \A i \in 1 .. 7 : options[i] = Connection(env)[i]
             /\ kind # "producer" =>
                  \A i \in 8 .. 10 : options[i] = OwnOptions(kind, env)[i - 7]
<1> DEFINE first == Connection(env)
           second == OwnOptions(kind, env)
<1>1. CASE kind = "producer"
  BY <1>1, ConnectionIs DEF ClientOptions
<1>2. CASE kind # "producer"
  <2>1. ClientOptions(kind) = first \o second
    BY <1>2 DEF ClientOptions
  <2>2. /\ Len(first \o second) = 10 /\ DOMAIN (first \o second) = 1 .. 10
        /\ \A i \in 1 .. 7 : (first \o second)[i] = first[i]
        /\ \A i \in 8 .. 10 : (first \o second)[i] = second[i - 7]
    <3>1. PICK a1, a2, a3, a4, a5, a6, a7 : first = << a1, a2, a3, a4, a5, a6, a7 >>
      BY DEF Connection
    <3>2. PICK b1, b2, b3 : second = << b1, b2, b3 >>
      BY DEF OwnOptions
    <3> HIDE DEF first, second
    <3> QED BY <3>1, <3>2, SevenAndThree
  <2> HIDE DEF first, second
  <2> QED BY <1>2, <2>1, <2>2 DEF first, second
<1> QED BY <1>1, <1>2

LEMMA ClientOptionsFor ==
  ASSUME NEW kind \in Clients
  PROVE  OptionsFor(kind, ClientOptions(kind))
<1> DEFINE options == ClientOptions(kind)
<1>1. \A i \in 1 .. 7 : options[i].field \in DOMAIN Defaults(kind)
  BY ClientOptionsAre, ConnectionIs, OptionIs, ClientFields
<1>2. ASSUME kind # "producer", NEW i \in 8 .. 10
      PROVE  options[i].field \in DOMAIN Defaults(kind)
  <2>1. options[i] = OwnOptions(kind, env)[i - 7] /\ i - 7 \in {1, 2, 3}
    BY <1>2, ClientOptionsAre
  <2>2. options[i].field \in {"ProcessMessageFunc", "Topic", OwnLast(kind).field}
    BY <2>1, OwnOptionsAre, OptionIs
  <2>3. OwnLast(kind).field = IF kind = "group" THEN "KafkaGroupName" ELSE "Partition"
    BY OptionIs DEF OwnLast
  <2>4. kind \in {"consumer", "group"}
    BY <1>2 DEF Clients
  <2> QED BY <2>2, <2>3, <2>4, ClientFields
<1>3. DOMAIN options = 1 .. Len(options) /\ Len(options) = IF kind = "producer" THEN 7 ELSE 10
  BY ClientOptionsAre
<1> HIDE DEF options
<1>4. ASSUME NEW i \in DOMAIN options PROVE options[i].field \in DOMAIN Defaults(kind)
  <2>1. i \in 1 .. 7 \/ (kind # "producer" /\ i \in 8 .. 10)
    BY <1>3, <1>4
  <2> QED BY <1>1, <1>2, <2>1
<1> QED BY <1>3, <1>4 DEF OptionsFor, options

-----------------------------------------------------------------------------
(***************************************************************************)
(* What has been made.                                                     *)
(***************************************************************************)

IsNew(i) == Plan[i].does = "new"
NewOf(i) == New(Plan[i].constructor, Plan[i].options)

\* What the environment and the caller's options are like.
Given ==
  /\ IsCaller => env.constructor \in Constructors /\ OptionsFor(env.constructor, env.options)
  /\ ~IsCaller => /\ env.LISTEN_ADDR \notin {"nil", Empty, "junk"}
                  /\ "nil" \notin {env.GITHUB_HMAC_SECRET, env.GITLAB_HMAC_SECRET,
                                   env.DATABASE_URL, env.KCG_NAME}
                  /\ {env.BACKOFF, env.MAX_RETRIES, env.KC_PARTITION} \subseteq Int

LEMMA PlanOptions ==
  ASSUME Placed, Given, NEW i \in 1 .. Len(Plan), IsNew(i)
  PROVE  Plan[i].constructor \in Constructors /\ OptionsFor(Plan[i].constructor, Plan[i].options)
<1>0. Handlers \cup Storages \cup Clients \cup {"logger", "health", "server"} \subseteq Constructors
  BY DEF Constructors
<1>1. CASE IsServer
  <2>1. i \in {2, 3, 6, 7, 8, 9}
    <3>1. Len(Plan) = 10
      BY <1>1, ServerDoes DEF IsServer
    <3>2. ~IsNew(1) /\ ~IsNew(4) /\ ~IsNew(5) /\ ~IsNew(10)
      BY <1>1, ServerDoes DEF IsServer, IsNew
    <3>3. i \in 1 .. 10 /\ i # 1 /\ i # 4 /\ i # 5 /\ i # 10
      BY <3>1, <3>2
    <3> QED BY <3>3
  <2>2. Plan[2] = MakeLogger(env) /\ Plan[9] = Make("server", ServerOptions)
    BY <1>1, ServerPlan, ServerOptionsAre DEF IsServer
  <2>3. Plan[3] = Make("producer", ClientOptions("producer")) /\ "producer" \in Clients
    BY <1>1, ServerPlan DEF IsServer, ClientOptions, Clients
  <2>4. Plan[6] = Make("health", HealthOptions)
    BY <1>1, ServerPlan DEF IsServer, HealthOptions
  <2>5. /\ Plan[7] = MakeHandler("github", env.GITHUB_HMAC_SECRET) /\ "github" \in Providers
        /\ Plan[8] = MakeHandler("gitlab", env.GITLAB_HMAC_SECRET) /\ "gitlab" \in Providers
    BY <1>1, ServerPlan DEF IsServer, Providers
  <2>6. CASE i = 2
    BY <1>0, <2>2, <2>6, LoggerOptions
  <2>7. CASE i = 3
    BY <1>0, <2>3, <2>7, ClientOptionsFor DEF Make
  <2>8. CASE i = 6
    BY <1>0, <2>4, <2>8, HealthOptionsAre DEF Make
  <2>9. CASE i = 7 \/ i = 8
    BY <1>0, <2>5, <2>9, HandlerOptions
  <2>10. CASE i = 9
    BY <1>0, <2>2, <2>10, ServerOptionsFor DEF Make
  <2> QED BY <2>1, <2>6, <2>7, <2>8, <2>9, <2>10
<1>2. CASE IsConsumer
  <2>1. i \in {2, 3, 5}
    <3>1. Len(Plan) = 7
      BY <1>2, ConsumerDoes DEF IsConsumer
    <3>2. ~IsNew(1) /\ ~IsNew(4) /\ ~IsNew(6) /\ ~IsNew(7)
      BY <1>2, ConsumerDoes DEF IsConsumer, IsNew
    <3>3. i \in 1 .. 7 /\ i # 1 /\ i # 4 /\ i # 6 /\ i # 7
      BY <3>1, <3>2
    <3> QED BY <3>3
  <2>2. Provider \in Providers /\ Kind \in Clients /\ Kind # "producer"
    BY <1>2, ConsumersAre DEF IsConsumer, Clients
  <2>3. Plan[2] = MakeLogger(env) /\ Plan[3] = MakeStorage(Provider, env)
    BY <1>2, ConsumerPlanIs DEF IsConsumer
  <2>4. Plan[5] = Make(Kind, ClientOptions(Kind))
    BY <1>2, <2>2, ConsumerPlanIs DEF IsConsumer, ClientOptions
  <2>5. CASE i = 2
    BY <1>0, <2>3, <2>5, LoggerOptions
  <2>6. CASE i = 3
    BY <1>0, <2>2, <2>3, <2>6, StorageOptions
  <2>7. CASE i = 5
    BY <1>0, <2>2, <2>4, <2>7, ClientOptionsFor DEF Make
  <2> QED BY <2>1, <2>5, <2>6, <2>7
<1>3. CASE IsCaller
  <2>0. Len(Plan) = 1 /\ Plan[1] = Make(env.constructor, env.options)
    BY <1>3, CallerPlan DEF IsCaller
  <2>1. i = 1 /\ Plan[1] = Make(env.constructor, env.options)
    BY <2>0
  <2> QED BY <1>3, <2>1 DEF Given, Make
<1> QED BY <1>1, <1>2, <1>3 DEF Placed

\* Of the first n steps of the plan, the i-th makes the last thing made.
LastNew(n, i) == i \in 1 .. n /\ IsNew(i) /\ \A j \in 1 .. n : IsNew(j) => j <= i

\* All that had to be made has been made, and made is the last of it.
AllMade  == \A i \in 1 .. done : IsNew(i) => NewOf(i).result = "ok"
MadeLast == made.result = "ok" => \A i : LastNew(done, i) => made = NewOf(i)
MadeWell == status \in {"starting", "serving"} => made.result = "ok"
Parsed   == ~IsCaller /\ done > 0 => env.parses

NewsInv == Placed /\ Given /\ AllMade /\ MadeLast /\ MadeWell /\ Parsed /\ made.result \in Results

LEMMA NewsInit == Init => NewsInv
<1> SUFFICES ASSUME Init PROVE NewsInv
  OBVIOUS
<1>1. Given
  <2>1. IsCaller => \E c \in Constructors : \E options \in Calls[c] :
                      env = [ constructor |-> c, options |-> options ]
    <3>1. IsCaller => program \notin Programs
      BY ConsumersAre DEF IsCaller, Programs
    <3> QED BY <3>1 DEF Init
  <2>2. ~IsCaller => env \in Envs \cup OddEnvs
    BY DEF Init, IsCaller
  <2> QED BY <2>1, <2>2, CallsAssumption, EnvAssumption DEF Given
<1>2. done = 0 /\ made.result = "ok"
  BY DEF Init
<1> QED BY <1>1, <1>2, PlacedInit DEF NewsInv, AllMade, MadeLast, MadeWell, Parsed, LastNew, Results

\* A step after which the same things have been made.
LEMMA NewsStay ==
  ASSUME NewsInv, Placed', UNCHANGED << world, made >>,
         \/ done' = done
         \/ done' = done + 1 /\ ~IsNew(done + 1) /\ (done > 0 \/ env.parses \/ IsCaller),
         status' \in {"starting", "serving"} => status \in {"starting", "serving"}
  PROVE  NewsInv'
<1> USE DEF NewsInv
<1>1. Plan' = Plan /\ env' = env /\ program' = program
  BY PlanStays DEF world
<1>2. /\ Given' <=> Given
      /\ IsCaller' <=> IsCaller
      /\ \A i : (IsNew(i)' <=> IsNew(i)) /\ NewOf(i)' = NewOf(i)
  BY <1>1 DEF Given, IsCaller, IsNew, NewOf
<1>3. Given' /\ MadeWell' /\ (made.result \in Results)'
  <2>1. made' = made /\ made.result \in Results
    OBVIOUS
  <2>2. Given'
    BY <1>2
  <2>3. MadeWell'
    BY <2>1 DEF MadeWell
  <2> QED BY <2>1, <2>2, <2>3
<1>4. done \in Nat
  BY DEF Placed
<1>5. ASSUME NEW i \in 1 .. done', IsNew(i) PROVE i \in 1 .. done
  BY <1>4, <1>5
<1>6. AllMade'
  BY <1>2, <1>5 DEF AllMade
<1>7. ASSUME NEW i, LastNew(done, i)' PROVE LastNew(done, i)
  <2>1. i \in 1 .. done' /\ IsNew(i) /\ \A j \in 1 .. done' : IsNew(j) => j <= i
    BY <1>2, <1>7 DEF LastNew
  <2>2. 1 .. done \subseteq 1 .. done'
    BY <1>4
  <2> QED BY <1>5, <2>1, <2>2 DEF LastNew
<1>8. MadeLast'
  BY <1>2, <1>7 DEF MadeLast
<1>9. Parsed'
  <2>1. ~IsCaller /\ done > 0 => env.parses
    BY DEF Parsed
  <2>2. done' > 0 => done > 0 \/ done' = done + 1
    OBVIOUS
  <2>3. ~IsCaller /\ done' > 0 => env.parses
    BY <2>1, <2>2, Zenon
  <2>4. env'.parses <=> env.parses
    BY <1>1
  <2> QED BY <1>2, <2>3, <2>4, Zenon DEF Parsed
<1> QED BY <1>3, <1>6, <1>8, <1>9

\* The step that makes something.
LEMMA NewsConstruct ==
  ASSUME NewsInv, Placed', Construct
  PROVE  NewsInv'
<1> USE DEF NewsInv
<1>1. Plan' = Plan /\ env' = env /\ program' = program /\ At("new")
  BY PlanStays DEF Construct, world
<1>2. /\ Given' <=> Given
      /\ IsCaller' <=> IsCaller
      /\ \A i : (IsNew(i)' <=> IsNew(i)) /\ NewOf(i)' = NewOf(i)
  BY <1>1 DEF Given, IsCaller, IsNew, NewOf
<1>3. done \in Nat /\ done + 1 \in 1 .. Len(Plan) /\ IsNew(done + 1) /\ (~IsCaller => done > 0)
  <2>1. IsNew(done + 1)
    BY <1>1 DEF At, Step, IsNew
  <2>2. done \in Nat /\ done + 1 \in 1 .. Len(Plan)
    BY <1>1, Where
  <2>3. ~IsCaller => done > 0
    BY <1>1, <2>2, Where DEF Placed
  <2> QED BY <2>1, <2>2, <2>3
<1>4. made' = NewOf(done + 1) /\ made'.result \in Results
  <2>1. made' = NewOf(done + 1)
    BY DEF Construct, Step, NewOf
  <2>2. NewOf(done + 1).result \in Results
    BY <1>3, PlanOptions, NewIs DEF NewOf
  <2> QED BY <2>1, <2>2
<1>5. CASE made'.result = "ok" /\ done' = done + 1 /\ status' = status
  <2>1. AllMade'
    <3>1. \A i \in 1 .. done' : i \in 1 .. done \/ i = done + 1
      BY <1>3, <1>5
    <3> QED BY <1>2, <1>4, <1>5, <3>1 DEF AllMade
  <2>2. MadeLast'
    <3>1. ASSUME NEW i, LastNew(done, i)' PROVE i = done + 1
      <4>1. i \in 1 .. done + 1 /\ \A j \in 1 .. done + 1 : IsNew(j) => j <= i
        BY <1>2, <1>5, <3>1 DEF LastNew
      <4>2. done + 1 <= i
        BY <1>3, <4>1
      <4> QED BY <1>3, <4>1, <4>2
    <3> QED BY <1>2, <1>4, <3>1 DEF MadeLast
  <2>3. MadeWell'
    BY <1>5 DEF MadeWell
  <2>4. Parsed'
    BY <1>1, <1>2, <1>3 DEF Parsed
  <2> QED BY <1>2, <1>4, <2>1, <2>2, <2>3, <2>4
<1>6. CASE made'.result # "ok" /\ done' = done /\ status' \in {"failed", "panicked"}
  <2>1. AllMade'
    BY <1>2, <1>6 DEF AllMade
  <2>2. MadeLast' /\ MadeWell'
    BY <1>6 DEF MadeLast, MadeWell
  <2>3. Parsed'
    BY <1>1, <1>2, <1>6 DEF Parsed
  <2> QED BY <1>2, <1>4, <2>1, <2>2, <2>3
<1>7. \/ made'.result = "ok" /\ done' = done + 1 /\ status' = status
      \/ made'.result # "ok" /\ done' = done /\ status' \in {"failed", "panicked"}
  BY DEF Construct, GoOn, Leave
<1> QED BY <1>5, <1>6, <1>7

LEMMA NewsNext ==
  ASSUME NewsInv, [Next]_vars
  PROVE  NewsInv'
<1> USE DEF NewsInv
<1>1. Placed' /\ UNCHANGED world
  BY PlacedNext
<1>2. CASE Construct
  BY <1>1, <1>2, NewsConstruct
<1>3. ASSUME NEW what, At(what), what # "new"
      PROVE  ~IsNew(done + 1) /\ status = "starting" /\ (what # "parse" => done > 0)
  <2>1. ~IsNew(done + 1) /\ status = "starting"
    BY <1>3 DEF At, Step, IsNew
  <2>2. what # "parse" => done > 0
    BY <1>3, Where DEF Placed
  <2> QED BY <2>1, <2>2
<1>4. CASE ParseEnvironment
  <2>1. At("parse") /\ made' = made
    BY <1>4 DEF ParseEnvironment
  <2>2. \/ env.parses /\ GoOn
        \/ Leave("failed")
    BY <1>4, Zenon DEF ParseEnvironment
  <2>3. CASE env.parses /\ GoOn
    BY <1>1, <1>3, <2>1, <2>3, NewsStay DEF GoOn
  <2>4. CASE Leave("failed")
    BY <1>1, <1>3, <2>1, <2>4, NewsStay DEF Leave
  <2> QED BY <2>2, <2>3, <2>4
<1>5. CASE PingReturns \/ Connect \/ ConnectLoopEnds \/ MakeQueues \/ Serve
  <2>1. /\ made' = made
        /\ \E what : At(what) /\ what # "new" /\ what # "parse"
        /\ \/ done' = done
           \/ done' = done + 1
    BY <1>5 DEF PingReturns, Connect, ConnectLoopEnds, MakeQueues, Serve, GoOn, Leave, Die
  <2>2. ~IsNew(done + 1) /\ status = "starting" /\ done > 0
    BY <1>3, <2>1
  <2> QED BY <1>1, <2>1, <2>2, NewsStay
<1>6. CASE PingFails \/ ConnectFails \/ UNCHANGED vars
  <2>1. UNCHANGED << made, done, status >>
    BY <1>6 DEF PingFails, ConnectFails, SleepFrom, vars
  <2> QED BY <1>1, <2>1, NewsStay
<1>7. CASE PingGivesUp \/ NoSuchPartition \/ Return \/ GroupReturn
  <2>1. /\ UNCHANGED << made, done >>
        /\ status' \notin {"starting", "serving"}
    BY <1>7 DEF PingGivesUp, NoSuchPartition, Return, GroupReturn, Leave
  <2> QED BY <1>1, <2>1, NewsStay
<1> QED BY <1>2, <1>4, <1>5, <1>6, <1>7 DEF Next, StartStep, PingStep, ConnectStep

LEMMA NewsAlways == Spec => []NewsInv
BY NewsInit, NewsNext, PTL DEF Spec

\* What New has just made it made from the options of the step before.
LEMMA JustMadeIs ==
  ASSUME NewsInv, NEW c \in Constructors, JustMade(c)
  PROVE  /\ OptionsFor(c, Plan[done].options) /\ New(c, Plan[done].options).result = "ok"
         /\ made = New(c, Plan[done].options)
<1>1. done \in 1 .. Len(Plan) /\ IsNew(done) /\ Plan[done].constructor = c /\ made.result = "ok"
  BY DEF JustMade, NewsInv, Placed, IsNew
<1>2. LastNew(done, done)
  BY <1>1 DEF LastNew
<1>3. made = NewOf(done)
  BY <1>1, <1>2 DEF NewsInv, MadeLast
<1> QED BY <1>1, <1>3, PlanOptions DEF NewsInv, NewOf

LEMMA LastForIs ==
  ASSUME NEW c, NEW options, OptionsFor(c, options), NEW i, NEW f
  PROVE  i \in DOMAIN options /\ LastFor(options, i, f) <=> LastOf(options, Len(options), f, i)
BY DEF OptionsFor, LastFor, LastOf

LEMMA LastExists ==
  ASSUME NEW c, NEW options, OptionsFor(c, options), NEW f \in DOMAIN Defaults(c), f # "Handlers",
         NEW j \in 1 .. Len(options), options[j].field = f
  PROVE  \E i : LastOf(options, Len(options), f, i)
BY FieldSettled DEF Settled

LEMMA NewsImpliesLast == NewsInv => LastOptionWins
<1> SUFFICES ASSUME NewsInv, NEW c \in Constructors, JustMade(c),
                    NEW f \in DOMAIN made.config \ {"Handlers"}
             PROVE  LET options == Plan[done].options
                        given   == { i \in DOMAIN options : LastFor(options, i, f) }
                    IN  /\ \A i \in given : made.config[f] = Stored(Defaults(c)[f], f, options[i].value)
                        /\ given = {} /\ f \notin Filled => made.config[f] = Defaults(c)[f]
                        /\ f \in Filled \cup Needed => made.config[f] \notin {"nil", Empty}
  BY DEF LastOptionWins
<1> DEFINE options == Plan[done].options
           given == { i \in DOMAIN options : LastFor(options, i, f) }
<1>1. OptionsFor(c, options) /\ New(c, options).result = "ok" /\ made = New(c, options)
  BY JustMadeIs
<1> HIDE DEF options
<1>2. DOMAIN made.config = DOMAIN Defaults(c)
  BY <1>1, NewIs, AppliedFields, CompletedIs
<1>3. f \in DOMAIN Defaults(c) /\ f # "Handlers"
  BY <1>2
<1>4. /\ \A i : LastOf(options, Len(options), f, i) =>
           made.config[f] = Stored(Defaults(c)[f], f, options[i].value)
      /\ (\A i \in 1 .. Len(options) : options[i].field # f) /\ f \notin Filled =>
           made.config[f] = Defaults(c)[f]
      /\ f \in Filled \cup Needed => ~Absent(made.config[f])
  BY <1>1, <1>3, MadeIs
<1>5. \A i \in given : LastOf(options, Len(options), f, i)
  BY <1>1, LastForIs
<1>6. given = {} => \A i \in 1 .. Len(options) : options[i].field # f
  BY <1>1, <1>3, LastExists, LastForIs
<1> QED BY <1>4, <1>5, <1>6 DEF options, Absent

\* Whatever the options and their order, a field has what the last option for
\* it said, or its default, and nothing New needs is missing.
THEOREM LastOptionsWin == Spec => []LastOptionWins
BY NewsAlways, NewsImpliesLast, PTL

\* What a request gets, from what is registered for its path.
LEMMA RouteIs ==
  ASSUME NEW config, NEW method, NEW path
  PROVE  /\ path \notin DOMAIN config.Handlers => Route(config, method, path) = "404"
         /\ path \in DOMAIN config.Handlers =>
              Route(config, method, path) =
                IF config.Handlers[path].method = method THEN config.Handlers[path].handler ELSE "405"
BY DEF Route

LEMMA LastRouteIs ==
  ASSUME NEW options, OptionsFor("server", options), NEW i, NEW path
  PROVE  i \in DOMAIN options /\ LastRoute(options, i, path)
           <=> LastRouteOf(options, Len(options), path, i)
BY DEF OptionsFor, LastRoute, LastRouteOf

\* What a server made from these options does with a request.
RoutesBy(options, config, method, path) ==
  /\ (\A i : ~LastRouteOf(options, Len(options), path, i)) => Route(config, method, path) = "404"
  /\ \A i : LastRouteOf(options, Len(options), path, i) =>
       Route(config, method, path) =
         IF options[i].value.method = method THEN options[i].value.handler ELSE "405"

LEMMA ServerRoutes ==
  ASSUME NEW options, OptionsFor("server", options), New("server", options).result = "ok",
         NEW config, config = New("server", options).config, NEW path, NEW method
  PROVE  RoutesBy(options, config, method, path)
<1> DEFINE n == Len(options)
<1>0. n \in Nat
  BY DEF OptionsFor
<1>1. Routed(options, n, path, config.Handlers)
  BY MadeRoutes
<1>2. ASSUME \A i : ~LastRouteOf(options, n, path, i)
      PROVE  Route(config, method, path) = "404"
  BY <1>1, <1>2, RouteIs DEF Routed
<1>3. ASSUME NEW i, LastRouteOf(options, n, path, i)
      PROVE  Route(config, method, path) =
               IF options[i].value.method = method THEN options[i].value.handler ELSE "405"
  <2>1. ~ \A j \in 1 .. n : ~(options[j].field = "Handlers" /\ options[j].value.path = path)
    BY <1>3 DEF LastRouteOf
  <2>2. /\ path \in DOMAIN config.Handlers
        /\ \E j \in 1 .. n : LastRouteOf(options, n, path, j) /\ config.Handlers[path] = options[j].value
    BY <1>1, <2>1 DEF Routed
  <2>3. PICK j \in 1 .. n : LastRouteOf(options, n, path, j) /\ config.Handlers[path] = options[j].value
    BY <2>2
  <2>4. i \in 1 .. n /\ i <= j /\ j <= i
    BY <1>3, <2>3 DEF LastRouteOf
  <2>5. config.Handlers[path] = options[i].value
    BY <1>0, <2>3, <2>4
  <2> QED BY <2>2, <2>5, RouteIs
<1> QED BY <1>2, <1>3 DEF RoutesBy

LEMMA NewsImpliesRoutes == NewsInv => RoutesAsRegistered
<1> SUFFICES ASSUME NewsInv, JustMade("server"), NEW path, NEW method
             PROVE  LET options == Plan[done].options
                        last    == { i \in DOMAIN options : LastRoute(options, i, path) }
                    IN  /\ last = {} => Route(made.config, method, path) = "404"
                        /\ \A i \in last :
                             Route(made.config, method, path) =
                               IF options[i].value.method = method THEN options[i].value.handler ELSE "405"
  BY DEF RoutesAsRegistered
<1> DEFINE options == Plan[done].options
<1>1. /\ OptionsFor("server", options) /\ New("server", options).result = "ok"
      /\ made = New("server", options)
  BY JustMadeIs DEF Constructors
<1> HIDE DEF options
<1> DEFINE last == { i \in DOMAIN options : LastRoute(options, i, path) }
<1>2. \A i : i \in last <=> LastRouteOf(options, Len(options), path, i)
  BY <1>1, LastRouteIs
<1> DEFINE config == made.config
<1>3. config = New("server", options).config
  BY <1>1
<1> HIDE DEF last, config
<1>4. RoutesBy(options, config, method, path)
  BY <1>1, <1>3, ServerRoutes
<1> QED BY <1>2, <1>4 DEF options, config, last, RoutesBy

\* A request gets what was registered last for its path, for any routes that
\* were registered.
THEOREM RoutesRegistered == Spec => []RoutesAsRegistered
BY NewsAlways, NewsImpliesRoutes, PTL

-----------------------------------------------------------------------------
(***************************************************************************)
(* The loops of attempts.                                                  *)
(***************************************************************************)

\* f holds the first powers of two.
Powers(f, n) == f = [ i \in 0 .. n |-> IF i = 0 THEN 1 ELSE 2 * f[i - 1] ]

LEMMA PowersExist ==
  ASSUME NEW n \in Nat
  PROVE  \E f : Powers(f, n)
<1> DEFINE S == { k \in Nat : \E f : Powers(f, k) }
<1>1. 0 \in S
  <2> DEFINE f == [ i \in 0 .. 0 |-> 1 ]
  <2>1. Powers(f, 0)
    BY DEF Powers
  <2> QED BY <2>1
<1>2. ASSUME NEW k \in 0 .. n, k < n, k \in S PROVE k + 1 \in S
  <2>1. PICK f : Powers(f, k)
    BY <1>2
  <2> DEFINE g == [ i \in 0 .. k + 1 |-> IF i = k + 1 THEN 2 * f[k] ELSE f[i] ]
  <2>2. \A i \in 0 .. k : f[i] = IF i = 0 THEN 1 ELSE 2 * f[i - 1]
    BY <2>1 DEF Powers
  <2>3. ASSUME NEW i \in 0 .. k + 1 PROVE g[i] = IF i = 0 THEN 1 ELSE 2 * g[i - 1]
    <3>1. CASE i = k + 1
      BY <3>1
    <3>2. CASE i # k + 1
      <4>1. i \in 0 .. k /\ g[i] = f[i] /\ (i # 0 => i - 1 \in 0 .. k + 1 /\ g[i - 1] = f[i - 1])
        BY <3>2
      <4> QED BY <4>1, <2>2
    <3> QED BY <3>1, <3>2
  <2>4. Powers(g, k + 1)
    BY <2>3 DEF Powers
  <2> QED BY <2>4
<1> HIDE DEF S
<1>3. n \in S
  BY <1>1, <1>2, UpTo
<1> QED BY <1>3 DEF S

LEMMA PowersAgree ==
  ASSUME NEW n \in Nat, NEW m \in Nat, n <= m, NEW f, Powers(f, n), NEW g, Powers(g, m)
  PROVE  \A i \in 0 .. n : f[i] = g[i]
<1> DEFINE S == { i \in 0 .. n : f[i] = g[i] }
<1>1. \A i \in 0 .. n : /\ f[i] = IF i = 0 THEN 1 ELSE 2 * f[i - 1]
                        /\ g[i] = IF i = 0 THEN 1 ELSE 2 * g[i - 1]
  <2>1. \A i \in 0 .. n : i \in 0 .. m
    OBVIOUS
  <2>2. \A i \in 0 .. n : f[i] = IF i = 0 THEN 1 ELSE 2 * f[i - 1]
    BY DEF Powers
  <2>3. \A i \in 0 .. m : g[i] = IF i = 0 THEN 1 ELSE 2 * g[i - 1]
    BY DEF Powers
  <2> QED BY <2>1, <2>2, <2>3
<1>2. 0 \in S
  BY <1>1
<1>3. ASSUME NEW k \in 0 .. n, k < n, k \in S PROVE k + 1 \in S
  <2>1. k + 1 \in 0 .. n /\ k + 1 # 0 /\ (k + 1) - 1 = k
    BY <1>3
  <2>2. f[k + 1] = 2 * f[k] /\ g[k + 1] = 2 * g[k] /\ f[k] = g[k]
    BY <1>1, <1>3, <2>1
  <2> QED BY <2>1, <2>2
<1> HIDE DEF S
<1>4. \A i \in 0 .. n : i \in S
  BY <1>2, <1>3, UpTo
<1> QED BY <1>4 DEF S

LEMMA PowerOfTwoIs ==
  /\ PowerOfTwo[0] = 1
  /\ \A n \in Nat : PowerOfTwo[n + 1] = 2 * PowerOfTwo[n]
<1> DEFINE P(n) == CHOOSE f : Powers(f, n)
           h == [ n \in Nat |-> P(n)[n] ]
<1>1. \A n \in Nat : Powers(P(n), n)
  BY PowersExist
<1> HIDE DEF P
<1>2. ASSUME NEW n \in Nat PROVE h[n] = IF n = 0 THEN 1 ELSE 2 * h[n - 1]
  <2>1. P(n)[n] = IF n = 0 THEN 1 ELSE 2 * P(n)[n - 1]
    <3>1. Powers(P(n), n)
      BY <1>1
    <3>2. n \in 0 .. n
      OBVIOUS
    <3> QED BY <3>1, <3>2 DEF Powers
  <2>2. ASSUME n # 0 PROVE P(n)[n - 1] = P(n - 1)[n - 1]
    <3>1. n - 1 \in Nat /\ n - 1 <= n /\ n - 1 \in 0 .. n - 1
      BY <2>2
    <3>2. Powers(P(n - 1), n - 1) /\ Powers(P(n), n)
      BY <1>1, <3>1
    <3>3. \A i \in 0 .. n - 1 : P(n - 1)[i] = P(n)[i]
      BY <3>1, <3>2, PowersAgree
    <3> QED BY <3>1, <3>3
  <2> QED BY <2>1, <2>2
<1>3. h = [ n \in Nat |-> IF n = 0 THEN 1 ELSE 2 * h[n - 1] ]
  BY <1>2
<1> HIDE DEF h
<1>4. \E f : f = [ n \in Nat |-> IF n = 0 THEN 1 ELSE 2 * f[n - 1] ]
  BY <1>3
<1>5. PowerOfTwo = [ n \in Nat |-> IF n = 0 THEN 1 ELSE 2 * PowerOfTwo[n - 1] ]
  BY <1>4 DEF PowerOfTwo
<1> HIDE DEF PowerOfTwo
<1>6. \A n \in Nat : PowerOfTwo[n] = IF n = 0 THEN 1 ELSE 2 * PowerOfTwo[n - 1]
  BY <1>5
<1>7. ASSUME NEW n \in Nat PROVE PowerOfTwo[n + 1] = 2 * PowerOfTwo[n]
  <2>1. n + 1 \in Nat /\ n + 1 # 0 /\ (n + 1) - 1 = n
    OBVIOUS
  <2> QED BY <1>6, <2>1
<1> QED BY <1>6, <1>7

LEMMA PowerPositive == \A n \in Nat : PowerOfTwo[n] \in Nat \ {0}
<1> SUFFICES ASSUME NEW n \in Nat PROVE PowerOfTwo[n] \in Nat \ {0}
  OBVIOUS
<1> DEFINE S == { k \in Nat : PowerOfTwo[k] \in Nat \ {0} }
<1>1. 0 \in S
  BY PowerOfTwoIs
<1>2. ASSUME NEW k \in 0 .. n, k < n, k \in S PROVE k + 1 \in S
  <2>1. k \in Nat /\ PowerOfTwo[k + 1] = 2 * PowerOfTwo[k] /\ PowerOfTwo[k] \in Nat \ {0}
    BY <1>2, PowerOfTwoIs
  <2> QED BY <2>1
<1> HIDE DEF S
<1>3. n \in S
  BY <1>1, <1>2, UpTo
<1> QED BY <1>3 DEF S

\* A client that is made has a backoff to double, and no more attempts than a
\* byte can count.
LEMMA ClientRange ==
  ASSUME NEW c \in Clients, NEW options, OptionsFor(c, options), New(c, options).result = "ok",
         NEW config, config = New(c, options).config
  PROVE  config.Backoff \in 1 .. Minute /\ config.MaxRetries \in 0 .. MaxUint8
<1> DEFINE n == Len(options)
<1>1. c \in Constructors /\ "Backoff" \in DOMAIN Defaults(c) /\ "MaxRetries" \in DOMAIN Defaults(c)
  BY ClientFields DEF Constructors
<1>2. Defaults(c)["Backoff"] = 2 /\ Defaults(c)["MaxRetries"] = 10
  BY DEF Defaults, Clients, Handlers, Storages, ProducerDefaults, ConsumerDefaults, GroupDefaults, Extend
<1>3. \A i \in 1 .. n : ErrorOf(c, options[i].field, options[i].value) = "ok"
  BY <1>1, NewIs
<1>4. \A f, v : ErrorOf(c, f, v) = ClientError(f, v)
  BY DEF ErrorOf, Handlers, Storages, Clients
<1>5. config["Backoff"] \in 1 .. Minute
  <2>1. CASE \A i \in 1 .. n : options[i].field # "Backoff"
    <3>1. config["Backoff"] = Defaults(c)["Backoff"]
      BY <1>1, <2>1, MadeIs DEF Filled
    <3> QED BY <1>2, <3>1 DEF Minute
  <2>2. CASE \E i \in 1 .. n : options[i].field = "Backoff"
    <3>1. PICK i : LastOf(options, n, "Backoff", i)
      BY <1>1, <2>2, LastExists
    <3>2. config["Backoff"] = Stored(Defaults(c)["Backoff"], "Backoff", options[i].value)
      BY <1>1, <3>1, MadeIs
    <3>3. config["Backoff"] = options[i].value
      BY <3>2, StoredIs
    <3>4. ClientError("Backoff", options[i].value) = "ok"
      BY <1>3, <1>4, <3>1 DEF LastOf
    <3> DEFINE v == options[i].value
    <3>5. FirstError(<< Required(v = 0), Valid(v \in 1 .. Minute) >>) = "ok"
      BY <3>4 DEF ClientError, Timeouts, Periods
    <3>6. Valid(v \in 1 .. Minute) = "ok"
      BY <3>5, Simple, FirstOfTwo
    <3> QED BY <3>3, <3>6, CheckSays
  <2> QED BY <2>1, <2>2
<1>6. config["MaxRetries"] \in 0 .. MaxUint8
  <2>1. CASE \A i \in 1 .. n : options[i].field # "MaxRetries"
    <3>1. config["MaxRetries"] = Defaults(c)["MaxRetries"]
      BY <1>1, <2>1, MadeIs DEF Filled
    <3> QED BY <1>2, <3>1 DEF MaxUint8
  <2>2. CASE \E i \in 1 .. n : options[i].field = "MaxRetries"
    <3>1. PICK i : LastOf(options, n, "MaxRetries", i)
      BY <1>1, <2>2, LastExists
    <3> DEFINE v == options[i].value
    <3>2. config["MaxRetries"] = Stored(Defaults(c)["MaxRetries"], "MaxRetries", v)
      BY <1>1, <3>1, MadeIs
    <3>3. config["MaxRetries"] = v % (MaxUint8 + 1)
      BY <3>2 DEF Stored
    <3>4. ClientError("MaxRetries", v) = "ok"
      BY <1>3, <1>4, <3>1 DEF LastOf
    <3>5. Valid(v \in 0 .. MaxUint8) = "ok"
      BY <3>4 DEF ClientError, Timeouts, Periods
    <3>6. v \in 0 .. MaxUint8
      BY <3>5, CheckSays
    <3> HIDE DEF v
    <3> QED BY <3>3, <3>6 DEF MaxUint8
  <2> QED BY <2>1, <2>2
<1> QED BY <1>5, <1>6

\* The numbers of the loops, and how far these are.
LoopTypes ==
  /\ clock \in Nat /\ attempt \in Nat /\ initial \in Nat \ {0}
  /\ err \in {"nil", "error"}

Connecting == (IsServer /\ done = 3) \/ (IsConsumer /\ done = 5)

Attempts ==
  /\ IsConsumer /\ done <= 2 => attempt = 0
  /\ IsConsumer /\ done = 3 => attempt <= PingRetries
  /\ Connecting /\ status = "starting" => /\ attempt <= made.config.MaxRetries
                                          /\ made.config.MaxRetries \in Nat

LoopInv == LoopTypes /\ BacksOff /\ Attempts

LEMMA LoopInit == Init => LoopInv
<1> SUFFICES ASSUME Init PROVE LoopInv
  OBVIOUS
<1>1. /\ done = 0 /\ attempt = 0 /\ backoff = PingBackoff /\ initial = PingBackoff /\ slept = 0
      /\ clock = 0 /\ err = "nil"
  BY DEF Init
<1>2. LoopTypes
  BY <1>1, TimeAssumption DEF LoopTypes
<1>3. BacksOff
  BY <1>1, PowerOfTwoIs, TimeAssumption DEF BacksOff
<1>4. Attempts
  BY <1>1, TimeAssumption DEF Attempts, Connecting
<1> QED BY <1>2, <1>3, <1>4 DEF LoopInv

LEMMA BackoffPositive ==
  ASSUME LoopTypes, BacksOff
  PROVE  backoff \in Nat \ {0} /\ slept \in Nat
<1> DEFINE power == PowerOfTwo[attempt]
<1>1. power \in Nat \ {0} /\ initial \in Nat \ {0}
  BY PowerPositive DEF LoopTypes
<1>2. backoff = initial * power /\ slept = backoff - initial
  BY DEF BacksOff
<1> HIDE DEF power
<1>3. initial * power \in Nat /\ initial * power >= initial
  BY <1>1
<1> QED BY <1>1, <1>2, <1>3

\* An attempt that fails before its number is reached.
LEMMA LoopSleeps ==
  ASSUME LoopInv, Placed, NEW t \in Nat, SleepFrom(t),
         IsConsumer /\ done = 3 => attempt < PingRetries,
         Connecting => attempt < made.config.MaxRetries,
         (IsConsumer /\ done = 3) \/ Connecting
  PROVE  LoopInv'
<1> USE DEF LoopInv
<1>1. /\ clock' = t + backoff /\ slept' = slept + backoff /\ backoff' = backoff * 2
      /\ attempt' = attempt + 1 /\ err' = "error" /\ initial' = initial
      /\ UNCHANGED << world, done, status, made >>
  BY DEF SleepFrom
<1>2. backoff \in Nat \ {0} /\ slept \in Nat
  BY BackoffPositive
<1>3. LoopTypes'
  BY <1>1, <1>2 DEF LoopTypes
<1>4. BacksOff'
  <2> DEFINE power == PowerOfTwo[attempt]
             next == PowerOfTwo[attempt']
  <2>1. next = 2 * power /\ power \in Nat \ {0} /\ initial \in Nat \ {0}
    BY <1>1, PowerOfTwoIs, PowerPositive DEF LoopTypes
  <2>2. backoff = initial * power /\ slept = backoff - initial
    BY DEF BacksOff
  <2> HIDE DEF power, next
  <2>3. initial * (2 * power) = (initial * power) * 2
    BY <2>1
  <2>4. backoff' = initial' * next
    BY <1>1, <2>1, <2>2, <2>3
  <2>5. slept' = backoff' - initial'
    BY <1>1, <1>2, <2>1, <2>2
  <2> QED BY <2>4, <2>5 DEF BacksOff, next
<1>5. Attempts'
  <2>1. program' = program /\ done' = done
    BY <1>1 DEF world
  <2>2. done \in Int /\ attempt \in Int /\ PingRetries \in Int
    BY TimeAssumption DEF Placed, LoopTypes
  <2>3. IsConsumer' <=> IsConsumer
    BY <2>1 DEF IsConsumer
  <2>4. Connecting' <=> Connecting
    BY <2>1 DEF Connecting, IsServer, IsConsumer
  <2>5. IsConsumer /\ done <= 2 => FALSE
    BY <2>2, OneProgram DEF Connecting
  <2> QED BY <1>1, <2>1, <2>2, <2>3, <2>4, <2>5 DEF Attempts
<1> QED BY <1>3, <1>4, <1>5

\* A step that does not touch the loop and does not begin a connection.
LEMMA LoopStays ==
  ASSUME LoopInv, Placed, UNCHANGED << world, clock, attempt, backoff, initial, slept, made >>,
         err' \in {err, "nil"},
         done' = done \/ done' = done + 1,
         Connecting' => done' = done,
         status' = "starting" => status = "starting"
  PROVE  LoopInv'
<1> USE DEF LoopInv
<1>1. LoopTypes' /\ BacksOff'
  BY DEF LoopTypes, BacksOff
<1>2. program' = program /\ done \in Int /\ attempt \in Int /\ PingRetries \in Nat
  BY TimeAssumption DEF world, Placed, LoopTypes
<1>3. IsConsumer' <=> IsConsumer
  BY <1>2 DEF IsConsumer
<1>4. Connecting' => Connecting
  BY <1>2 DEF Connecting, IsServer, IsConsumer
<1>5. IsConsumer' /\ done' <= 2 => attempt' = 0
  BY <1>2, <1>3 DEF Attempts
<1>6. IsConsumer' /\ done' = 3 => attempt' <= PingRetries
  BY <1>2, <1>3 DEF Attempts
<1>7. (Connecting /\ status = "starting" => /\ attempt <= made.config.MaxRetries
                                            /\ made.config.MaxRetries \in Nat)'
  BY <1>4 DEF Attempts
<1> QED BY <1>1, <1>5, <1>6, <1>7 DEF Attempts

\* What is made right before connecting is a client.
LEMMA MadeToConnect ==
  ASSUME Placed
  PROVE  /\ IsServer /\ done = 2 => Plan[done + 1].constructor \in Clients
         /\ IsConsumer /\ done = 4 => Plan[done + 1].constructor \in Clients
<1>1. IsServer /\ done = 2 => Plan[done + 1].constructor = "producer"
  BY ServerPlan DEF IsServer, Make
<1>2. IsConsumer /\ done = 4 => Plan[done + 1].constructor = Kind
  BY ConsumerPlanIs DEF IsConsumer, Make
<1> QED BY <1>1, <1>2, ConsumersAre DEF IsConsumer, Clients

LEMMA LoopConstruct ==
  ASSUME LoopInv, NewsInv, Placed', Construct
  PROVE  LoopInv'
<1> USE DEF LoopInv
<1>0. Placed /\ done \in Int /\ attempt \in Nat /\ PingRetries \in Nat
  BY TimeAssumption DEF NewsInv, Placed, LoopTypes
<1>1. /\ At("new") /\ UNCHANGED << program, clock, err >> /\ Step = Plan[done + 1]
      /\ made' = New(Step.constructor, Step.options)
  BY DEF Construct, world, Step
<1>2. /\ done + 1 \in 1 .. Len(Plan) /\ IsNew(done + 1)
      /\ IsServer => done \in {1, 2, 5, 6, 7, 8}
      /\ IsConsumer => done \in {1, 2, 4}
  <2>1. IsNew(done + 1)
    BY <1>1 DEF At, IsNew
  <2> QED BY <1>0, <1>1, <2>1, Where
<1>3. Step.constructor \in Constructors /\ OptionsFor(Step.constructor, Step.options)
  BY <1>0, <1>1, <1>2, PlanOptions DEF NewsInv
<1>4. /\ IsServer' <=> IsServer
      /\ IsConsumer' <=> IsConsumer
  BY <1>1 DEF IsServer, IsConsumer
<1>5. CASE made'.result = "ok" /\ Step.constructor \in Clients
  <2>1. /\ backoff' = made'.config.Backoff /\ initial' = backoff' /\ attempt' = 0 /\ slept' = 0
        /\ done' = done + 1
    BY <1>5 DEF Construct, GoOn
  <2>2. made'.config.Backoff \in 1 .. Minute /\ made'.config.MaxRetries \in 0 .. MaxUint8
    BY <1>1, <1>3, <1>5, ClientRange
  <2>3. initial' \in Nat \ {0} /\ made'.config.MaxRetries \in Nat
    BY <2>1, <2>2 DEF Minute, MaxUint8
  <2>4. LoopTypes'
    BY <1>1, <2>1, <2>3 DEF LoopTypes
  <2>5. BacksOff'
    BY <2>1, <2>3, PowerOfTwoIs DEF BacksOff
  <2>6. Attempts'
    BY <1>0, <2>1, <2>3 DEF Attempts
  <2> QED BY <2>4, <2>5, <2>6
<1>6. CASE ~(made'.result = "ok" /\ Step.constructor \in Clients)
  <2>1. UNCHANGED << attempt, backoff, initial, slept >>
    BY <1>6 DEF Construct
  <2>2. LoopTypes' /\ BacksOff'
    BY <1>1, <2>1 DEF LoopTypes, BacksOff
  <2>3. \/ made'.result = "ok" /\ done' = done + 1
        \/ done' = done /\ status' # "starting"
    BY DEF Construct, GoOn, Leave
  <2>4. ~(Connecting' /\ status' = "starting")
    <3>1. CASE done' = done /\ status' # "starting"
      BY <3>1
    <3>2. CASE made'.result = "ok" /\ done' = done + 1
      <4>1. Connecting' => (IsServer /\ done = 2) \/ (IsConsumer /\ done = 4)
        BY <1>0, <1>4, <3>2 DEF Connecting
      <4> QED BY <1>0, <1>1, <1>6, <3>2, <4>1, MadeToConnect
    <3> QED BY <2>3, <3>1, <3>2
  <2>5. IsConsumer' /\ done' <= 2 => attempt' = 0
    BY <1>0, <1>4, <2>1, <2>3 DEF Attempts
  <2>6. IsConsumer' /\ done' = 3 => attempt' <= PingRetries
    BY <1>0, <1>2, <1>4, <2>1, <2>3 DEF Attempts
  <2>7. Attempts'
    BY <2>4, <2>5, <2>6 DEF Attempts
  <2> QED BY <2>2, <2>7
<1> QED BY <1>5, <1>6

LEMMA LoopNext ==
  ASSUME LoopInv, NewsInv, [Next]_vars
  PROVE  LoopInv'
<1> USE DEF LoopInv
<1>0. Placed
  BY DEF NewsInv
<1>1. Placed' /\ UNCHANGED world
  BY <1>0, PlacedNext
<1>2. done \in Int /\ (done' \in Int) /\ attempt \in Nat
  BY <1>0, <1>1 DEF Placed, LoopTypes
<1>3. CASE Construct
  BY <1>1, <1>3, LoopConstruct
<1>4. ASSUME NEW what, At(what), what # "new", done' = done + 1 PROVE ~Connecting'
  <2>1. (IsServer => done \in {0, 3, 4, 9}) /\ (IsConsumer => done \in {0, 3, 5, 6})
    BY <1>0, <1>4, Where
  <2>2. Connecting' => (IsServer /\ done = 2) \/ (IsConsumer /\ done = 4)
    BY <1>1, <1>2, <1>4 DEF Connecting, world, IsServer, IsConsumer
  <2> QED BY <2>1, <2>2
<1>5. CASE ParseEnvironment \/ PingReturns \/ PingGivesUp \/ Connect \/ ConnectLoopEnds \/ MakeQueues
           \/ Serve \/ NoSuchPartition \/ Return \/ GroupReturn \/ UNCHANGED vars
  <2>1. UNCHANGED << clock, attempt, backoff, initial, slept, made >> /\ err' \in {err, "nil"}
    BY <1>5 DEF ParseEnvironment, PingReturns, PingGivesUp, Connect, ConnectLoopEnds, MakeQueues,
      Serve, NoSuchPartition, Return, GroupReturn, vars, loop
  <2>2. \/ done' = done
        \/ done' = done + 1 /\ \E what : At(what) /\ what # "new"
    BY <1>5 DEF ParseEnvironment, PingReturns, PingGivesUp, Connect, ConnectLoopEnds, MakeQueues,
      Serve, NoSuchPartition, Return, GroupReturn, vars, GoOn, Leave, Die
  <2>3. Connecting' => done' = done
    BY <1>4, <2>2
  <2>4. status' = "starting" => status = "starting"
    BY <1>5 DEF ParseEnvironment, PingReturns, PingGivesUp, Connect, ConnectLoopEnds, MakeQueues,
      Serve, NoSuchPartition, Return, GroupReturn, vars, GoOn, Leave, Die, At
  <2> QED BY <1>0, <1>1, <2>1, <2>2, <2>3, <2>4, LoopStays
<1>6. CASE PingFails
  <2>1. PICK t \in clock .. (IF clock < PingTimeout THEN PingTimeout ELSE clock) : SleepFrom(t)
    BY <1>6 DEF PingFails
  <2>2. At("ping") /\ attempt < PingRetries
    BY <1>6 DEF PingFails
  <2>3. IsConsumer /\ ~IsServer /\ done = 3
    BY <1>0, <2>2, Where, OneProgram DEF Placed
  <2>4. t \in Nat
    BY <2>1, TimeAssumption DEF LoopTypes
  <2> QED BY <1>0, <2>1, <2>2, <2>3, <2>4, LoopSleeps DEF Connecting
<1>7. CASE ConnectFails
  <2>1. PICK d \in AttemptTimes : SleepFrom(clock + d)
    BY <1>7 DEF ConnectFails
  <2>2. At("connect") /\ attempt < made.config.MaxRetries
    BY <1>7 DEF ConnectFails
  <2>3. Connecting /\ ~(IsConsumer /\ done = 3)
    BY <1>0, <2>2, Where, OneProgram DEF Placed, Connecting
  <2>4. clock + d \in Nat
    BY TimeAssumption DEF LoopTypes
  <2> QED BY <1>0, <2>1, <2>2, <2>3, <2>4, LoopSleeps
<1> QED BY <1>3, <1>5, <1>6, <1>7 DEF Next, StartStep, PingStep, ConnectStep

LaunchInv == NewsInv /\ DeferInv /\ LoopInv

LEMMA LaunchAlways == Spec => []LaunchInv
<1>1. Init => LaunchInv
  BY NewsInit, DeferInit, LoopInit DEF LaunchInv
<1>2. LaunchInv /\ [Next]_vars => LaunchInv'
  BY NewsNext, DeferNext, LoopNext DEF LaunchInv
<1> QED BY <1>1, <1>2, PTL DEF Spec

\* Both loops double what they sleep, from the first attempt to the last, and
\* for any backoff they start with.
THEOREM LoopsBackOff == Spec => []BacksOff
<1>1. LaunchInv => BacksOff
  BY DEF LaunchInv, LoopInv
<1> QED BY <1>1, LaunchAlways, PTL

-----------------------------------------------------------------------------
(***************************************************************************)
(* Types.                                                                  *)
(***************************************************************************)

Statuses == {"starting", "serving", "ended", "failed", "panicked"}

LEMMA StatusNext ==
  ASSUME status \in Statuses, [Next]_vars
  PROVE  status' \in Statuses
BY DEF Statuses, Next, StartStep, PingStep, ConnectStep, ParseEnvironment, Construct, PingReturns,
  PingFails, PingGivesUp, Connect, ConnectFails, ConnectLoopEnds, MakeQueues, Serve, NoSuchPartition,
  Return, GroupReturn, SleepFrom, vars, GoOn, Leave, Die

LEMMA LaunchTypes ==
  ASSUME LaunchInv, status \in Statuses
  PROVE  TypeOK
<1> USE DEF LaunchInv
<1>1. Placed /\ HasDeferred /\ HasClient /\ LoopTypes /\ BacksOff /\ Attempts /\ made.result \in Results
  BY DEF DeferInv, LoopInv, NewsInv
<1>2. program \in Programs \cup {"caller"} /\ done \in 0 .. Len(Plan)
  BY <1>1, OneProgram DEF Placed
<1>3. clock \in Nat /\ slept \in Nat /\ backoff \in Nat \ {0} /\ attempt \in Nat
  BY <1>1, BackoffPositive DEF LoopTypes
<1>4. At("ping") => attempt <= PingRetries
  <2>1. At("ping") => IsConsumer /\ done = 3
    BY <1>1, Where DEF Placed
  <2> QED BY <1>1, <2>1 DEF Attempts
<1>5. At("connect") => attempt <= made.config.MaxRetries
  <2>1. At("connect") => Connecting /\ status = "starting"
    BY <1>1, Where DEF Placed, Connecting, At
  <2> QED BY <1>1, <2>1 DEF Attempts
<1>6. ToSet(deferred) \subseteq {"pool", "client", "nil"}
  <2>1. \/ deferred = << >>
        \/ deferred = << "client" >>
        \/ deferred = << "pool" >>
        \/ deferred = << client, "pool" >>
    BY <1>1 DEF HasDeferred, Placed
  <2> QED BY <1>1, <2>1 DEF ToSet, HasClient
<1>7. err \in {"nil", "error"} /\ client \in {"nil", "client"}
      /\ made.result \in {"ok", "required", "invalid", "parse"}
  BY <1>1 DEF LoopTypes, HasClient, Results, Errors
<1> QED BY <1>2, <1>3, <1>4, <1>5, <1>6, <1>7 DEF TypeOK, Statuses

\* The types: among them that a loop never makes more attempts than it may.
THEOREM LaunchTypeCorrect == Spec => []TypeOK
<1>1. Init => status \in Statuses
  BY DEF Init, Statuses
<1>2. status \in Statuses /\ [Next]_vars => (status \in Statuses)'
  BY StatusNext
<1>3. LaunchInv /\ status \in Statuses => TypeOK
  BY LaunchTypes
<1> QED BY <1>1, <1>2, <1>3, LaunchAlways, PTL DEF Spec

-----------------------------------------------------------------------------
(***************************************************************************)
(* Which environments New accepts.                                         *)
(***************************************************************************)

\* The texts the programs give are there.
LEMMA TextsGiven ==
  \A v \in {"logger", "version", "github", "gitlab", "store", ":8000"} : ~Absent(v)
BY Zenon DEF Absent, Empty

LEMMA LogLevelSays ==
  New("logger", MakeLogger(env).options).result = "ok" <=> env.LOG_LEVEL \in Levels
<1> DEFINE options == MakeLogger(env).options
           c == "logger"
           v == env.LOG_LEVEL
<1>1. Len(options) = 1 /\ options[1] = Option("Level", v) /\ OptionsFor(c, options)
  BY LoggerOptions
<1>2. c \in Constructors
  BY DEF Constructors
<1>3. ErrorOf(c, "Level", v) = FirstError(<< Required(Absent(v)), Valid(v \in Levels) >>)
  BY DEF ErrorOf, LoggerError, Handlers, Storages, Clients
<1>4. ErrorOf(c, "Level", v) = "ok" <=> v \in Levels
  <2>1. ErrorOf(c, "Level", v) = "ok" <=> Required(Absent(v)) = "ok" /\ Valid(v \in Levels) = "ok"
    BY <1>3, Simple, FirstOfTwo
  <2> QED BY <2>1, CheckSays, NotEmpty DEF Absent
<1>5. FirstError(Checks(c, Applied(c, options))) = "ok"
  BY LoggerChecksSay
<1> HIDE DEF options, c, v
<1>6. New(c, options).result = "ok" <=>
        \A i \in 1 .. 1 : ErrorOf(c, options[i].field, options[i].value) = "ok"
  BY <1>1, <1>2, <1>5, NewIs
<1>7. New(c, options).result = "ok" <=> ErrorOf(c, "Level", v) = "ok"
  BY <1>1, <1>6, OptionIs
<1> QED BY <1>4, <1>7 DEF options, c, v

\* The only option for a field says what is in it.
LEMMA OnlyOption ==
  ASSUME NEW c, NEW options, OptionsFor(c, options), NEW i \in 1 .. Len(options), NEW f, NEW v,
         options[i] = Option(f, v), f # "Handlers",
         \A j \in 1 .. Len(options) : options[j].field = f => j = i
  PROVE  /\ Applied(c, options)[f] = Stored(Defaults(c)[f], f, v)
         /\ LastOf(options, Len(options), f, i)
<1>1. options[i].field = f /\ options[i].value = v /\ f \in DOMAIN Defaults(c)
  BY OptionIs DEF OptionsFor
<1>2. LastOf(options, Len(options), f, i)
  BY <1>1 DEF LastOf
<1> QED BY <1>1, <1>2, FieldFrom

LEMMA HandlerSays ==
  ASSUME NEW p \in Providers, NEW secret, secret # "nil"
  PROVE  LET new == MakeHandler(p, secret)
         IN  New(new.constructor, new.options).result = "ok" <=> secret # Empty
<1> DEFINE options == MakeHandler(p, secret).options
           c == MakeHandler(p, secret).constructor
<1>1. /\ c \in Handlers /\ Len(options) = 4 /\ OptionsFor(c, options)
      /\ options[1] = Option("Logger", "logger") /\ options[2] = Option("Topic", p)
      /\ options[3] = Option("Secret", secret) /\ options[4] = Option("MessageQueue", p)
  BY HandlerOptions
<1>2. c \in Constructors
  BY <1>1 DEF Constructors
<1> HIDE DEF options, c
<1>3. \A i \in 1 .. 4 : i = 1 \/ i = 2 \/ i = 3 \/ i = 4
  OBVIOUS
<1>4. \A f, v : ErrorOf(c, f, v) = HandlerError(f, v)
  BY <1>1 DEF ErrorOf, Handlers, Storages, Clients
<1>5. p \in Topics /\ ~Absent(p) /\ ~Absent("logger")
  BY TextsGiven DEF Providers, Topics
<1>6. /\ ErrorOf(c, "Logger", "logger") = "ok" /\ ErrorOf(c, "Topic", p) = "ok"
      /\ ErrorOf(c, "MessageQueue", p) = "ok"
      /\ ErrorOf(c, "Secret", secret) = "ok" <=> secret # Empty
  <2>1. /\ HandlerError("Logger", "logger") = Required(Absent("logger"))
        /\ HandlerError("Topic", p) = Valid(p \in Topics)
        /\ HandlerError("MessageQueue", p) = Required(Absent(p))
        /\ HandlerError("Secret", secret) = Required(Absent(secret))
    BY DEF HandlerError
  <2>2. Absent(secret) <=> secret = Empty
    BY DEF Absent
  <2> QED BY <1>4, <1>5, <2>1, <2>2, CheckSays
<1> DEFINE Fine(i) == ErrorOf(c, options[i].field, options[i].value) = "ok"
<1>7. Fine(1) /\ Fine(2) /\ Fine(4) /\ (Fine(3) <=> secret # Empty)
  BY <1>1, <1>6, OptionIs
<1>8. /\ Applied(c, options)["Logger"] = "logger" /\ Applied(c, options)["Topic"] = p
      /\ Applied(c, options)["Secret"] = secret /\ Applied(c, options)["MessageQueue"] = p
  <2>1. \A i, j \in 1 .. 4 : options[i].field = options[j].field => i = j
    BY <1>1, <1>3, OptionIs
  <2>2. ASSUME NEW i \in 1 .. 4, NEW f, NEW v, options[i] = Option(f, v), f # "Handlers"
        PROVE  Applied(c, options)[f] = Stored(Defaults(c)[f], f, v)
    <3>1. \A j \in 1 .. Len(options) : options[j].field = f => j = i
      BY <1>1, <2>1, <2>2, OptionIs
    <3>2. i \in 1 .. Len(options) /\ OptionsFor(c, options)
      BY <1>1
    <3>3. options[i] = Option(f, v) /\ f # "Handlers"
      BY <2>2
    <3> HIDE DEF Fine
    <3> QED BY <3>1, <3>2, <3>3, OnlyOption
  <2> QED BY <1>1, <2>2, StoredIs
<1>9. FirstError(Checks(c, Applied(c, options))) = "ok" <=> secret # Empty
  BY <1>1, <1>5, <1>8, HandlerChecksSay, NotEmpty DEF Absent
<1>10. New(c, options).result = "ok" <=>
         (\A i \in 1 .. 4 : Fine(i)) /\ FirstError(Checks(c, Applied(c, options))) = "ok"
  BY <1>1, <1>2, NewIs
<1> HIDE DEF Fine
<1> QED BY <1>3, <1>7, <1>9, <1>10 DEF options, c

LEMMA StorageSays ==
  ASSUME NEW p \in Providers, env.DATABASE_URL # "nil"
  PROVE  LET new == MakeStorage(p, env)
         IN  New(new.constructor, new.options).result = "ok" <=> env.DATABASE_URL \notin {Empty, "junk"}
<1> DEFINE options == MakeStorage(p, env).options
           c == MakeStorage(p, env).constructor
           dsn == env.DATABASE_URL
<1>1. /\ c \in Storages /\ Len(options) = 2 /\ OptionsFor(c, options)
      /\ options[1] = Option("DatabaseDSN", dsn) /\ options[2] = Option("Logger", "logger")
  BY StorageOptions
<1>2. c \in Constructors
  BY <1>1 DEF Constructors
<1> HIDE DEF options, c, dsn
<1>3. \A i \in 1 .. 2 : i = 1 \/ i = 2
  OBVIOUS
<1>4. \A f, v : ErrorOf(c, f, v) = Required(Absent(v))
  BY <1>1 DEF ErrorOf, Handlers, Storages, Clients, StorageError
<1>5. /\ ErrorOf(c, "Logger", "logger") = "ok"
      /\ ErrorOf(c, "DatabaseDSN", dsn) = "ok" <=> dsn # Empty
  BY <1>4, CheckSays, TextsGiven DEF Absent, dsn
<1> DEFINE Fine(i) == ErrorOf(c, options[i].field, options[i].value) = "ok"
<1>6. Fine(2) /\ (Fine(1) <=> dsn # Empty)
  BY <1>1, <1>5, OptionIs
<1>7. Applied(c, options)["Logger"] = "logger" /\ Applied(c, options)["DatabaseDSN"] = dsn
  <2>1. \A i, j \in 1 .. 2 : options[i].field = options[j].field => i = j
    BY <1>1, <1>3, OptionIs
  <2>2. ASSUME NEW i \in 1 .. 2, NEW f, NEW v, options[i] = Option(f, v), f # "Handlers"
        PROVE  Applied(c, options)[f] = Stored(Defaults(c)[f], f, v)
    <3>1. \A j \in 1 .. Len(options) : options[j].field = f => j = i
      BY <1>1, <2>1, <2>2, OptionIs
    <3>2. i \in 1 .. Len(options) /\ OptionsFor(c, options)
      BY <1>1
    <3>3. options[i] = Option(f, v) /\ f # "Handlers"
      BY <2>2
    <3> HIDE DEF Fine
    <3> QED BY <3>1, <3>2, <3>3, OnlyOption
  <2> QED BY <1>1, <2>2, StoredIs
<1>8. FirstError(Checks(c, Applied(c, options))) = "ok" <=> dsn # Empty /\ dsn # "junk"
  BY <1>1, <1>7, StorageChecksSay
<1>9. New(c, options).result = "ok" <=>
        (\A i \in 1 .. 2 : Fine(i)) /\ FirstError(Checks(c, Applied(c, options))) = "ok"
  BY <1>1, <1>2, NewIs
<1> HIDE DEF Fine
<1> QED BY <1>3, <1>6, <1>8, <1>9 DEF options, c, dsn

LEMMA HealthSays == New("health", HealthOptions).result = "ok"
<1> DEFINE c == "health"
<1>1. c \in Constructors /\ Len(HealthOptions) = 1 /\ HealthOptions[1] = Option("Version", "version")
  BY HealthOptionsAre DEF Constructors
<1>2. ErrorOf(c, "Version", "version") = "ok"
  <2>1. ErrorOf(c, "Version", "version") = Required(Absent("version"))
    BY DEF ErrorOf, Handlers, Storages, Clients, StorageError
  <2> QED BY <2>1, CheckSays, TextsGiven
<1>3. OptionsFor(c, HealthOptions)
  BY HealthOptionsAre
<1>4. Applied(c, HealthOptions)["Version"] = "version"
  BY <1>1, <1>3, OnlyOption, StoredIs
<1>5. FirstError(Checks(c, Applied(c, HealthOptions))) = "ok"
  <2> DEFINE config == Applied(c, HealthOptions)
  <2>1. config.Version # Empty
    BY <1>4, TextsGiven DEF Absent
  <2> QED BY <2>1, HealthChecksSay
<1> QED BY <1>1, <1>2, <1>3, <1>5, NewIs, OptionIs

LEMMA AddressSays == \A addresses : Valid(ValidAddresses(addresses) # {}) = "ok" <=> "addr" \in addresses
BY CheckSays DEF ValidAddresses

LEMMA RoutesOk ==
  ASSUME NEW method \in Methods, NEW path, path # Empty, NEW handler, handler # "nil",
         NEW route, route = [ method |-> method, path |-> path, handler |-> handler ]
  PROVE  ErrorOf("server", "Handlers", route) = "ok"
<1>1. ErrorOf("server", "Handlers", route) = RouteError(route)
  BY DEF ErrorOf, ServerError, Handlers, Storages, Clients, Timeouts
<1>2. route.method = method /\ route.path = path /\ route.handler = handler /\ method # Empty
  BY NotEmpty
<1> DEFINE a == Required(route.method = Empty)
           b == Valid(route.method \in Methods)
           d == Required(route.path = Empty)
           e == Required(route.handler = "nil")
<1>3. a = "ok" /\ b = "ok" /\ d = "ok" /\ e = "ok"
  BY <1>2, CheckSays
<1>4. RouteError(route) = FirstError(<< a, b, d, e >>)
  BY DEF RouteError
<1> HIDE DEF a, b, d, e
<1>5. a \in Results /\ b \in Results /\ d \in Results /\ e \in Results
  BY Simple DEF a, b, d, e
<1> QED BY <1>1, <1>3, <1>4, <1>5, FirstOfFour

\* What the environment has to say to the server.
ServerTimes ==
  env.SERVER_READ_TIMEOUT >= 0 /\ env.SERVER_WRITE_TIMEOUT >= 0 /\ env.SERVER_IDLE_TIMEOUT >= 0

LEMMA ServerSays ==
  ASSUME env.LISTEN_ADDR \notin {"nil", Empty, "junk"}
  PROVE  New("server", ServerOptions).result = "ok" <=> ServerTimes /\ "addr" \in env.KCP_BROKERS
<1> DEFINE c == "server"
           options == ServerOptions
<1>1. c \in Constructors /\ OptionsFor(c, options)
  BY ServerOptionsFor DEF Constructors
<1>2. \A f, v : ErrorOf(c, f, v) = ServerError(f, v)
  BY DEF ErrorOf, Handlers, Storages, Clients
<1> DEFINE Fine(i) == ErrorOf(c, options[i].field, options[i].value) = "ok"
<1>3. Fine(1)
  <2>1. ServerError("Logger", "logger") = Required(Absent("logger"))
    BY DEF ServerError, Timeouts
  <2> QED BY <1>2, <2>1, ServerOptionsAre, OptionIs, TextsGiven, CheckSays
<1>4. Fine(2)
  <2> DEFINE v == env.LISTEN_ADDR
  <2>1. ServerError("ListenAddr", v) = FirstError(<< Required(Absent(v)), Valid(v # "junk") >>)
    BY DEF ServerError, Timeouts
  <2>2. Required(Absent(v)) = "ok" /\ Valid(v # "junk") = "ok"
    BY CheckSays DEF Absent
  <2>3. ServerError("ListenAddr", v) = "ok"
    BY <2>1, <2>2, Simple, FirstOfTwo
  <2> QED BY <1>2, <2>3, ServerOptionsAre, OptionIs
<1>5. (Fine(3) /\ Fine(4) /\ Fine(5)) <=> ServerTimes
  <2>1. \A f \in Timeouts : \A v : ServerError(f, v) = Valid(v >= 0)
    BY DEF ServerError, Timeouts
  <2>2. "ReadTimeout" \in Timeouts /\ "WriteTimeout" \in Timeouts /\ "IdleTimeout" \in Timeouts
    BY DEF Timeouts
  <2>3. ASSUME NEW i, NEW f \in Timeouts, NEW v, options[i] = Option(f, v) PROVE Fine(i) <=> v >= 0
    <3>1. options[i].field = f /\ options[i].value = v
      BY <2>3, OptionIs
    <3> QED BY <1>2, <2>1, <3>1, CheckSays
  <2>4. /\ Fine(3) <=> env.SERVER_READ_TIMEOUT >= 0
        /\ Fine(4) <=> env.SERVER_WRITE_TIMEOUT >= 0
        /\ Fine(5) <=> env.SERVER_IDLE_TIMEOUT >= 0
    <3> HIDE DEF Fine
    <3> QED BY <2>2, <2>3, ServerOptionsAre
  <2> QED BY <2>4 DEF ServerTimes
<1>6. Fine(6)
  <2>1. ServerError("KafkaGitHubTopic", "github") = Valid("github" \in Topics)
    BY DEF ServerError, Timeouts
  <2>2. "github" \in Topics
    BY DEF Topics
  <2>3. options[6].field = "KafkaGitHubTopic" /\ options[6].value = "github"
    BY ServerOptionsAre, OptionIs
  <2> QED BY <1>2, <2>1, <2>2, <2>3, CheckSays
<1>7. Fine(7) <=> "addr" \in env.KCP_BROKERS
  <2>1. \A v : ServerError("KafkaBrokers", v) = Valid(ValidAddresses(v) # {})
    BY DEF ServerError, Timeouts
  <2> QED BY <1>2, <2>1, ServerOptionsAre, OptionIs, AddressSays
<1>8. ASSUME NEW i \in 8 .. 10 PROVE Fine(i)
  <2>1. \A path \in {"/healthz", "/v1/webhook/github", "/v1/webhook/gitlab"} : path # Empty
    BY Zenon DEF Empty
  <2>2. \E method \in {"GET", "POST"}, path \in {"/healthz", "/v1/webhook/github", "/v1/webhook/gitlab"},
           handler \in {"health", "github", "gitlab"} : options[i] = HandleRoute(method, path, handler)
    BY ServerOptionsAre
  <2>3. PICK method \in {"GET", "POST"}, path \in {"/healthz", "/v1/webhook/github", "/v1/webhook/gitlab"},
           handler \in {"health", "github", "gitlab"} : options[i] = HandleRoute(method, path, handler)
    BY <2>2
  <2>4. /\ options[i].field = "Handlers"
        /\ options[i].value = [ method |-> method, path |-> path, handler |-> handler ]
    BY <2>3 DEF HandleRoute, Option
  <2>5. method \in Methods /\ path # Empty /\ handler # "nil"
    BY <2>1 DEF Methods
  <2> QED BY <2>4, <2>5, RoutesOk
<1>9. /\ Applied(c, options)["Logger"] = "logger"
      /\ Applied(c, options)["KafkaGitHubTopic"] = "github"
  <2>1. Applied(c, options)["Logger"] = Stored(Defaults(c)["Logger"], "Logger", "logger")
    <3>1. \A j \in 1 .. Len(options) : options[j].field = "Logger" => j = 1
      BY ServerOptionsAre, OptionIs, HandleRouteIs
    <3>2. 1 \in 1 .. Len(options) /\ options[1] = Option("Logger", "logger")
      BY ServerOptionsAre
    <3> HIDE DEF Fine, options, c
    <3> QED BY <1>1, <3>1, <3>2, OnlyOption
  <2>2. Applied(c, options)["KafkaGitHubTopic"]
          = Stored(Defaults(c)["KafkaGitHubTopic"], "KafkaGitHubTopic", "github")
    <3>1. \A j \in 1 .. Len(options) : options[j].field = "KafkaGitHubTopic" => j = 6
      BY ServerOptionsAre, OptionIs, HandleRouteIs
    <3>2. 6 \in 1 .. Len(options) /\ options[6] = Option("KafkaGitHubTopic", "github")
      BY ServerOptionsAre
    <3> HIDE DEF Fine, options, c
    <3> QED BY <1>1, <3>1, <3>2, OnlyOption
  <2> QED BY <2>1, <2>2, StoredIs
<1>10. DOMAIN Applied(c, options).Handlers # {}
  <2>1. Routed(options, Len(options), "/healthz", Applied(c, options).Handlers)
    BY <1>1, RoutesSettled
  <2>2. 8 \in 1 .. Len(options) /\ options[8].field = "Handlers" /\ options[8].value.path = "/healthz"
    BY ServerOptionsAre, HandleRouteIs
  <2> QED BY <2>1, <2>2 DEF Routed
<1>11. FirstError(Checks(c, Applied(c, options))) = "ok"
  BY <1>9, <1>10, ServerChecksSay DEF Topics
<1>12. New(c, options).result = "ok" <=> \A i \in 1 .. 10 : Fine(i)
  <2>1. Len(options) = 10
    BY ServerOptionsAre
  <2> QED BY <1>1, <1>11, <2>1, NewIs
<1> HIDE DEF Fine
<1>13. (\A i \in 1 .. 10 : Fine(i)) <=> Fine(3) /\ Fine(4) /\ Fine(5) /\ Fine(7)
  <2>1. \A i \in 1 .. 10 : i = 1 \/ i = 2 \/ i = 3 \/ i = 4 \/ i = 5 \/ i = 6 \/ i = 7 \/ i \in 8 .. 10
    OBVIOUS
  <2> QED BY <1>3, <1>4, <1>6, <1>8, <2>1
<1> QED BY <1>5, <1>7, <1>12, <1>13

LEMMA ClientOptionsIn ==
  ASSUME NEW kind \in Clients
  PROVE  LET options == ClientOptions(kind)
         IN  /\ Len(options) = IF kind = "producer" THEN 7 ELSE 10
             /\ options[1] = Option("Logger", "logger")
             /\ options[2] = Option("KafkaBrokers", env.KCP_BROKERS)
             /\ options[3] = Option("DialTimeout", env.DIAL_TIMEOUT)
             /\ options[4] = Option("ReadTimeout", env.READ_TIMEOUT)
             /\ options[5] = Option("WriteTimeout", env.WRITE_TIMEOUT)
             /\ options[6] = Option("Backoff", env.BACKOFF)
             /\ options[7] = Option("MaxRetries", env.MAX_RETRIES)
             /\ kind # "producer" => /\ options[8] = Option("ProcessMessageFunc", "store")
                                     /\ options[9] = Option("Topic", env.KC_TOPIC)
                                     /\ options[10] = OwnLast(kind)
<1> DEFINE options == ClientOptions(kind)
           first == Connection(env)
           second == OwnOptions(kind, env)
<1>1. /\ Len(options) = IF kind = "producer" THEN 7 ELSE 10
      /\ \A i \in 1 .. 7 : options[i] = first[i]
      /\ kind # "producer" => \A i \in 8 .. 10 : options[i] = second[i - 7]
  BY ClientOptionsAre
<1> HIDE DEF options, first, second
<1>2. /\ options[1] = first[1] /\ options[2] = first[2] /\ options[3] = first[3] /\ options[4] = first[4]
      /\ options[5] = first[5] /\ options[6] = first[6] /\ options[7] = first[7]
  BY <1>1
<1>3. kind # "producer" => options[8] = second[1] /\ options[9] = second[2] /\ options[10] = second[3]
  BY <1>1
<1> QED BY <1>1, <1>2, <1>3, ConnectionIs, OwnOptionsAre DEF options, first, second

\* No two of a client's options are for the same field.
LEMMA ClientOptionsDiffer ==
  ASSUME NEW kind \in Clients, NEW i \in 1 .. Len(ClientOptions(kind)),
         NEW j \in 1 .. Len(ClientOptions(kind)),
         ClientOptions(kind)[i].field = ClientOptions(kind)[j].field
  PROVE  i = j
<1> DEFINE options == ClientOptions(kind)
           n == Len(options)
<1>1. OwnLast(kind).field \in {"KafkaGroupName", "Partition"}
  BY OptionIs DEF OwnLast
<1>2. /\ options[1].field = "Logger" /\ options[2].field = "KafkaBrokers"
      /\ options[3].field = "DialTimeout" /\ options[4].field = "ReadTimeout"
      /\ options[5].field = "WriteTimeout" /\ options[6].field = "Backoff"
      /\ options[7].field = "MaxRetries"
  BY ClientOptionsIn, OptionIs
<1>3. kind # "producer" => /\ options[8].field = "ProcessMessageFunc" /\ options[9].field = "Topic"
                           /\ options[10].field \in {"KafkaGroupName", "Partition"}
  BY <1>1, ClientOptionsIn, OptionIs
<1>4. n = IF kind = "producer" THEN 7 ELSE 10
  BY ClientOptionsIn
<1> HIDE DEF options, n
<1>5. \A k \in 1 .. n : \/ k = 1 \/ k = 2 \/ k = 3 \/ k = 4 \/ k = 5 \/ k = 6 \/ k = 7
                        \/ kind # "producer" /\ (k = 8 \/ k = 9 \/ k = 10)
  BY <1>4
<1>6. i \in 1 .. n /\ j \in 1 .. n /\ options[i].field = options[j].field
  BY DEF options, n
<1> QED BY <1>2, <1>3, <1>5, <1>6

\* A client has what the environment says.
LEMMA ClientApplied ==
  ASSUME NEW kind \in Clients, NEW i \in 1 .. Len(ClientOptions(kind)), NEW f, NEW v,
         ClientOptions(kind)[i] = Option(f, v), f # "Handlers"
  PROVE  /\ Applied(kind, ClientOptions(kind))[f] = Stored(Defaults(kind)[f], f, v)
         /\ f \in DOMAIN Defaults(kind)
<1> DEFINE options == ClientOptions(kind)
<1>1. OptionsFor(kind, options) /\ kind \in Constructors
  BY ClientOptionsFor DEF Constructors
<1>2. options[i].field = f
  BY OptionIs
<1>3. \A j \in 1 .. Len(options) : options[j].field = f => j = i
  BY <1>2, ClientOptionsDiffer
<1>4. f \in DOMAIN Defaults(kind)
  BY <1>1, <1>2 DEF OptionsFor
<1>5. i \in 1 .. Len(options) /\ options[i] = Option(f, v)
  OBVIOUS
<1> HIDE DEF options
<1>6. Applied(kind, options)[f] = Stored(Defaults(kind)[f], f, v)
  BY <1>1, <1>3, <1>5, OnlyOption
<1> QED BY <1>4, <1>6 DEF options

\* What the environment has to say to a consumer of either kind.
OwnGood(kind) ==
  kind # "producer" =>
    /\ env.KC_TOPIC \in Topics
    /\ IF kind = "group" THEN env.KCG_NAME # Empty ELSE env.KC_PARTITION \in 0 .. MaxInt32

LEMMA ClientErrorIs ==
  /\ \A v : ClientError("Logger", v) = Required(Absent(v))
  /\ \A v : ClientError("ProcessMessageFunc", v) = Required(Absent(v))
  /\ \A v : ClientError("KafkaGroupName", v) = Required(Absent(v))
  /\ \A v : ClientError("Topic", v) = Valid(v \in Topics)
  /\ \A v : ClientError("Partition", v) = Valid(v \in 0 .. MaxInt32)
  /\ \A v : ClientError("MaxRetries", v) = Valid(v \in 0 .. MaxUint8)
  /\ \A v : ClientError("KafkaBrokers", v) = Valid(ValidAddresses(v) # {})
  /\ \A f \in {"DialTimeout", "ReadTimeout", "WriteTimeout"} : \A v : ClientError(f, v) = Valid(v >= 0)
  /\ \A v : ClientError("Backoff", v) = FirstError(<< Required(v = 0), Valid(v \in 1 .. Minute) >>)
<1> USE DEF ClientError, Timeouts, Periods
<1>1. /\ \A v : ClientError("Logger", v) = Required(Absent(v))
      /\ \A v : ClientError("ProcessMessageFunc", v) = Required(Absent(v))
      /\ \A v : ClientError("KafkaGroupName", v) = Required(Absent(v))
  OBVIOUS
<1>2. /\ \A v : ClientError("Topic", v) = Valid(v \in Topics)
      /\ \A v : ClientError("Partition", v) = Valid(v \in 0 .. MaxInt32)
      /\ \A v : ClientError("MaxRetries", v) = Valid(v \in 0 .. MaxUint8)
  OBVIOUS
<1>3. /\ \A v : ClientError("KafkaBrokers", v) = Valid(ValidAddresses(v) # {})
      /\ \A f \in {"DialTimeout", "ReadTimeout", "WriteTimeout"} : \A v : ClientError(f, v) = Valid(v >= 0)
  OBVIOUS
<1>4. \A v : ClientError("Backoff", v) = FirstError(<< Required(v = 0), Valid(v \in 1 .. Minute) >>)
  OBVIOUS
<1> QED BY <1>1, <1>2, <1>3, <1>4, Zenon

LEMMA ClientSays ==
  ASSUME NEW kind \in Clients, env.KCG_NAME # "nil",
         {env.BACKOFF, env.MAX_RETRIES, env.KC_PARTITION} \subseteq Int
  PROVE  New(kind, ClientOptions(kind)).result = "ok" <=> ClientEnvGood /\ OwnGood(kind)
<1> DEFINE options == ClientOptions(kind)
           n == Len(options)
           Fine(i) == ErrorOf(kind, options[i].field, options[i].value) = "ok"
           config == Applied(kind, options)
<1>1. kind \in Constructors /\ OptionsFor(kind, options)
  BY ClientOptionsFor DEF Constructors
<1>2. ASSUME NEW i, NEW f, NEW v, options[i] = Option(f, v)
      PROVE  Fine(i) <=> ClientError(f, v) = "ok"
  <2>1. ErrorOf(kind, f, v) = ClientError(f, v)
    BY DEF ErrorOf, Handlers, Storages, Clients
  <2> QED BY <1>2, <2>1, OptionIs
<1>3. New(kind, options).result = "ok" <=>
        (\A i \in 1 .. n : Fine(i)) /\ FirstError(Checks(kind, config)) = "ok"
  BY <1>1, NewIs
<1>4. FirstError(Checks(kind, config)) = "ok" <=>
        /\ config.Logger # "nil"
        /\ kind # "producer" => config.ProcessMessageFunc # "nil" /\ config.Topic \in Topics
        /\ kind = "group" => config.KafkaGroupName # Empty
  BY ClientChecksSay
<1>5. /\ config["Logger"] = "logger"
      /\ kind # "producer" => config["ProcessMessageFunc"] = "store" /\ config["Topic"] = env.KC_TOPIC
      /\ kind = "group" => config["KafkaGroupName"] = env.KCG_NAME
  <2>1. n = (IF kind = "producer" THEN 7 ELSE 10) /\ options[1] = Option("Logger", "logger")
    BY ClientOptionsIn
  <2>2. kind # "producer" => /\ options[8] = Option("ProcessMessageFunc", "store")
                             /\ options[9] = Option("Topic", env.KC_TOPIC)
    BY ClientOptionsIn
  <2>3. kind = "group" => options[10] = Option("KafkaGroupName", env.KCG_NAME)
    BY ClientOptionsIn DEF OwnLast
  <2>4. 1 \in 1 .. n /\ (kind # "producer" => 8 \in 1 .. n /\ 9 \in 1 .. n /\ 10 \in 1 .. n)
    BY <2>1
  <2>5. ASSUME NEW i \in 1 .. n, NEW f, NEW v, options[i] = Option(f, v), f # "Handlers"
        PROVE  config[f] = Stored(Defaults(kind)[f], f, v)
    BY <2>5, ClientApplied
  <2> HIDE DEF options, n, config
  <2>6. config["Logger"] = "logger"
    BY <2>1, <2>4, <2>5, StoredIs
  <2>7. kind # "producer" => config["ProcessMessageFunc"] = "store"
    BY <2>2, <2>4, <2>5, StoredIs
  <2>8. kind # "producer" => config["Topic"] = env.KC_TOPIC
    BY <2>2, <2>4, <2>5, StoredIs
  <2>9. kind = "group" => config["KafkaGroupName"] = env.KCG_NAME
    BY <2>3, <2>4, <2>5, StoredIs
  <2> QED BY <2>6, <2>7, <2>8, <2>9
<1>6. FirstError(Checks(kind, config)) = "ok" <=>
        /\ kind # "producer" => env.KC_TOPIC \in Topics
        /\ kind = "group" => env.KCG_NAME # Empty
  <2> HIDE DEF config
  <2> QED BY <1>4, <1>5
<1>7. /\ Fine(1) /\ (Fine(2) <=> "addr" \in env.KCP_BROKERS)
      /\ Fine(3) <=> env.DIAL_TIMEOUT >= 0
      /\ Fine(4) <=> env.READ_TIMEOUT >= 0
      /\ Fine(5) <=> env.WRITE_TIMEOUT >= 0
  <2>0. /\ options[1] = Option("Logger", "logger") /\ options[2] = Option("KafkaBrokers", env.KCP_BROKERS)
        /\ options[3] = Option("DialTimeout", env.DIAL_TIMEOUT)
        /\ options[4] = Option("ReadTimeout", env.READ_TIMEOUT)
        /\ options[5] = Option("WriteTimeout", env.WRITE_TIMEOUT)
    BY ClientOptionsIn
  <2> HIDE DEF Fine, options
  <2>1. /\ Fine(1) <=> ClientError("Logger", "logger") = "ok"
        /\ Fine(2) <=> ClientError("KafkaBrokers", env.KCP_BROKERS) = "ok"
        /\ Fine(3) <=> ClientError("DialTimeout", env.DIAL_TIMEOUT) = "ok"
        /\ Fine(4) <=> ClientError("ReadTimeout", env.READ_TIMEOUT) = "ok"
        /\ Fine(5) <=> ClientError("WriteTimeout", env.WRITE_TIMEOUT) = "ok"
    BY <1>2, <2>0
  <2>2. /\ ClientError("Logger", "logger") = "ok"
        /\ ClientError("KafkaBrokers", env.KCP_BROKERS) = "ok" <=> "addr" \in env.KCP_BROKERS
    BY ClientErrorIs, AddressSays, CheckSays, TextsGiven
  <2>3. \A f \in {"DialTimeout", "ReadTimeout", "WriteTimeout"} : \A v : ClientError(f, v) = "ok" <=> v >= 0
    BY ClientErrorIs DEF Valid
  <2> QED BY <2>1, <2>2, <2>3
<1>8. Fine(6) <=> env.BACKOFF > 0 /\ env.BACKOFF <= Minute
  <2> DEFINE v == env.BACKOFF
  <2>1. Fine(6) <=> FirstError(<< Required(v = 0), Valid(v \in 1 .. Minute) >>) = "ok"
    BY <1>2, ClientOptionsIn, ClientErrorIs
  <2>2. Fine(6) <=> v # 0 /\ v \in 1 .. Minute
    <3> DEFINE a == Required(v = 0)
               b == Valid(v \in 1 .. Minute)
    <3>1. (a = "ok" <=> v # 0) /\ (b = "ok" <=> v \in 1 .. Minute)
      BY DEF Required, Valid
    <3>2. a \in Results /\ b \in Results
      BY Simple
    <3>3. Fine(6) <=> FirstError(<< a, b >>) = "ok"
      BY <2>1
    <3> HIDE DEF Fine, v, a, b
    <3> QED BY <3>1, <3>2, <3>3, FirstOfTwo
  <2> HIDE DEF Fine
  <2> QED BY <2>2 DEF Minute
<1>9. Fine(7) <=> env.MAX_RETRIES >= 0 /\ env.MAX_RETRIES <= MaxUint8
  <2>1. Fine(7) <=> ClientError("MaxRetries", env.MAX_RETRIES) = "ok"
    BY <1>2, ClientOptionsIn
  <2>2. Fine(7) <=> env.MAX_RETRIES \in 0 .. MaxUint8
    BY <2>1, ClientErrorIs DEF Valid
  <2> HIDE DEF Fine
  <2> QED BY <2>2 DEF MaxUint8
<1>10. ASSUME kind # "producer"
       PROVE  /\ Fine(8) /\ (Fine(9) <=> env.KC_TOPIC \in Topics)
              /\ Fine(10) <=> IF kind = "group" THEN env.KCG_NAME # Empty ELSE env.KC_PARTITION \in 0 .. MaxInt32
  <2>0. /\ options[8] = Option("ProcessMessageFunc", "store") /\ options[9] = Option("Topic", env.KC_TOPIC)
        /\ options[10] = OwnLast(kind)
    BY <1>10, ClientOptionsIn
  <2> HIDE DEF Fine, options
  <2>1. /\ Fine(8) <=> ClientError("ProcessMessageFunc", "store") = "ok"
        /\ Fine(9) <=> ClientError("Topic", env.KC_TOPIC) = "ok"
        /\ kind = "group" => (Fine(10) <=> ClientError("KafkaGroupName", env.KCG_NAME) = "ok")
        /\ kind # "group" => (Fine(10) <=> ClientError("Partition", env.KC_PARTITION) = "ok")
    BY <1>2, <2>0 DEF OwnLast
  <2>2. /\ ClientError("ProcessMessageFunc", "store") = "ok"
        /\ ClientError("Topic", env.KC_TOPIC) = "ok" <=> env.KC_TOPIC \in Topics
        /\ ClientError("KafkaGroupName", env.KCG_NAME) = "ok" <=> env.KCG_NAME # Empty
        /\ ClientError("Partition", env.KC_PARTITION) = "ok" <=> env.KC_PARTITION \in 0 .. MaxInt32
    <3>1. Absent(env.KCG_NAME) <=> env.KCG_NAME = Empty
      BY DEF Absent
    <3> QED BY <3>1, ClientErrorIs, TextsGiven DEF Required, Valid
  <2> QED BY <2>1, <2>2
<1>11. (\A i \in 1 .. n : Fine(i)) <=>
         /\ Fine(1) /\ Fine(2) /\ Fine(3) /\ Fine(4) /\ Fine(5) /\ Fine(6) /\ Fine(7)
         /\ kind # "producer" => Fine(8) /\ Fine(9) /\ Fine(10)
  <2>1. n = IF kind = "producer" THEN 7 ELSE 10
    BY ClientOptionsIn
  <2> HIDE DEF Fine, n
  <2>2. CASE kind = "producer"
    <3>1. \A i : i \in 1 .. n <=> i = 1 \/ i = 2 \/ i = 3 \/ i = 4 \/ i = 5 \/ i = 6 \/ i = 7
      BY <2>1, <2>2
    <3> QED BY <2>2, <3>1
  <2>3. CASE kind # "producer"
    <3>1. \A i : i \in 1 .. n <=> \/ i = 1 \/ i = 2 \/ i = 3 \/ i = 4 \/ i = 5 \/ i = 6 \/ i = 7
                                  \/ i = 8 \/ i = 9 \/ i = 10
      BY <2>1, <2>3
    <3> QED BY <2>3, <3>1
  <2> QED BY <2>2, <2>3
<1> DEFINE good == ClientEnvGood
           own == OwnGood(kind)
<1>12. good <=> Fine(2) /\ Fine(3) /\ Fine(4) /\ Fine(5) /\ Fine(6) /\ Fine(7)
  <2> HIDE DEF Fine
  <2> QED BY <1>7, <1>8, <1>9 DEF ClientEnvGood
<1>13. own <=> (kind # "producer" => Fine(9) /\ Fine(10))
  <2> HIDE DEF Fine
  <2> QED BY <1>10 DEF OwnGood
<1>14. own => FirstError(Checks(kind, config)) = "ok"
  BY <1>6 DEF OwnGood, Clients
<1> HIDE DEF Fine, good, own, n, config, options
<1>15. New(kind, options).result = "ok" <=> good /\ own
  BY <1>3, <1>7, <1>10, <1>11, <1>12, <1>13, <1>14
<1> QED BY <1>15 DEF good, own, options

\* What the client is made with.
LEMMA ClientMade ==
  ASSUME NEW kind \in Clients, New(kind, ClientOptions(kind)).result = "ok",
         env.MAX_RETRIES \in 0 .. MaxUint8,
         NEW config, config = New(kind, ClientOptions(kind)).config
  PROVE  /\ config["MaxRetries"] = env.MAX_RETRIES
         /\ config["DialTimeout"] = env.DIAL_TIMEOUT
         /\ config["ReadTimeout"] = env.READ_TIMEOUT
         /\ config["WriteTimeout"] = env.WRITE_TIMEOUT
         /\ kind = "consumer" => config["Partition"] = env.KC_PARTITION
<1> DEFINE options == ClientOptions(kind)
           n == Len(options)
<1>1. kind \in Constructors /\ OptionsFor(kind, options)
  BY ClientOptionsFor DEF Constructors
<1>2. ASSUME NEW i \in 1 .. n, NEW f, NEW v, options[i] = Option(f, v), f \notin {"Handlers"} \cup Filled
      PROVE  config[f] = Stored(Defaults(kind)[f], f, v)
  <2>0. f # "Handlers" /\ f \notin Filled
    BY <1>2
  <2>1. Applied(kind, options)[f] = Stored(Defaults(kind)[f], f, v) /\ f \in DOMAIN Defaults(kind)
    BY <1>2, <2>0, ClientApplied
  <2>2. DOMAIN Applied(kind, options) = DOMAIN Defaults(kind)
    BY <1>1, AppliedFields
  <2>3. config = Completed(kind, Applied(kind, options))
    BY <1>1, NewIs
  <2>4. config[f] = Applied(kind, options)[f]
    <3> HIDE DEF options
    <3> QED BY <1>1, <2>0, <2>1, <2>2, <2>3, CompletedIs
  <2> QED BY <2>1, <2>4
<1>3. /\ n = IF kind = "producer" THEN 7 ELSE 10
      /\ options[3] = Option("DialTimeout", env.DIAL_TIMEOUT)
      /\ options[4] = Option("ReadTimeout", env.READ_TIMEOUT)
      /\ options[5] = Option("WriteTimeout", env.WRITE_TIMEOUT)
      /\ options[7] = Option("MaxRetries", env.MAX_RETRIES)
      /\ kind = "consumer" => options[10] = Option("Partition", env.KC_PARTITION)
  BY ClientOptionsIn DEF OwnLast
<1> HIDE DEF n, options
<1>4. /\ 3 \in 1 .. n /\ 4 \in 1 .. n /\ 5 \in 1 .. n /\ 7 \in 1 .. n
      /\ kind = "consumer" => 10 \in 1 .. n
  BY <1>3
<1>5. config["DialTimeout"] = env.DIAL_TIMEOUT
  BY <1>2, <1>3, <1>4, StoredIs DEF Filled
<1>6. config["ReadTimeout"] = env.READ_TIMEOUT
  BY <1>2, <1>3, <1>4, StoredIs DEF Filled
<1>7. config["WriteTimeout"] = env.WRITE_TIMEOUT
  BY <1>2, <1>3, <1>4, StoredIs DEF Filled
<1>8. kind = "consumer" => config["Partition"] = env.KC_PARTITION
  BY <1>2, <1>3, <1>4, StoredIs DEF Filled
<1>9. config["MaxRetries"] = env.MAX_RETRIES
  <2>1. config["MaxRetries"] = Stored(Defaults(kind)["MaxRetries"], "MaxRetries", env.MAX_RETRIES)
    BY <1>2, <1>3, <1>4 DEF Filled
  <2>2. config["MaxRetries"] = env.MAX_RETRIES % (MaxUint8 + 1)
    BY <2>1 DEF Stored
  <2> QED BY <2>2 DEF MaxUint8
<1> QED BY <1>5, <1>6, <1>7, <1>8, <1>9

\* What each thing the server makes asks of the environment.
LEMMA ServerNews ==
  ASSUME IsServer, Given
  PROVE  /\ \A i \in 1 .. Len(Plan) : IsNew(i) => i \in {2, 3, 6, 7, 8, 9}
         /\ NewOf(2).result = "ok" <=> env.LOG_LEVEL \in Levels
         /\ NewOf(3).result = "ok" <=> ClientEnvGood
         /\ NewOf(6).result = "ok"
         /\ NewOf(7).result = "ok" <=> env.GITHUB_HMAC_SECRET # Empty
         /\ NewOf(8).result = "ok" <=> env.GITLAB_HMAC_SECRET # Empty
         /\ NewOf(9).result = "ok" <=> ServerTimes /\ "addr" \in env.KCP_BROKERS
<1>0. ~IsCaller
  BY OneProgram
<1>1. \A i \in 1 .. Len(Plan) : IsNew(i) => i \in {2, 3, 6, 7, 8, 9}
  <2>1. ~IsNew(1) /\ ~IsNew(4) /\ ~IsNew(5) /\ ~IsNew(10) /\ Len(Plan) = 10
    BY ServerDoes DEF IsServer, IsNew
  <2>2. \A i \in 1 .. 10 : i \in {1, 2, 3, 4, 5, 6, 7, 8, 9, 10}
    OBVIOUS
  <2> QED BY <2>1, <2>2
<1>2. NewOf(2).result = "ok" <=> env.LOG_LEVEL \in Levels
  <2>1. NewOf(2) = New("logger", MakeLogger(env).options)
    BY ServerPlan, LoggerOptions DEF IsServer, NewOf
  <2> QED BY <2>1, LogLevelSays
<1>3. NewOf(3).result = "ok" <=> ClientEnvGood
  <2>1. NewOf(3) = New("producer", ClientOptions("producer")) /\ "producer" \in Clients
    BY ServerPlan DEF IsServer, NewOf, ClientOptions, Clients, Make
  <2>2. OwnGood("producer")
    BY DEF OwnGood
  <2>3. env.KCG_NAME # "nil" /\ {env.BACKOFF, env.MAX_RETRIES, env.KC_PARTITION} \subseteq Int
    BY <1>0 DEF Given
  <2>4. New("producer", ClientOptions("producer")).result = "ok" <=> ClientEnvGood /\ OwnGood("producer")
    BY <2>1, <2>3, ClientSays
  <2> QED BY <2>1, <2>2, <2>4
<1>4. NewOf(6).result = "ok"
  <2>1. NewOf(6) = New("health", HealthOptions)
    BY ServerPlan DEF IsServer, NewOf, HealthOptions, Make
  <2> QED BY <2>1, HealthSays
<1>5. /\ NewOf(7).result = "ok" <=> env.GITHUB_HMAC_SECRET # Empty
      /\ NewOf(8).result = "ok" <=> env.GITLAB_HMAC_SECRET # Empty
  <2>1. /\ Plan[7] = MakeHandler("github", env.GITHUB_HMAC_SECRET)
        /\ Plan[8] = MakeHandler("gitlab", env.GITLAB_HMAC_SECRET)
    BY ServerPlan DEF IsServer
  <2>2. "github" \in Providers /\ "gitlab" \in Providers
    BY DEF Providers
  <2>3. env.GITHUB_HMAC_SECRET # "nil" /\ env.GITLAB_HMAC_SECRET # "nil"
    BY <1>0 DEF Given
  <2> QED BY <2>1, <2>2, <2>3, HandlerSays DEF NewOf
<1>6. NewOf(9).result = "ok" <=> ServerTimes /\ "addr" \in env.KCP_BROKERS
  <2>1. NewOf(9) = New("server", ServerOptions)
    BY ServerPlan, ServerOptionsAre DEF IsServer, NewOf, Make
  <2>2. env.LISTEN_ADDR \notin {"nil", Empty, "junk"}
    BY <1>0 DEF Given
  <2>3. New("server", ServerOptions).result = "ok" <=> ServerTimes /\ "addr" \in env.KCP_BROKERS
    BY <2>2, ServerSays
  <2> QED BY <2>1, <2>3
<1> QED BY <1>1, <1>2, <1>3, <1>4, <1>5, <1>6

LEMMA ConsumerNews ==
  ASSUME IsConsumer, Given
  PROVE  /\ \A i \in 1 .. Len(Plan) : IsNew(i) => i \in {2, 3, 5}
         /\ NewOf(2).result = "ok" <=> env.LOG_LEVEL \in Levels
         /\ NewOf(3).result = "ok" <=> env.DATABASE_URL \notin {Empty, "junk"}
         /\ NewOf(5).result = "ok" <=> ClientEnvGood /\ OwnGood(Kind)
<1>0. ~IsCaller /\ Provider \in Providers /\ Kind \in Clients /\ Kind # "producer"
  BY OneProgram, ConsumersAre DEF IsConsumer, Clients
<1>1. \A i \in 1 .. Len(Plan) : IsNew(i) => i \in {2, 3, 5}
  <2>1. ~IsNew(1) /\ ~IsNew(4) /\ ~IsNew(6) /\ ~IsNew(7) /\ Len(Plan) = 7
    BY ConsumerDoes DEF IsConsumer, IsNew
  <2>2. \A i \in 1 .. 7 : i \in {1, 2, 3, 4, 5, 6, 7}
    OBVIOUS
  <2> QED BY <2>1, <2>2
<1>2. NewOf(2).result = "ok" <=> env.LOG_LEVEL \in Levels
  <2>1. NewOf(2) = New("logger", MakeLogger(env).options)
    BY ConsumerPlanIs, LoggerOptions DEF IsConsumer, NewOf
  <2> QED BY <2>1, LogLevelSays
<1>3. NewOf(3).result = "ok" <=> env.DATABASE_URL \notin {Empty, "junk"}
  <2>1. Plan[3] = MakeStorage(Provider, env)
    BY ConsumerPlanIs DEF IsConsumer
  <2>2. env.DATABASE_URL # "nil"
    BY <1>0 DEF Given
  <2> QED BY <1>0, <2>1, <2>2, StorageSays DEF NewOf
<1>4. NewOf(5).result = "ok" <=> ClientEnvGood /\ OwnGood(Kind)
  <2>1. NewOf(5) = New(Kind, ClientOptions(Kind))
    <3>1. Plan[5] = Make(Kind, ClientOptions(Kind))
      BY <1>0, ConsumerPlanIs DEF IsConsumer, ClientOptions
    <3> QED BY <3>1 DEF NewOf, Make
  <2>2. env.KCG_NAME # "nil" /\ {env.BACKOFF, env.MAX_RETRIES, env.KC_PARTITION} \subseteq Int
    BY <1>0 DEF Given
  <2>3. New(Kind, ClientOptions(Kind)).result = "ok" <=> ClientEnvGood /\ OwnGood(Kind)
    BY <1>0, <2>2, ClientSays
  <2> QED BY <2>1, <2>3
<1> QED BY <1>1, <1>2, <1>3, <1>4

LEMMA OwnGoodIs ==
  ASSUME IsConsumer
  PROVE  ConsumerEnvGood <=> env.DATABASE_URL \notin {Empty, "junk"} /\ OwnGood(Kind)
<1>1. /\ Kind \in {"consumer", "group"}
      /\ Kind = "group" <=> program \in {"githubconsumergroup", "gitlabconsumergroup"}
      /\ Kind = "consumer" <=> program \in {"githubconsumer", "gitlabconsumer"}
  BY ConsumersAre DEF IsConsumer
<1> QED BY <1>1 DEF ConsumerEnvGood, OwnGood

\* Nothing a program makes fails in a good environment, and in no other is all of it made.
LEMMA EnvGoodSays ==
  ASSUME Placed, Given, ~IsCaller
  PROVE  EnvGood <=> env.parses /\ \A i \in 1 .. Len(Plan) : IsNew(i) => NewOf(i).result = "ok"
<1> DEFINE ok(i) == NewOf(i).result = "ok"
           parses == env.parses
<1>1. CASE IsServer
  <2>1. (\A i \in 1 .. Len(Plan) : IsNew(i) => ok(i)) <=> ok(2) /\ ok(3) /\ ok(6) /\ ok(7) /\ ok(8) /\ ok(9)
    <3>1. Len(Plan) = 10 /\ IsNew(2) /\ IsNew(3) /\ IsNew(6) /\ IsNew(7) /\ IsNew(8) /\ IsNew(9)
      BY <1>1, ServerDoes DEF IsServer, IsNew
    <3>2. \A i \in 1 .. Len(Plan) : IsNew(i) => i \in {2, 3, 6, 7, 8, 9}
      BY <1>1, ServerNews
    <3> HIDE DEF ok
    <3> QED BY <3>1, <3>2
  <2>2. ok(2) /\ ok(3) /\ ok(6) /\ ok(7) /\ ok(8) /\ ok(9)
          <=> env.LOG_LEVEL \in Levels /\ ClientEnvGood /\ ServerEnvGood
    <3>1. /\ ok(2) <=> env.LOG_LEVEL \in Levels
          /\ ok(3) <=> ClientEnvGood
          /\ ok(6)
          /\ ok(7) <=> env.GITHUB_HMAC_SECRET # Empty
          /\ ok(8) <=> env.GITLAB_HMAC_SECRET # Empty
          /\ ok(9) <=> ServerTimes /\ "addr" \in env.KCP_BROKERS
      BY <1>1, ServerNews
    <3>2. ServerEnvGood <=> env.GITHUB_HMAC_SECRET # Empty /\ env.GITLAB_HMAC_SECRET # Empty /\ ServerTimes
      BY Zenon DEF ServerEnvGood, ServerTimes
    <3>3. ClientEnvGood => "addr" \in env.KCP_BROKERS
      BY DEF ClientEnvGood
    <3> HIDE DEF ok
    <3> QED BY <3>1, <3>2, <3>3
  <2>3. EnvGood <=> parses /\ env.LOG_LEVEL \in Levels /\ ClientEnvGood /\ ServerEnvGood
    BY <1>1, Zenon DEF EnvGood, IsServer
  <2> HIDE DEF ok, parses
  <2> QED BY <2>1, <2>2, <2>3, Zenon DEF ok, parses
<1>2. CASE IsConsumer
  <2>1. (\A i \in 1 .. Len(Plan) : IsNew(i) => ok(i)) <=> ok(2) /\ ok(3) /\ ok(5)
    <3>1. Len(Plan) = 7 /\ IsNew(2) /\ IsNew(3) /\ IsNew(5)
      BY <1>2, ConsumerDoes DEF IsConsumer, IsNew
    <3>2. \A i \in 1 .. Len(Plan) : IsNew(i) => i \in {2, 3, 5}
      BY <1>2, ConsumerNews
    <3> HIDE DEF ok
    <3> QED BY <3>1, <3>2
  <2>2. ok(2) /\ ok(3) /\ ok(5) <=> env.LOG_LEVEL \in Levels /\ ClientEnvGood /\ ConsumerEnvGood
    <3>1. /\ ok(2) <=> env.LOG_LEVEL \in Levels
          /\ ok(3) <=> env.DATABASE_URL \notin {Empty, "junk"}
          /\ ok(5) <=> ClientEnvGood /\ OwnGood(Kind)
      BY <1>2, ConsumerNews
    <3> HIDE DEF ok
    <3> QED BY <1>2, <3>1, OwnGoodIs
  <2>3. EnvGood <=> parses /\ env.LOG_LEVEL \in Levels /\ ClientEnvGood /\ ConsumerEnvGood
    <3>1. program # "webhookserver"
      BY <1>2, OneProgram DEF IsServer
    <3> QED BY <3>1, Zenon DEF EnvGood
  <2> HIDE DEF ok, parses
  <2> QED BY <2>1, <2>2, <2>3, Zenon DEF ok, parses
<1> QED BY <1>1, <1>2, Zenon DEF Placed

-----------------------------------------------------------------------------
(***************************************************************************)
(* What a program that serves has reached.                                 *)
(***************************************************************************)

\* A time is a number if it comes.
Timed == ~IsCaller => {database, brokers} \subseteq Nat \cup {Never}

\* What a client that is there, and a pool, say of the world.
Reached ==
  /\ client = "client" => Up(brokers) /\ ~SomeTimeoutZero /\ env.MAX_RETRIES > 0
  /\ IsConsumer /\ done >= 4 => database # Never /\ database < PingTimeout
  /\ status = "serving" => client = "client" /\ done = Len(Plan)

\* Nothing fails when the services are there: no time passes.
Calm ==
  ~IsCaller /\ ~SomeTimeoutZero /\ database = 0 /\ brokers = 0 => err = "nil" /\ clock = 0

\* What a connection that had no error yet says, and one that is over without a client.
Fresh == Connecting /\ err = "nil" => attempt = 0

Clientless == IsConsumer /\ done >= 6 /\ client = "nil" => env.MAX_RETRIES = 0

\* What is used of what the client was made with.
LEMMA ConnectingClient ==
  ASSUME NewsInv, Connecting, status = "starting"
  PROVE  /\ ~IsCaller /\ env.MAX_RETRIES \in 0 .. MaxUint8
         /\ made.config.MaxRetries = env.MAX_RETRIES
         /\ made.config["DialTimeout"] = env.DIAL_TIMEOUT
         /\ made.config["ReadTimeout"] = env.READ_TIMEOUT
         /\ made.config["WriteTimeout"] = env.WRITE_TIMEOUT
<1>1. PICK kind \in Clients, i \in 1 .. done :
        /\ done = i /\ IsNew(i) /\ NewOf(i) = New(kind, ClientOptions(kind)) /\ ~IsCaller
        /\ NewOf(i).result = "ok" => ClientEnvGood
  <2>1. CASE IsServer /\ done = 3
    <3>1. NewOf(3) = New("producer", ClientOptions("producer")) /\ "producer" \in Clients /\ IsNew(3)
      BY <2>1, ServerPlan, ServerDoes DEF IsServer, NewOf, ClientOptions, Clients, Make, IsNew
    <3>2. NewOf(3).result = "ok" => ClientEnvGood
      BY <2>1, ServerNews DEF NewsInv
    <3> QED BY <2>1, <3>1, <3>2, OneProgram
  <2>2. CASE IsConsumer /\ done = 5
    <3>1. Kind \in Clients /\ Kind # "producer"
      BY <2>2, ConsumersAre DEF IsConsumer, Clients
    <3>2. Plan[5] = Make(Kind, ClientOptions(Kind))
      BY <2>2, <3>1, ConsumerPlanIs DEF IsConsumer, ClientOptions
    <3>3. NewOf(5) = New(Kind, ClientOptions(Kind)) /\ IsNew(5)
      BY <3>2 DEF NewOf, Make, IsNew
    <3>4. NewOf(5).result = "ok" => ClientEnvGood
      BY <2>2, ConsumerNews DEF NewsInv
    <3> QED BY <2>2, <3>1, <3>3, <3>4, OneProgram
  <2> QED BY <2>1, <2>2 DEF Connecting
<1>2. made.result = "ok" /\ NewOf(i).result = "ok"
  BY <1>1 DEF NewsInv, MadeWell, AllMade
<1>3. made = NewOf(i)
  <2>1. LastNew(done, i)
    BY <1>1 DEF LastNew
  <2> QED BY <1>2, <2>1 DEF NewsInv, MadeLast
<1>4. env.MAX_RETRIES \in Int /\ env.MAX_RETRIES >= 0 /\ env.MAX_RETRIES <= MaxUint8
  BY <1>1, <1>2 DEF ClientEnvGood, NewsInv, Given
<1>5. env.MAX_RETRIES \in 0 .. MaxUint8
  BY <1>4 DEF MaxUint8
<1> DEFINE config == made.config
<1>6. config = New(kind, ClientOptions(kind)).config /\ New(kind, ClientOptions(kind)).result = "ok"
  BY <1>1, <1>2, <1>3
<1> HIDE DEF config
<1>7. /\ config["MaxRetries"] = env.MAX_RETRIES
      /\ config["DialTimeout"] = env.DIAL_TIMEOUT
      /\ config["ReadTimeout"] = env.READ_TIMEOUT
      /\ config["WriteTimeout"] = env.WRITE_TIMEOUT
  BY <1>5, <1>6, ClientMade
<1> QED BY <1>1, <1>5, <1>7 DEF config

StartInv == Timed /\ Reached /\ Calm /\ Fresh /\ Clientless

LEMMA WorldStays ==
  ASSUME UNCHANGED world
  PROVE  /\ Plan' = Plan /\ env' = env /\ brokers' = brokers /\ database' = database /\ program' = program
         /\ IsServer' <=> IsServer
         /\ IsConsumer' <=> IsConsumer
         /\ IsCaller' <=> IsCaller
         /\ SomeTimeoutZero' <=> SomeTimeoutZero
<1>1. env' = env /\ brokers' = brokers /\ database' = database /\ program' = program
  BY DEF world
<1> QED BY <1>1, PlanStays DEF IsServer, IsConsumer, IsCaller, SomeTimeoutZero

LEMMA UpStays ==
  ASSUME Timed, ~IsCaller, UNCHANGED world, clock \in Nat, clock' \in Nat, clock' >= clock, Up(brokers)
  PROVE  Up(brokers)'
<1>1. brokers' = brokers /\ brokers # Never /\ brokers <= clock /\ brokers \in Nat
  BY WorldStays DEF Timed, Up
<1> QED BY <1>1 DEF Up

\* A step that changes neither client nor clock nor error.
LEMMA StartStays ==
  ASSUME StartInv, Placed, UNCHANGED << world, clock, client, err >>, Fresh',
         IsConsumer /\ done' >= 4 => done >= 4,
         IsConsumer /\ done' >= 6 => done >= 6,
         status' = "serving" => client = "client" /\ done' = Len(Plan)
  PROVE  StartInv'
<1> USE DEF StartInv
<1>1. Timed' /\ Calm'
  BY WorldStays DEF Timed, Calm
<1>2. Reached'
  BY WorldStays DEF Reached, Up
<1>3. Clientless'
  BY WorldStays DEF Clientless
<1> QED BY <1>1, <1>2, <1>3

\* A step of the plan that makes no client.
LEMMA StartQuiet ==
  ASSUME StartInv, Placed, UNCHANGED << world, clock, client, err, attempt >>,
         \/ done' = done
         \/ done' = done + 1 /\ \E what \in {"parse", "queues", "serve"} : At(what),
         status' = "serving" => client = "client" /\ done' = Len(Plan)
  PROVE  StartInv'
<1> USE DEF StartInv
<1>1. done \in Int
  BY DEF Placed
<1>2. /\ IsConsumer /\ done' >= 4 => done >= 4
      /\ IsConsumer /\ done' >= 6 => done >= 6
      /\ Connecting' => Connecting
  <2>1. CASE done' = done
    BY <2>1, WorldStays DEF Connecting
  <2>2. CASE done' = done + 1 /\ \E what \in {"parse", "queues", "serve"} : At(what)
    <3>1. /\ IsServer => done \in {0, 4, 9}
          /\ IsConsumer => done \in {0, 6}
      BY <2>2, Where
    <3> QED BY <1>1, <2>2, <3>1, WorldStays DEF Connecting
  <2> QED BY <2>1, <2>2
<1>3. Fresh'
  BY <1>2 DEF Fresh
<1> QED BY <1>2, <1>3, StartStays

LEMMA StartConstruct ==
  ASSUME StartInv, Placed, Construct
  PROVE  StartInv'
<1> USE DEF StartInv
<1>1. /\ UNCHANGED << world, clock, client, err >> /\ At("new") /\ status = "starting"
      /\ Step = Plan[done + 1]
  BY DEF Construct, At, Step
<1>2. done \in Int
  BY DEF Placed
<1>3. \/ done' = done + 1 /\ status' = status /\ made'.result = "ok"
      \/ done' = done /\ status' \in {"failed", "panicked"} /\ made'.result # "ok"
  BY DEF Construct, GoOn, Leave
<1>4. /\ IsServer => done \in {1, 2, 5, 6, 7, 8}
      /\ IsConsumer => done \in {1, 2, 4}
  BY <1>1, Where
<1>5. Fresh'
  <2>1. CASE done' = done
    <3>1. ~Connecting'
      BY <1>1, <1>4, <2>1, WorldStays DEF Connecting
    <3> QED BY <3>1 DEF Fresh
  <2>2. CASE done' = done + 1 /\ made'.result = "ok"
    <3>1. Connecting' => Step.constructor \in Clients
      BY <1>1, <1>2, <2>2, WorldStays, MadeToConnect DEF Connecting
    <3>2. Connecting' => attempt' = 0
      BY <2>2, <3>1 DEF Construct
    <3> QED BY <3>2 DEF Fresh
  <2> QED BY <1>3, <2>1, <2>2
<1>6. /\ IsConsumer /\ done' >= 4 => done >= 4
      /\ IsConsumer /\ done' >= 6 => done >= 6
      /\ status' # "serving"
  BY <1>1, <1>2, <1>3, <1>4
<1> QED BY <1>1, <1>5, <1>6, StartStays

LEMMA StartPing ==
  ASSUME StartInv, Placed, clock \in Nat, PingReturns
  PROVE  StartInv'
<1> USE DEF StartInv
<1>1. /\ UNCHANGED << world, clock, client, status >> /\ At("ping") /\ err' = "nil" /\ done' = done + 1
      /\ status = "starting" /\ Up(database) /\ clock < PingTimeout
  BY DEF PingReturns, GoOn, At, PingReaches
<1>2. IsConsumer /\ ~IsServer /\ ~IsCaller /\ done = 3
  BY <1>1, Where, OneProgram DEF Placed
<1>3. ~Connecting' /\ done' = 4
  BY <1>1, <1>2, WorldStays DEF Connecting
<1>4. Timed' /\ Calm' /\ Fresh'
  BY <1>1, <1>3, WorldStays DEF Timed, Calm, Fresh
<1>5. database # Never /\ database < PingTimeout
  BY <1>1, <1>2, TimeAssumption DEF Timed, Up
<1>6. Reached'
  BY <1>1, <1>2, <1>5, WorldStays DEF Reached, Up
<1>7. Clientless'
  BY <1>3 DEF Clientless
<1> QED BY <1>4, <1>6, <1>7

\* A failed attempt.
LEMMA StartSleeps ==
  ASSUME StartInv, Placed, LoopInv, NEW t \in Nat, t >= clock, SleepFrom(t), status = "starting",
         ~IsCaller, SomeTimeoutZero \/ database # 0 \/ brokers # 0
  PROVE  StartInv'
<1> USE DEF StartInv
<1>1. /\ UNCHANGED << world, done, status, client >> /\ err' = "error" /\ clock' = t + backoff
  BY DEF SleepFrom
<1>2. clock \in Nat /\ clock' \in Nat /\ clock' >= clock
  BY <1>1, BackoffPositive DEF LoopInv, LoopTypes
<1>3. Timed' /\ Calm' /\ Fresh' /\ Clientless'
  BY <1>1, WorldStays DEF Timed, Calm, Fresh, Clientless
<1>4. client = "client" => Up(brokers)'
  BY <1>1, <1>2, UpStays DEF Reached
<1>5. Reached'
  BY <1>1, <1>4, WorldStays DEF Reached
<1> QED BY <1>3, <1>5

LEMMA StartConnect ==
  ASSUME StartInv, NewsInv, LoopInv, Connect
  PROVE  StartInv'
<1> USE DEF StartInv
<1>0. Placed
  BY DEF NewsInv
<1>1. /\ UNCHANGED << world, clock, status >> /\ At("connect") /\ err' = "nil" /\ client' = "client"
      /\ done' = done + 1 /\ attempt < made.config.MaxRetries /\ Up(brokers) /\ ~Refused
      /\ status = "starting"
  BY DEF Connect, GoOn, At, ConnectReaches
<1>2. Connecting
  BY <1>0, <1>1, Where DEF Placed, Connecting
<1>3. /\ ~IsCaller /\ env.MAX_RETRIES \in 0 .. MaxUint8
      /\ made.config.MaxRetries = env.MAX_RETRIES
      /\ made.config["DialTimeout"] = env.DIAL_TIMEOUT
      /\ made.config["ReadTimeout"] = env.READ_TIMEOUT
      /\ made.config["WriteTimeout"] = env.WRITE_TIMEOUT
  BY <1>1, <1>2, ConnectingClient
<1>4. ~SomeTimeoutZero
  BY <1>1, <1>3 DEF SomeTimeoutZero, Refused
<1>5. env.MAX_RETRIES > 0
  BY <1>1, <1>3 DEF LoopInv, LoopTypes, MaxUint8
<1>6. ~Connecting' /\ (IsConsumer /\ done' >= 4 => done >= 4)
  <2>1. /\ IsServer => done = 3 /\ ~IsConsumer
        /\ IsConsumer => done = 5 /\ ~IsServer
    BY <1>0, <1>1, Where, OneProgram
  <2> QED BY <1>1, <2>1, WorldStays DEF Connecting
<1>7. Timed' /\ Calm' /\ Fresh' /\ Clientless'
  BY <1>1, <1>6, WorldStays DEF Timed, Calm, Fresh, Clientless
<1>8. Reached'
  BY <1>1, <1>4, <1>5, <1>6, WorldStays DEF Reached, Up
<1> QED BY <1>7, <1>8

\* A loop without an error has made no attempt, because there was none to make.
LEMMA NoAttempts ==
  ASSUME StartInv, NewsInv, LoopInv, ConnectLoopEnds, err = "nil"
  PROVE  ~IsCaller /\ env.MAX_RETRIES = 0
<1>1. At("connect") /\ attempt = made.config.MaxRetries /\ status = "starting"
  BY DEF ConnectLoopEnds, At
<1>2. Connecting
  BY <1>1, Where DEF NewsInv, Placed, Connecting
<1>3. made.config.MaxRetries = env.MAX_RETRIES /\ ~IsCaller
  BY <1>1, <1>2, ConnectingClient
<1> QED BY <1>1, <1>2, <1>3 DEF StartInv, Fresh

LEMMA StartLoopEnds ==
  ASSUME StartInv, NewsInv, LoopInv, ConnectLoopEnds
  PROVE  StartInv'
<1> USE DEF StartInv
<1>0. Placed
  BY DEF NewsInv
<1>1. UNCHANGED << world, clock, client, err, attempt >> /\ At("connect") /\ status = "starting"
  BY DEF ConnectLoopEnds, loop, At
<1>2. CASE done' = done /\ status' # "serving"
  BY <1>0, <1>1, <1>2, StartQuiet
<1>3. CASE done' = done + 1 /\ err = "nil" /\ status' = "starting" /\ program # "webhookserver"
  <2>1. env.MAX_RETRIES = 0
    BY <1>3, NoAttempts
  <2>2. IsConsumer /\ ~IsServer /\ done = 5
    BY <1>0, <1>1, <1>3, Where, OneProgram DEF Placed, IsServer
  <2>3. ~Connecting' /\ done' = 6
    BY <1>1, <1>3, <2>2, WorldStays DEF Connecting
  <2>4. Timed' /\ Calm' /\ Fresh' /\ Clientless'
    BY <1>1, <2>1, <2>3, WorldStays DEF Timed, Calm, Fresh, Clientless
  <2>5. Reached'
    BY <1>1, <1>3, <2>2, WorldStays DEF Reached, Up
  <2> QED BY <2>4, <2>5
<1> QED BY <1>1, <1>2, <1>3 DEF ConnectLoopEnds, GoOn, Leave

\* A failed attempt has a reason.
LEMMA PingFailsFor ==
  ASSUME LaunchInv, StartInv, PingFails
  PROVE  ~IsCaller /\ (SomeTimeoutZero \/ database # 0 \/ brokers # 0)
<1>1. At("ping") /\ ~PingReaches
  BY DEF PingFails
<1>2. ~IsCaller
  BY <1>1, Where DEF LaunchInv, NewsInv
<1>3. clock # 0 \/ database # 0
  BY <1>1, TimeAssumption DEF PingReaches, Up
<1> QED BY <1>2, <1>3 DEF StartInv, Calm

LEMMA ConnectFailsFor ==
  ASSUME LaunchInv, StartInv, ConnectFails
  PROVE  ~IsCaller /\ (SomeTimeoutZero \/ database # 0 \/ brokers # 0)
<1>1. At("connect") /\ ~ConnectReaches /\ status = "starting"
  BY DEF ConnectFails, At
<1>2. Connecting
  BY <1>1, Where DEF LaunchInv, NewsInv, Placed, Connecting
<1>3. /\ ~IsCaller
      /\ made.config["DialTimeout"] = env.DIAL_TIMEOUT
      /\ made.config["ReadTimeout"] = env.READ_TIMEOUT
      /\ made.config["WriteTimeout"] = env.WRITE_TIMEOUT
  BY <1>1, <1>2, ConnectingClient DEF LaunchInv
<1>4. Refused => SomeTimeoutZero
  BY <1>3 DEF Refused, SomeTimeoutZero
<1>5. clock # 0 \/ brokers # 0 \/ Refused
  BY <1>1, TimeAssumption DEF ConnectReaches, Up
<1> QED BY <1>3, <1>4, <1>5 DEF StartInv, Calm

LEMMA StartInit == Init => StartInv
<1> SUFFICES ASSUME Init PROVE StartInv
  OBVIOUS
<1>1. done = 0 /\ status = "starting" /\ clock = 0 /\ attempt = 0 /\ err = "nil" /\ client = "nil"
  BY DEF Init
<1>2. Timed
  BY TimeAssumption DEF Init, Timed, IsCaller
<1> QED BY <1>1, <1>2 DEF StartInv, Reached, Calm, Fresh, Clientless

LEMMA StartNext ==
  ASSUME LaunchInv, StartInv, [Next]_vars
  PROVE  StartInv'
<1>0. Placed /\ NewsInv /\ DeferInv /\ LoopInv /\ clock \in Nat
  BY DEF LaunchInv, NewsInv, LoopInv, LoopTypes
<1>1. CASE ParseEnvironment \/ MakeQueues
  <2>1. /\ UNCHANGED << world, clock, client, err, attempt >>
        /\ \E what \in {"parse", "queues", "serve"} : At(what)
        /\ done' = done \/ done' = done + 1
        /\ status' # "serving"
    BY <1>1 DEF ParseEnvironment, MakeQueues, loop, GoOn, Leave, At
  <2> QED BY <1>0, <2>1, StartQuiet
<1>2. CASE Construct
  BY <1>0, <1>2, StartConstruct
<1>3. CASE PingReturns
  BY <1>0, <1>3, StartPing
<1>4. CASE PingFails
  <2>1. PICK t \in clock .. (IF clock < PingTimeout THEN PingTimeout ELSE clock) : SleepFrom(t)
    BY <1>4 DEF PingFails
  <2>2. t \in Nat /\ t >= clock
    BY <1>0, <2>1, TimeAssumption
  <2>3. status = "starting"
    BY <1>4 DEF PingFails, At
  <2> QED BY <1>0, <1>4, <2>1, <2>2, <2>3, PingFailsFor, StartSleeps
<1>5. CASE ConnectFails
  <2>1. PICK d \in AttemptTimes : SleepFrom(clock + d)
    BY <1>5 DEF ConnectFails
  <2>2. clock + d \in Nat /\ clock + d >= clock
    BY <1>0, <2>1, TimeAssumption
  <2>3. status = "starting"
    BY <1>5 DEF ConnectFails, At
  <2> QED BY <1>0, <1>5, <2>1, <2>2, <2>3, ConnectFailsFor, StartSleeps
<1>6. CASE Connect
  BY <1>0, <1>6, StartConnect
<1>7. CASE ConnectLoopEnds
  BY <1>0, <1>7, StartLoopEnds
<1>8. CASE Serve
  <2>1. /\ UNCHANGED << world, clock, client, err, attempt >> /\ At("serve")
        /\ \/ client = "client" /\ status' = "serving" /\ done' = done + 1
           \/ done' = done /\ status' # "serving"
    BY <1>8 DEF Serve, loop, Leave, Die
  <2>2. done + 1 = Len(Plan)
    <3>1. CASE IsServer
      BY <1>0, <2>1, <3>1, Where, ServerDoes DEF IsServer
    <3>2. CASE IsConsumer
      BY <1>0, <2>1, <3>2, Where, ConsumerDoes DEF IsConsumer
    <3>3. IsServer \/ IsConsumer
      BY <1>0, <2>1, Where DEF Placed
    <3> QED BY <3>1, <3>2, <3>3
  <2> QED BY <1>0, <2>1, <2>2, StartQuiet
<1>9. CASE PingGivesUp \/ NoSuchPartition \/ Return \/ GroupReturn
  <2>1. /\ UNCHANGED << world, clock, client, err, attempt, done >> /\ status' # "serving"
    BY <1>9 DEF PingGivesUp, NoSuchPartition, Return, GroupReturn, loop, Leave
  <2> QED BY <1>0, <2>1, StartQuiet
<1>10. CASE UNCHANGED vars
  <2>1. UNCHANGED << world, clock, client, err, attempt, done, status >>
    BY <1>10 DEF vars, loop
  <2>2. status' = "serving" => client = "client" /\ done' = Len(Plan)
    BY <2>1 DEF StartInv, Reached
  <2> QED BY <1>0, <2>1, <2>2, StartQuiet
<1> QED BY <1>1, <1>2, <1>3, <1>4, <1>5, <1>6, <1>7, <1>8, <1>9, <1>10
  DEF Next, StartStep, PingStep, ConnectStep

LEMMA StartAlways == Spec => [](LaunchInv /\ StartInv)
<1>1. Init => StartInv
  BY StartInit
<1>2. LaunchInv /\ StartInv /\ [Next]_vars => StartInv'
  BY StartNext
<1> QED BY <1>1, <1>2, LaunchAlways, PTL DEF Spec

\* The routes of the server that has just been made are its own.
LEMMA OwnRoutes ==
  ASSUME NewsInv, IsServer, done = Len(Plan), made.result = "ok"
  PROVE  OwnHandlers
<1>1. Len(Plan) = 10 /\ IsNew(9) /\ ~IsNew(10)
  BY ServerDoes DEF IsServer, IsNew
<1>2. LastNew(done, 9)
  BY <1>1 DEF LastNew
<1>3. made = NewOf(9)
  BY <1>2 DEF NewsInv, MadeLast
<1>4. NewOf(9) = New("server", ServerOptions)
  BY ServerPlan, ServerOptionsAre DEF IsServer, NewOf, Make
<1> DEFINE options == ServerOptions
           config == made.config
<1>5. OptionsFor("server", options) /\ New("server", options).result = "ok" /\ config = New("server", options).config
  BY <1>3, <1>4, ServerOptionsFor
<1>6. /\ LastRouteOf(options, Len(options), "/healthz", 8)
      /\ LastRouteOf(options, Len(options), "/v1/webhook/github", 9)
      /\ LastRouteOf(options, Len(options), "/v1/webhook/gitlab", 10)
  <2>1. /\ Len(options) = 10 /\ \A j \in 1 .. 10 : options[j].field = "Handlers" => j \in {8, 9, 10}
        /\ options[8].field = "Handlers" /\ options[8].value.path = "/healthz"
        /\ options[9].field = "Handlers" /\ options[9].value.path = "/v1/webhook/github"
        /\ options[10].field = "Handlers" /\ options[10].value.path = "/v1/webhook/gitlab"
    BY ServerOptionsAre, HandleRouteIs, OptionIs
  <2> HIDE DEF options
  <2> QED BY <2>1 DEF LastRouteOf
<1>7. /\ options[8].value.method = "GET" /\ options[8].value.handler = "health"
      /\ options[9].value.method = "POST" /\ options[9].value.handler = "github"
      /\ options[10].value.method = "POST" /\ options[10].value.handler = "gitlab"
  BY ServerOptionsAre, HandleRouteIs
<1> HIDE DEF options, config
<1>8. \A path, method : RoutesBy(options, config, method, path)
  BY <1>5, ServerRoutes
<1>9. /\ Route(config, "GET", "/healthz") = "health"
      /\ Route(config, "POST", "/v1/webhook/github") = "github"
      /\ Route(config, "POST", "/v1/webhook/gitlab") = "gitlab"
  BY <1>6, <1>7, <1>8 DEF RoutesBy
<1> QED BY <1>9 DEF OwnHandlers, config

LEMMA ReachedImpliesReady ==
  ASSUME LaunchInv, StartInv
  PROVE  ServesWhenReady
<1> SUFFICES ASSUME status = "serving"
             PROVE  /\ EnvGood
                    /\ IF program = "webhookserver" THEN OwnHandlers ELSE database # Never /\ database < PingTimeout
                    /\ client = "client" /\ Up(brokers) /\ ~SomeTimeoutZero /\ env.MAX_RETRIES > 0
  BY DEF ServesWhenReady
<1>1. NewsInv /\ Placed /\ Given /\ HasClient /\ Reached
  BY DEF LaunchInv, NewsInv, DeferInv, StartInv
<1>2. client = "client" /\ Up(brokers) /\ ~SomeTimeoutZero /\ env.MAX_RETRIES > 0 /\ done = Len(Plan)
  BY <1>1 DEF Reached
<1>3. ~IsCaller
  BY <1>1, <1>2 DEF HasClient
<1>4. EnvGood
  <2>1. \A i \in 1 .. Len(Plan) : IsNew(i) => NewOf(i).result = "ok"
    BY <1>2 DEF LaunchInv, NewsInv, AllMade
  <2>2. done > 0
    BY <1>1, <1>2, <1>3, ServerDoes, ConsumerDoes DEF Placed, IsServer, IsConsumer
  <2>3. env.parses
    BY <1>1, <1>3, <2>2, Zenon DEF NewsInv, Parsed
  <2> QED BY <1>1, <1>3, <2>1, <2>3, EnvGoodSays, Zenon
<1>5. CASE IsServer
  <2>1. made.result = "ok"
    BY <1>1 DEF NewsInv, MadeWell
  <2> QED BY <1>1, <1>2, <1>4, <1>5, <2>1, OwnRoutes DEF IsServer
<1>6. CASE IsConsumer
  <2>1. done >= 4 /\ program # "webhookserver"
    <3>1. Len(Plan) = 7
      BY <1>6, ConsumerDoes DEF IsConsumer
    <3>2. ~IsServer
      BY <1>6, OneProgram
    <3> QED BY <1>2, <3>1, <3>2 DEF IsServer
  <2> QED BY <1>1, <1>2, <1>4, <1>6, <2>1 DEF Reached
<1> QED BY <1>1, <1>3, <1>5, <1>6 DEF Placed

\* Whatever serves was configured in range, and has reached what it needs.
THEOREM ServesOnlyWhenReady == Spec => []ServesWhenReady
BY StartAlways, ReachedImpliesReady, PTL

-----------------------------------------------------------------------------
(***************************************************************************)
(* Why a program gives up.                                                 *)
(***************************************************************************)

FailReason ==
  \/ ~EnvGood \/ SomeTimeoutZero \/ database # 0 \/ brokers # 0
  \/ (program \in {"githubconsumer", "gitlabconsumer"} /\ env.KC_PARTITION # 0)

PanicReason == env.MAX_RETRIES = 0 \/ (program = "webhookserver" /\ ~QueuesMakeable)

LEMMA EndsForIs ==
  EndsForAReason <=>
    (~IsCaller => (status = "failed" => FailReason \/ GroupServed) /\ (status = "panicked" => PanicReason))
BY Zenon DEF EndsForAReason, IsCaller, FailReason, PanicReason

LEMMA ReasonsStay ==
  ASSUME UNCHANGED world
  PROVE  /\ FailReason' <=> FailReason
         /\ PanicReason' <=> PanicReason
         /\ IsCaller' <=> IsCaller
<1>1. env' = env /\ brokers' = brokers /\ database' = database /\ program' = program
  BY WorldStays
<1>2. EnvGood' <=> EnvGood
  BY <1>1, Zenon DEF EnvGood, ClientEnvGood, ServerEnvGood, ConsumerEnvGood
<1>3. /\ SomeTimeoutZero' <=> SomeTimeoutZero
      /\ QueuesMakeable' <=> QueuesMakeable
      /\ IsCaller' <=> IsCaller
  BY <1>1 DEF SomeTimeoutZero, QueuesMakeable, IsCaller
<1> QED BY <1>1, <1>2, <1>3 DEF FailReason, PanicReason

\* Only the connection of a consumer that may not try once leaves a nil client to close.
LEMMA NilDeferred ==
  ASSUME LaunchInv, StartInv, ~IsCaller, "nil" \in ToSet(deferred)
  PROVE  env.MAX_RETRIES = 0
<1>1. Placed /\ HasDeferred /\ HasClient /\ Clientless
  BY DEF LaunchInv, DeferInv, StartInv
<1>2. \E i \in DOMAIN deferred : deferred[i] = "nil"
  BY DEF ToSet
<1>3. CASE IsServer
  <2>1. deferred = << >> \/ deferred = << "client" >>
    BY <1>1, <1>3 DEF HasDeferred
  <2> QED BY <1>2, <2>1
<1>4. CASE IsConsumer
  <2>1. \/ deferred = << >>
        \/ deferred = << "pool" >>
        \/ deferred = << client, "pool" >> /\ ~(done <= 5)
    BY <1>1, <1>4 DEF HasDeferred
  <2>2. client = "nil" /\ ~(done <= 5)
    BY <1>2, <2>1
  <2>3. done >= 6
    BY <1>1, <2>2 DEF Placed
  <2> QED BY <1>1, <1>4, <2>2, <2>3 DEF Clientless
<1> QED BY <1>1, <1>3, <1>4 DEF Placed

\* It is enough that what Run leaves with has a reason.
LEMMA LeavesFor ==
  ASSUME LaunchInv, StartInv, UNCHANGED world, NEW how, Leave(how), how # "panicked" \/ PanicReason,
         how # "failed" \/ FailReason
  PROVE  EndsForAReason'
<1>1. status' = how \/ (status' = "panicked" /\ "nil" \in ToSet(deferred))
  BY DEF Leave
<1>2. ~IsCaller /\ "nil" \in ToSet(deferred) => PanicReason
  BY NilDeferred DEF PanicReason
<1>3. ~IsCaller => (status' = "failed" => FailReason) /\ (status' = "panicked" => PanicReason)
  BY <1>1, <1>2
<1>4. EndsForAReason' <=>
        (~IsCaller' => (status' = "failed" => FailReason' \/ GroupServed') /\ (status' = "panicked" => PanicReason'))
  BY Zenon DEF EndsForAReason, IsCaller, FailReason, PanicReason
<1> QED BY <1>3, <1>4, ReasonsStay

\* A step that does not end it.
LEMMA GoesOn ==
  ASSUME EndsForAReason, UNCHANGED world,
         UNCHANGED << status, done >> \/ status' \in {"starting", "serving"}
  PROVE  EndsForAReason'
<1>0. UNCHANGED done => (GroupServed' <=> GroupServed)
  BY PlanStays DEF GroupServed, world
<1>1. EndsForAReason' <=>
        (~IsCaller' => (status' = "failed" => FailReason' \/ GroupServed') /\ (status' = "panicked" => PanicReason'))
  BY Zenon DEF EndsForAReason, IsCaller, FailReason, PanicReason
<1> QED BY <1>0, <1>1, ReasonsStay, EndsForIs

\* What New refuses is not good.
LEMMA RefusedFor ==
  ASSUME NewsInv, ~IsCaller, At("new"), NewOf(done + 1).result # "ok"
  PROVE  ~EnvGood
<1>1. done + 1 \in 1 .. Len(Plan) /\ IsNew(done + 1)
  <2>1. IsNew(done + 1)
    BY DEF At, Step, IsNew
  <2>2. done \in Nat /\ done + 1 \in 0 .. Len(Plan)
    BY Where DEF NewsInv
  <2> QED BY <2>1, <2>2
<1>2. EnvGood => \A i \in 1 .. Len(Plan) : IsNew(i) => NewOf(i).result = "ok"
  BY EnvGoodSays, Zenon DEF NewsInv
<1> QED BY <1>1, <1>2

\* The partition of a partition consumer is the environment's.
LEMMA PartitionMade ==
  ASSUME NewsInv, At("serve"), IsConsumer, Kind = "consumer"
  PROVE  made.config["Partition"] = env.KC_PARTITION
<1>1. ~IsCaller /\ done = 6 /\ status = "starting"
  BY Where, OneProgram DEF NewsInv, At
<1>2. IsNew(5) /\ ~IsNew(6) /\ NewOf(5) = New(Kind, ClientOptions(Kind)) /\ Kind \in Clients
  <2>1. Plan[5] = Make(Kind, ClientOptions(Kind)) /\ Plan[6] = Do("connect")
    BY ConsumerPlanIs DEF IsConsumer, ClientOptions
  <2> QED BY <2>1 DEF IsNew, NewOf, Make, Do, Clients
<1>3. made.result = "ok" /\ NewOf(5).result = "ok"
  BY <1>1, <1>2 DEF NewsInv, MadeWell, AllMade
<1>4. made = NewOf(5)
  <2>1. \A j \in 1 .. 6 : j = 6 \/ j <= 5
    OBVIOUS
  <2>2. LastNew(6, 5)
    BY <1>2, <2>1 DEF LastNew
  <2> QED BY <1>1, <1>3, <2>2 DEF NewsInv, MadeLast
<1>5. env.MAX_RETRIES \in 0 .. MaxUint8
  <2>1. ClientEnvGood /\ env.MAX_RETRIES \in Int
    BY <1>1, <1>3, ConsumerNews DEF NewsInv, Given
  <2> QED BY <2>1 DEF ClientEnvGood, MaxUint8
<1> DEFINE config == made.config
<1>6. config = New(Kind, ClientOptions(Kind)).config /\ New(Kind, ClientOptions(Kind)).result = "ok"
  BY <1>2, <1>3, <1>4
<1> HIDE DEF config
<1>7. config["Partition"] = env.KC_PARTITION
  BY <1>2, <1>5, <1>6, ClientMade
<1> QED BY <1>7 DEF config

\* A loop gives up because of errors, and without errors because it may not try.
LEMMA LoopEndsFor ==
  ASSUME LaunchInv, StartInv, EndsForAReason, ConnectLoopEnds
  PROVE  EndsForAReason'
<1>1. UNCHANGED world /\ NewsInv /\ LoopInv
  BY DEF ConnectLoopEnds, LaunchInv
<1>2. CASE err = "error" /\ Leave("failed")
  <2>1. IsCaller \/ FailReason
    BY <1>2 DEF StartInv, Calm, FailReason
  <2>2. ~IsCaller
    <3>1. At("connect")
      BY DEF ConnectLoopEnds
    <3> QED BY <1>1, <3>1, Where DEF NewsInv
  <2> QED BY <1>1, <1>2, <2>1, <2>2, LeavesFor
<1>3. CASE err = "nil" /\ Leave("panicked")
  <2>1. PanicReason
    BY <1>1, <1>3, NoAttempts DEF PanicReason
  <2> QED BY <1>1, <1>3, <2>1, LeavesFor
<1>4. CASE GoOn
  <2>1. status' = "starting"
    BY <1>4 DEF GoOn, ConnectLoopEnds, At
  <2> QED BY <1>1, <2>1, GoesOn
<1> QED BY <1>2, <1>3, <1>4 DEF ConnectLoopEnds

LEMMA ServeFor ==
  ASSUME LaunchInv, StartInv, EndsForAReason, Serve
  PROVE  EndsForAReason'
<1>1. UNCHANGED world /\ At("serve") /\ Placed /\ HasClient /\ Clientless
  BY DEF Serve, LaunchInv, DeferInv, StartInv
<1>2. CASE status' = "serving"
  BY <1>1, <1>2, GoesOn
<1>3. CASE client = "nil" /\ (Leave("panicked") \/ Die)
  <2>1. IsCaller \/ (IsConsumer /\ done >= 6)
    <3>1. IsServer => done = 9
      BY <1>1, Where
    <3>2. IsConsumer => done = 6
      BY <1>1, Where
    <3> QED BY <1>1, <1>3, <3>1, <3>2 DEF Placed, HasClient
  <2>2. ~IsCaller
    BY <1>1, Where
  <2>3. PanicReason
    BY <1>1, <1>3, <2>1, <2>2 DEF Clientless, PanicReason
  <2>4. CASE Leave("panicked")
    BY <1>1, <2>3, <2>4, LeavesFor
  <2>5. CASE Die
    <3>1. status' = "panicked"
      BY <2>5 DEF Die
    <3>2. EndsForAReason' <=>
            (~IsCaller' => (status' = "failed" => FailReason' \/ GroupServed') /\ (status' = "panicked" => PanicReason'))
      BY Zenon DEF EndsForAReason, IsCaller, FailReason, PanicReason
    <3> QED BY <1>1, <2>3, <3>1, <3>2, ReasonsStay
  <2> QED BY <1>3, <2>4, <2>5
<1> QED BY <1>2, <1>3 DEF Serve

LEMMA EndsForNext ==
  ASSUME LaunchInv, StartInv, EndsForAReason, [Next]_vars
  PROVE  EndsForAReason'
<1>0. NewsInv /\ Placed /\ UNCHANGED world
  BY PlacedNext DEF LaunchInv, NewsInv
<1>1. CASE ParseEnvironment
  <2>1. CASE GoOn
    BY <1>0, <1>1, <2>1, GoesOn DEF GoOn, ParseEnvironment, At
  <2>2. CASE ~env.parses /\ Leave("failed")
    <3>1. ~EnvGood
      BY <2>2, Zenon DEF EnvGood
    <3>2. FailReason /\ Leave("failed")
      BY <2>2, <3>1 DEF FailReason
    <3> QED BY <1>0, <3>2, LeavesFor
  <2>3. GoOn \/ (~env.parses /\ Leave("failed"))
    BY <1>1, Zenon DEF ParseEnvironment
  <2> QED BY <2>1, <2>2, <2>3
<1>2. CASE Construct
  <2>1. At("new") /\ made' = NewOf(done + 1)
    BY <1>2 DEF Construct, Step, NewOf
  <2>2. CASE GoOn
    BY <1>0, <2>1, <2>2, GoesOn DEF GoOn, At
  <2>3. CASE Leave("failed") /\ made'.result # "ok"
    <3>1. CASE IsCaller
      BY <1>0, <3>1, ReasonsStay, EndsForIs DEF EndsForAReason, IsCaller
    <3>2. CASE ~IsCaller
      <4>1. FailReason
        BY <1>0, <2>1, <2>3, <3>2, RefusedFor DEF FailReason
      <4> QED BY <1>0, <2>3, <4>1, LeavesFor
    <3> QED BY <3>1, <3>2
  <2> QED BY <1>2, <2>2, <2>3 DEF Construct
<1>3. CASE PingReturns \/ PingFails \/ Connect \/ ConnectFails \/ UNCHANGED vars
  <2>1. UNCHANGED << status, done >> \/ status' = "starting"
    BY <1>3 DEF PingReturns, PingFails, Connect, ConnectFails, SleepFrom, GoOn, vars, At
  <2> QED BY <1>0, <2>1, GoesOn
<1>4. CASE PingGivesUp
  <2>1. At("ping") /\ err = "error" /\ Leave("failed")
    BY <1>4 DEF PingGivesUp
  <2>2. FailReason
    <3>1. ~IsCaller
      BY <1>0, <2>1, Where
    <3> QED BY <2>1, <3>1 DEF StartInv, Calm, FailReason
  <2> QED BY <1>0, <2>1, <2>2, LeavesFor
<1>5. CASE ConnectLoopEnds
  BY <1>5, LoopEndsFor
<1>6. CASE MakeQueues
  <2>1. At("queues") /\ (GoOn \/ (~QueuesMakeable /\ Leave("panicked")))
    BY <1>6 DEF MakeQueues, QueuesMakeable
  <2>2. CASE GoOn
    BY <1>0, <2>1, <2>2, GoesOn DEF GoOn, At
  <2>3. CASE ~QueuesMakeable /\ Leave("panicked")
    <3>1. IsServer
      BY <1>0, <2>1, Where DEF Placed
    <3>2. PanicReason
      BY <2>3, <3>1 DEF PanicReason, IsServer
    <3> QED BY <1>0, <2>3, <3>2, LeavesFor
  <2> QED BY <2>1, <2>2, <2>3
<1>7. CASE Serve
  BY <1>7, ServeFor
<1>8. CASE NoSuchPartition
  <2>1. /\ At("serve") /\ program # "webhookserver" /\ Kind = "consumer" /\ Leave("failed")
        /\ made.config["Partition"] # 0
    BY <1>8 DEF NoSuchPartition, Kind
  <2>2. IsConsumer
    BY <1>0, <2>1, Where DEF Placed, IsServer
  <2>3. program \in {"githubconsumer", "gitlabconsumer"}
    BY <2>1, <2>2, ConsumersAre DEF IsConsumer
  <2>4. FailReason
    BY <1>0, <2>1, <2>2, <2>3, PartitionMade DEF FailReason
  <2> QED BY <1>0, <2>1, <2>4, LeavesFor
<1>9. CASE Return
  BY <1>0, <1>9, LeavesFor DEF Return
<1>10. CASE GroupReturn
  <2>1. status' \in {"ended", "failed"} /\ GroupServed
    BY <1>0, <1>10 DEF GroupReturn, LaunchInv, DeferInv, Serves, GroupServed
  <2>2. GroupServed'
    BY <1>0, <1>10, <2>1, PlanStays DEF GroupReturn, GroupServed, world
  <2> QED BY <2>1, <2>2 DEF EndsForAReason
<1> QED BY <1>1, <1>2, <1>3, <1>4, <1>5, <1>6, <1>7, <1>8, <1>9, <1>10
  DEF Next, StartStep, PingStep, ConnectStep

\* No program fails or panics without one of the reasons the property lists.
THEOREM EndsWithAReason == Spec => []EndsForAReason
<1>1. Init => EndsForAReason
  BY DEF Init, EndsForAReason
<1>2. LaunchInv /\ StartInv /\ EndsForAReason /\ [Next]_vars => EndsForAReason'
  BY EndsForNext
<1> QED BY <1>1, <1>2, StartAlways, PTL DEF Spec
=============================================================================
