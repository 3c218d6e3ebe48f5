------------------------------- MODULE Launch -------------------------------
(***************************************************************************)
(* How the programs start and how they end: Run of cmd/webhookserver and   *)
(* of the four consumer programs. Run reads the environment, makes one     *)
(* thing after another (Options), pings the database and connects to the   *)
(* brokers in loops of attempts that sleep longer and longer, then serves. *)
(* Whatever stops it, what it has deferred is closed on the way out.       *)
(*                                                                         *)
(* Time passes while an attempt fails and while a loop sleeps. The         *)
(* database and the brokers become reachable at times of their own.        *)
(*                                                                         *)
(* A "caller" is some other program that calls one constructor with        *)
(* options of its own.                                                     *)
(***************************************************************************)
EXTENDS Options

CONSTANTS
  PingTimeout,     \* storage.DefaultDBPingTimeout
  PingRetries,     \* storage.DefaultDBPingMaxRetries
  PingBackoff,     \* storage.DefaultDBPingBackoff
  AttemptTimes,    \* how long a failing attempt to reach the brokers takes
  Times,           \* bound: when a service may become reachable ...
  Never,           \* ... unless it never does
  Envs,            \* the environments to start in at any time
  OddEnvs,         \* the environments to start in when all services are reachable
  Calls            \* [Constructors -> the options a caller gives]

ASSUME TimeAssumption ==
  /\ PingTimeout \in Nat \ {0} /\ PingRetries \in Nat \ {0} /\ PingBackoff \in Nat \ {0}
  /\ AttemptTimes \subseteq Nat /\ Times \subseteq Nat /\ 0 \in Times /\ Never \notin Nat

ASSUME CallsAssumption ==
  \A c \in Constructors : \A options \in Calls[c] : OptionsFor(c, options)

\* getenv.TCPAddr takes valid addresses only, getenv.Int numbers.
ASSUME EnvAssumption ==
  \A e \in Envs \cup OddEnvs :
    /\ e.LISTEN_ADDR \notin {"nil", Empty, "junk"}
    /\ "nil" \notin {e.GITHUB_HMAC_SECRET, e.GITLAB_HMAC_SECRET, e.DATABASE_URL, e.KCG_NAME}
    /\ {e.BACKOFF, e.MAX_RETRIES, e.KC_PARTITION} \subseteq Int

VARIABLES
  program,             \* whose Run it is, or "caller"
  env,                 \* its environment variables
  database, brokers,   \* when each becomes reachable; Never if it does not
  done,                \* how many steps of the plan are done
  status,              \* "starting", "serving", "ended", "failed" or "panicked"
  clock,               \* the time since ctx was made
  attempt,             \* i, the attempts of the loop so far
  backoff,             \* how long the loop sleeps next
  initial,             \* history: how long it slept first
  slept,               \* history: how long it has slept
  err,                 \* the error of the last attempt: "nil" or "error"
  client,              \* the Kafka client: "nil" or "client"
  made,                \* what the last New returned
  deferred,            \* what Run has deferred closing, the first to close first
  closed               \* history: what has been closed, in order

world == << program, env, database, brokers >>
loop  == << clock, attempt, backoff, initial, slept, err, client >>
ends  == << deferred, closed >>
vars  == << world, done, status, loop, made, ends >>

Providers == {"github", "gitlab"}

\* The provider and the kind of client of each consumer program.
Consumers ==
  [ githubconsumer      |-> << "github", "consumer" >>,
    githubconsumergroup |-> << "github", "group" >>,
    gitlabconsumer      |-> << "gitlab", "consumer" >>,
    gitlabconsumergroup |-> << "gitlab", "group" >> ]

Programs == DOMAIN Consumers \cup {"webhookserver"}

Groups == {"githubconsumergroup", "gitlabconsumergroup"}

-----------------------------------------------------------------------------
(***************************************************************************)
(* The plan of each program: what its Run does, in order.                  *)
(***************************************************************************)

Option(f, v) == [ field |-> f, value |-> v ]

Make(c, options) == [ does |-> "new", constructor |-> c, options |-> options ]
Do(what)         == [ does |-> what ]

MakeLogger(e) == Make("logger", << Option("Level", e.LOG_LEVEL) >>)

\* The options the programs give all their clients.
Connection(e) ==
  << Option("Logger", "logger"), Option("KafkaBrokers", e.KCP_BROKERS),
     Option("DialTimeout", e.DIAL_TIMEOUT), Option("ReadTimeout", e.READ_TIMEOUT),
     Option("WriteTimeout", e.WRITE_TIMEOUT), Option("Backoff", e.BACKOFF),
     Option("MaxRetries", e.MAX_RETRIES) >>

MakeHandler(p, secret) ==
  Make(IF p = "github" THEN "githubhandler" ELSE "gitlabhandler",
       << Option("Logger", "logger"), Option("Topic", p), Option("Secret", secret),
          Option("MessageQueue", p) >>)

MakeStorage(p, e) ==
  Make(IF p = "github" THEN "githubstorage" ELSE "gitlabstorage",
       << Option("DatabaseDSN", e.DATABASE_URL), Option("Logger", "logger") >>)

HandleRoute(method, path, handler) ==
  Option("Handlers", [ method |-> method, path |-> path, handler |-> handler ])

MakeServer(e) ==
  Make("server",
       << Option("Logger", "logger"), Option("ListenAddr", e.LISTEN_ADDR),
          Option("ReadTimeout", e.SERVER_READ_TIMEOUT),
          Option("WriteTimeout", e.SERVER_WRITE_TIMEOUT),
          Option("IdleTimeout", e.SERVER_IDLE_TIMEOUT),
          Option("KafkaGitHubTopic", "github"), Option("KafkaBrokers", e.KCP_BROKERS),
          HandleRoute("GET", "/healthz", "health"),
          HandleRoute("POST", "/v1/webhook/github", "github"),
          HandleRoute("POST", "/v1/webhook/gitlab", "gitlab") >>)

WebhookServerPlan(e) ==
  << Do("parse"), MakeLogger(e), Make("producer", Connection(e)), Do("connect"), Do("queues"),
     Make("health", << Option("Version", "version") >>),
     MakeHandler("github", e.GITHUB_HMAC_SECRET), MakeHandler("gitlab", e.GITLAB_HMAC_SECRET),
     MakeServer(e), Do("serve") >>

\* What a partition consumer and what a group is given besides.
OwnOptions(kind, e) ==
  << Option("ProcessMessageFunc", "store"), Option("Topic", e.KC_TOPIC),
     IF kind = "group" THEN Option("KafkaGroupName", e.KCG_NAME)
                       ELSE Option("Partition", e.KC_PARTITION) >>

ConsumerPlan(p, kind, e) ==
  << Do("parse"), MakeLogger(e), MakeStorage(p, e), Do("ping"),
     Make(kind, Connection(e) \o OwnOptions(kind, e)), Do("connect"), Do("serve") >>

Plan ==
  CASE program = "webhookserver"    -> WebhookServerPlan(env)
    [] program \in DOMAIN Consumers ->
         ConsumerPlan(Consumers[program][1], Consumers[program][2], env)
    [] program = "caller"           -> << Make(env.constructor, env.options) >>

Step == Plan[done + 1]

At(what) == status = "starting" /\ done < Len(Plan) /\ Step.does = what

\* It is some time s, if at all, and the clock says so.
Up(s) == s # Never /\ s <= clock

-----------------------------------------------------------------------------
(***************************************************************************)
(* Ways on and ways out.                                                   *)
(***************************************************************************)

GoOn == done' = done + 1 /\ UNCHANGED << status, closed >>

\* Run returns, or the panic of its own goroutine unwinds it: what is deferred
\* is closed. Closing a nil client panics.
Leave(how) ==
  /\ \/ "nil" \notin ToSet(deferred) /\ status' = how /\ closed' = deferred
     \/ "nil" \in ToSet(deferred) /\ status' = "panicked"
        /\ closed' = SelectSeq(deferred, LAMBDA resource : resource # "nil")
  /\ UNCHANGED done

\* A panic of another goroutine: nothing is closed.
Die == status' = "panicked" /\ UNCHANGED << done, closed >>

-----------------------------------------------------------------------------
(***************************************************************************)
(* The steps.                                                              *)
(***************************************************************************)

\* getenv.Parse()
ParseEnvironment ==
  /\ At("parse")
  /\ IF env.parses THEN GoOn ELSE Leave("failed")
  /\ UNCHANGED << world, loop, made, deferred >>

\* New of the next thing to make. A client starts a loop of its own.
Construct ==
  /\ At("new")
  /\ made' = New(Step.constructor, Step.options)
  /\ IF made'.result = "ok" THEN GoOn ELSE Leave("failed")
  /\ IF Step.constructor \in Clients /\ made'.result = "ok"
     THEN backoff' = made'.config.Backoff /\ initial' = backoff' /\ attempt' = 0 /\ slept' = 0
     ELSE UNCHANGED << attempt, backoff, initial, slept >>
  /\ UNCHANGED << world, clock, err, client, deferred >>

\* Mutant of SleepFrom: the backoff grows by its first value.
SleepLinearFrom(t) ==
  /\ clock' = t + backoff
  /\ slept' = slept + backoff
  /\ backoff' = backoff + initial
  /\ attempt' = attempt + 1
  /\ err' = "error"
  /\ UNCHANGED << world, done, status, initial, client, made, ends >>

\* A failed attempt is over at time t; the loop sleeps and doubles the backoff,
\* after the last attempt as after any other.
SleepFrom(t) ==
  /\ clock' = t + backoff
  /\ slept' = slept + backoff
  /\ backoff' = backoff * 2
  /\ attempt' = attempt + 1
  /\ err' = "error"
  /\ UNCHANGED << world, done, status, initial, client, made, ends >>

\* Mutant of PingReaches: ctx is not given to Pool.Ping.
PingReachesLate == Up(database)

PingReaches == Up(database) /\ clock < PingTimeout

\* Pool.Ping succeeds; closing the pool is deferred.
PingReturns ==
  /\ At("ping") /\ attempt < PingRetries /\ PingReaches
  /\ err' = "nil"
  /\ GoOn
  /\ deferred' = << "pool" >> \o deferred
  /\ UNCHANGED << world, clock, attempt, backoff, initial, slept, client, made >>

\* Mutant of PingFails: one attempt too many.
PingFailsOnceMore ==
  /\ At("ping") /\ attempt <= PingRetries /\ ~PingReaches
  /\ \E t \in clock .. (IF clock < PingTimeout THEN PingTimeout ELSE clock) : SleepFrom(t)

\* Pool.Ping fails, at the latest when ctx is done.
PingFails ==
  /\ At("ping") /\ attempt < PingRetries /\ ~PingReaches
  /\ \E t \in clock .. (IF clock < PingTimeout THEN PingTimeout ELSE clock) : SleepFrom(t)

\* Mutant of PingGivesUp: the loop does not end.
PingGoesOn ==
  /\ At("ping") /\ attempt > PingRetries
  /\ Leave("failed")
  /\ UNCHANGED << world, loop, made, deferred >>

\* All attempts have failed; Run returns the error of the last one.
PingGivesUp ==
  /\ At("ping") /\ attempt = PingRetries /\ err = "error"
  /\ Leave("failed")
  /\ UNCHANGED << world, loop, made, deferred >>

\* sarama refuses a configuration in which a network timeout is zero.
Refused == \E f \in {"DialTimeout", "ReadTimeout", "WriteTimeout"} : made.config[f] = 0

ConnectReaches == Up(brokers) /\ ~Refused

\* Mutant of DeferClient: closed last, not first.
DeferClientLast(c) == deferred' = Append(deferred, c)

\* defer ... Close(), of the producer AsyncClose()
DeferClient(c) == deferred' = << c >> \o deferred

\* The factory function of sarama returns a client.
Connect ==
  /\ At("connect") /\ attempt < made.config.MaxRetries /\ ConnectReaches
  /\ client' = "client" /\ err' = "nil"
  /\ GoOn /\ DeferClient("client")
  /\ UNCHANGED << world, clock, attempt, backoff, initial, slept, made >>

ConnectFails ==
  /\ At("connect") /\ attempt < made.config.MaxRetries /\ ~ConnectReaches
  /\ \E d \in AttemptTimes : SleepFrom(clock + d)

\* The loop ends without a client: New returns the error of the last attempt,
\* and if there was no attempt there is no error. The webhook server's statement
\* "defer kafkaProducer.AsyncClose()" then panics itself; the consumers defer a
\* function that will call Close.
ConnectLoopEnds ==
  /\ At("connect") /\ attempt = made.config.MaxRetries
  /\ \/ err = "error" /\ Leave("failed") /\ UNCHANGED deferred
     \/ err = "nil" /\ program = "webhookserver" /\ Leave("panicked") /\ UNCHANGED deferred
     \/ err = "nil" /\ program # "webhookserver" /\ GoOn /\ DeferClient("nil")
  /\ UNCHANGED << world, loop, made >>

\* make(chan *sarama.ProducerMessage, size), of both queues.
MakeQueues ==
  /\ At("queues")
  /\ IF env.GITHUB_QUEUE_SIZE >= 0 /\ env.GITLAB_QUEUE_SIZE >= 0
     THEN GoOn ELSE Leave("panicked")
  /\ UNCHANGED << world, loop, made, deferred >>

\* Consume, StartConsume or the webhook server's workers and Start begin.
\* Without a client Consume panics, of StartConsume its goroutines do.
Serve ==
  /\ At("serve")
  /\ \/ client = "client" /\ status' = "serving" /\ done' = done + 1 /\ UNCHANGED closed
     \/ client = "nil" /\ Consumers[program][2] = "consumer" /\ Leave("panicked")
     \/ client = "nil" /\ Consumers[program][2] = "group" /\ Die
  /\ UNCHANGED << world, loop, made, deferred >>

\* ConsumePartition: the topic may have no such partition.
NoSuchPartition ==
  /\ At("serve") /\ client = "client"
  /\ program # "webhookserver" /\ Consumers[program][2] = "consumer" /\ made.config.Partition # 0
  /\ Leave("failed")
  /\ UNCHANGED << world, loop, made, deferred >>

\* Serving ends, and Run with it.
Return ==
  /\ status = "serving" /\ program \notin Groups
  /\ Leave("ended")
  /\ UNCHANGED << world, loop, made, deferred >>

\* StartConsume closes the group before it returns; that may fail, and then Run
\* does. What is deferred is closed as ever, the group once more.
GroupReturn ==
  /\ status = "serving" /\ program \in Groups
  /\ status' \in {"ended", "failed"} /\ closed' = << client >> \o deferred
  /\ UNCHANGED << world, done, loop, made, deferred >>

PingStep    == PingReturns \/ PingFails \/ PingGivesUp
ConnectStep == Connect \/ ConnectFails \/ ConnectLoopEnds
StartStep   == ParseEnvironment \/ Construct \/ PingStep \/ ConnectStep \/ MakeQueues \/ Serve

Next == StartStep \/ NoSuchPartition \/ Return \/ GroupReturn

Init ==
  /\ \/ program \in Programs /\ env \in Envs /\ database \in Times \cup {Never} /\ brokers \in Times \cup {Never}
     \/ program \in Programs /\ env \in OddEnvs /\ database = 0 /\ brokers = 0
     \/ program = "caller" /\ database = Never /\ brokers = Never
        /\ \E c \in Constructors : \E options \in Calls[c] :
             env = [ constructor |-> c, options |-> options ]
  /\ done = 0 /\ status = "starting" /\ clock = 0
  /\ attempt = 0 /\ backoff = PingBackoff /\ initial = PingBackoff /\ slept = 0
  /\ err = "nil" /\ client = "nil"
  /\ made = [ config |-> << >>, result |-> "ok" ]
  /\ deferred = << >> /\ closed = << >>

Spec == Init /\ [][Next]_vars

\* The program is not stopped while it starts.
FairSpec == Spec /\ WF_vars(StartStep)

-----------------------------------------------------------------------------
(***************************************************************************)
(* Properties.                                                             *)
(***************************************************************************)

TypeOK ==
  /\ program \in Programs \cup {"caller"} /\ done \in 0 .. Len(Plan)
  /\ status \in {"starting", "serving", "ended", "failed", "panicked"}
  /\ clock \in Nat /\ slept \in Nat /\ backoff \in Nat \ {0}
  /\ attempt \in Nat
  /\ (At("ping") => attempt <= PingRetries) /\ (At("connect") => attempt <= made.config.MaxRetries)
  /\ err \in {"nil", "error"} /\ client \in {"nil", "client"}
  /\ made.result \in {"ok", "required", "invalid", "parse"}
  /\ ToSet(deferred) \subseteq {"pool", "client", "nil"}

\* 2^n
PowerOfTwo[n \in Nat] == IF n = 0 THEN 1 ELSE 2 * PowerOfTwo[n - 1]

\* The loops back off: after i failed attempts the loop has slept 2^i - 1 times
\* its first backoff, and sleeps 2^i times that next.
BacksOff == backoff = initial * PowerOfTwo[attempt] /\ slept = backoff - initial

\* A reference for what the environment has to say, program by program.
ClientEnvGood ==
  /\ "addr" \in env.KCP_BROKERS
  /\ env.DIAL_TIMEOUT >= 0 /\ env.READ_TIMEOUT >= 0 /\ env.WRITE_TIMEOUT >= 0
  /\ env.BACKOFF > 0 /\ env.BACKOFF <= Minute
  /\ env.MAX_RETRIES >= 0 /\ env.MAX_RETRIES <= MaxUint8

ServerEnvGood ==
  /\ env.GITHUB_HMAC_SECRET # Empty /\ env.GITLAB_HMAC_SECRET # Empty
  /\ env.SERVER_READ_TIMEOUT >= 0 /\ env.SERVER_WRITE_TIMEOUT >= 0 /\ env.SERVER_IDLE_TIMEOUT >= 0

ConsumerEnvGood ==
  /\ env.DATABASE_URL \notin {Empty, "junk"} /\ env.KC_TOPIC \in Topics
  /\ program \in {"githubconsumergroup", "gitlabconsumergroup"} => env.KCG_NAME # Empty
  /\ program \in {"githubconsumer", "gitlabconsumer"} => env.KC_PARTITION \in 0 .. MaxInt32

EnvGood ==
  /\ env.parses /\ env.LOG_LEVEL \in Levels /\ ClientEnvGood
  /\ IF program = "webhookserver" THEN ServerEnvGood ELSE ConsumerEnvGood

SomeTimeoutZero == 0 \in {env.DIAL_TIMEOUT, env.READ_TIMEOUT, env.WRITE_TIMEOUT}

QueuesMakeable == env.GITHUB_QUEUE_SIZE >= 0 /\ env.GITLAB_QUEUE_SIZE >= 0

\* The webhook server has each provider's requests sent to its own handler.
OwnHandlers ==
  /\ Route(made.config, "POST", "/v1/webhook/github") = "github"
  /\ Route(made.config, "POST", "/v1/webhook/gitlab") = "gitlab"
  /\ Route(made.config, "GET", "/healthz") = "health"

\* Whatever a program serves with is there: it was configured in range, a
\* consumer has reached the database before PingTimeout (a later attempt of Ping
\* cannot succeed), the webhook server has its routes, and it has a client
\* that reached the brokers, in at least one attempt, with timeouts sarama takes.
ServesWhenReady ==
  status = "serving" =>
    /\ EnvGood
    /\ IF program = "webhookserver" THEN OwnHandlers ELSE database # Never /\ database < PingTimeout
    /\ client = "client" /\ Up(brokers) /\ ~SomeTimeoutZero /\ env.MAX_RETRIES > 0

\* A group has been served: StartConsume has begun, and what ends the program is
\* its return.
GroupServed == program \in Groups /\ done = Len(Plan)

\* No program gives up without a reason: if all services are reachable and all
\* the environment says is in range, then an error can only be that of a zero
\* timeout (accepted, and then refused by sarama at every attempt), of a
\* partition that is not there, or of a group that is closed after it has been
\* served; and only MAX_RETRIES 0 or a negative queue size ends it with a panic.
EndsForAReason ==
  program # "caller" =>
    /\ status = "failed" =>
         \/ ~EnvGood \/ SomeTimeoutZero \/ database # 0 \/ brokers # 0
         \/ (program \in {"githubconsumer", "gitlabconsumer"} /\ env.KC_PARTITION # 0)
         \/ GroupServed
    /\ status = "panicked" =>
         \/ env.MAX_RETRIES = 0
         \/ (program = "webhookserver" /\ ~QueuesMakeable)

\* Where there is one and the other, before(x, y) says x has been closed first.
ClosedBefore(x, y) ==
  \A i, j \in DOMAIN closed : closed[i] = x /\ closed[j] = y => i < j

\* A program that ends or gives up has closed all it had deferred closing, the
\* client before the pool its workers store through, and nothing twice, but for
\* the group StartConsume has closed first of all. (The pool of a Ping that
\* failed is not closed: closing it is deferred too late.)
ClosedInOrder ==
  status \in {"ended", "failed"} =>
    /\ ClosedBefore("client", "pool")
    /\ IF GroupServed THEN Head(closed) = "client" /\ IsInjective(Tail(closed)) ELSE IsInjective(closed)
    /\ ("client" \in ToSet(closed)) <=> (client = "client")
    /\ program # "webhookserver" /\ client = "client" => "pool" \in ToSet(closed)

\* Options whose order matters: the last one for a field, and for a route the
\* last one for its path.
LastFor(options, i, field) ==
  options[i].field = field
    /\ \A j \in DOMAIN options : options[j].field = field => j <= i

LastRoute(options, i, path) ==
  options[i].field = "Handlers" /\ options[i].value.path = path
    /\ \A j \in DOMAIN options :
         options[j].field = "Handlers" /\ options[j].value.path = path => j <= i

\* What New has just made, and from which options.
JustMade(c) == done > 0 /\ Plan[done].does = "new" /\ Plan[done].constructor = c /\ made.result = "ok"

\* A field has what the last option for it said, in whatever order options of
\* different fields came, and its default if there was none; nothing New calls
\* or names is missing. (What Handlers holds is RoutesAsRegistered.)
LastOptionWins ==
  \A c \in Constructors : JustMade(c) =>
    \A f \in DOMAIN made.config \ {"Handlers"} :
      LET options == Plan[done].options
          given   == { i \in DOMAIN options : LastFor(options, i, f) }
      IN  /\ \A i \in given : made.config[f] = Stored(Defaults(c)[f], f, options[i].value)
          /\ given = {} /\ f \notin Filled => made.config[f] = Defaults(c)[f]
          /\ f \in Filled \cup Needed => made.config[f] \notin {"nil", Empty}

\* A request gets the handler that was registered last for its path, if it has
\* that registration's method, and otherwise 405; without one, 404. An earlier
\* registration of the path is gone, whatever its method.
RoutesAsRegistered ==
  JustMade("server") =>
    \A path \in {"/healthz", "/v1/webhook/github", "/v1/webhook/gitlab", "/"},
       method \in {"GET", "POST"} :
      LET options == Plan[done].options
          last    == { i \in DOMAIN options : LastRoute(options, i, path) }
      IN  /\ last = {} => Route(made.config, method, path) = "404"
          /\ \A i \in last :
               Route(made.config, method, path) =
                 IF options[i].value.method = method THEN options[i].value.handler ELSE "405"

\* Every program starts to serve or gives up, whatever becomes reachable.
Decides == <>(status # "starting" \/ done = Len(Plan))
=============================================================================
