# Verification of cauldron

Cauldron receives GitHub and GitLab webhooks over HTTP, publishes them to
Kafka, and consumer programs take them from Kafka and insert them in PostgreSQL.
This directory holds a TLA+ model of these programs, the TLC runs that check it on
small instances, and theorems about it that TLAPS checks for every value of
the constants.

`PROJECT.json` is the index: the components, the runs with what each shows, the
source lines every definition stands for, the hazards of the code with the
properties that cover them, the disagreements found, and the theorems.

    tlc -config group_safety.cfg MCConsumerGroup.tla          # a run
    tlapm ConsumerGroupProofs.tla                             # a proof

## The system

| Part | Code | State it keeps | Operations |
|---|---|---|---|
| webhook server process | `cmd/webhookserver`, `internal/webhookserver` | the fasthttp server, two bounded message queues, the producer's answers | serve, offer a message, publish, stop on a signal |
| handlers | `internal/transport/http/{github,gitlab}webhookhandler` | none | check a request, make a Kafka message, answer |
| router | `internal/webhookserver` | paths, each with a method and a handler | register, look up |
| producer | `internal/kafkacp/kafkaproducer` | a sarama AsyncProducer | connect with retries |
| consumer group | `internal/kafkacp/kafkaconsumergroup`, `cmd/{github,gitlab}consumergroup` | the session's claims, the bounded `MessageQueue`, the marks | consume, mark, store, rebalance, shut down |
| partition consumer | `internal/kafkacp/kafkaconsumer`, `cmd/{github,gitlab}consumer` | the position, the bounded `messagesQueue` | consume, store, shut down |
| storages | `internal/storage/{github,gitlab}storage` | a connection pool | ping with retries, parse a message, insert a row |
| configuration | the options of all ten constructors | the struct being built | options, defaults, `checkRequired` |
| start and end of the programs | `Run` in `cmd/*` | what is made, what is deferred | parse, construct, ping, connect, serve, close |
| migrator, declarations, tooling | `cmd/migrator`, `Rakefile`, ... | none of interest | not modelled, see the end |

How they interact. An HTTP request calls its provider's `Handle`, which builds a
message and starts a goroutine that offers it to the provider's queue; `Handle`
answers without waiting for it. Message workers range over the queue, put a
message in the producer, and wait for one of the producer's answers. Kafka
stores the message. A consumer program has one goroutine that moves messages
from sarama to a bounded queue, and workers that call `MessageStore` on them.
All the shutdowns are driven by a signal: a context is cancelled or the server
is stopped, queues are closed, and a wait group waits for the goroutines.

What is hard about it: goroutines that outlive what started them; select
statements among ready cases; closing a channel another goroutine may send on;
bounded queues that block (consumers) or drop (server) when full; marks that are
set before the work they stand for is done; rebalances, evictions and crashes
between a mark and its commit; a variable and request buffers that are shared
without synchronisation; answers of a producer that are shared by all workers;
retry loops with an overall deadline; programs that fail half-way through their
construction; a producer that sends again what may have been stored; and
conversions between unsigned numbers, texts and columns.

## The modules

| Module | Models | EXTENDS / INSTANCEs |
|---|---|---|
| `ConsumerGroup` | all members of a group, with Kafka's group protocol | |
| `ConsumerGroupProps`, `ConsumerGroupProofs`, `MCConsumerGroup` | its properties, theorems, instances | `ConsumerGroup` |
| `GroupFateProofs` | that the group implements `GroupFate` | `ConsumerGroupProofs` |
| `GroupFate` | what a group promises of each message, as if it were one consumer; `ConsumerGroupProps` has the refinement | |
| `MessageFate` | what a consumer without committed offsets promises of each message | |
| `PartitionConsumer` | one process that consumes one partition; implements `MessageFate` | `MessageFate` |
| `PartitionConsumerProofs`, `MCPartitionConsumer` | theorems, instances | `PartitionConsumer` |
| `WebhookServer` | the webhook server process | |
| `WebhookServerProps`, `WebhookServerProofs`, `MCWebhookServer` | its properties, theorems, instances | `WebhookServer` |
| `Pipeline` (+ `MCPipeline`) | server, topic and group together, from a request to its rows | `WebhookServer`, `GroupFate` |
| `PipelineProofs` | its theorems | `Pipeline`, `WebhookServerProofs` |
| `Delivery` (+ `MCDelivery`, `DeliveryProofs`) | the content of one webhook, from the request to the row | `GitHubDelivery`, `GitLabDelivery` |
| `GitHubDelivery`, `GitLabDelivery` | what the handler and the storage of a provider compute | |
| `Options` (+ `OptionsProofs`) | defaults, options and checks of the ten constructors, and the router | |
| `Launch` (+ `MCLaunch`) | `Run` of the five programs, with retry loops, a clock, and what is closed on the way out | `Options` |
| `LaunchProofs` | its theorems | `Launch`, `OptionsProofs` |

The modules of the processes treat a message as an atom; the delivery modules
treat one message at a time and look inside it. An operator whose comment starts
with "Mutant of X" is not part of the model: it is X with a plausible bug, and
putting it in X's place makes the run named in `PROJECT.json` fail. It shows that
the property there depends on the code it is about.

### ConsumerGroup

State per member: the consumer loop (`loop`: at the check of `ctx.Err()`, inside
`Consume` without or with a session, returned, queue closed), one claim per
partition (`claim`, `pos`, `marked`), the queue, the workers, the error handler,
and whether `ctx` is done (`cancelled`). State of Kafka: the end of each
partition's log, the group's committed offsets, and which sessions it honours
(`Owners`: members in a session and not evicted). State of the database: rows per
message. `skipped`, `lost`, `aborts` and `faults` are history variables.

`ConsumeClaim` is three steps, `ClaimReceive`, `ClaimSend` (which blocks while
the queue is full) and `ClaimMark`, because everything may happen between them.
The deferred calls of the consumer loop run in the code's order: it counts itself
out of the wait group and only then closes the queue, so `StartConsumeReturn` may
happen in between. A worker that takes a message after `ctx` is done gives it to
an INSERT that fails at once (`WorkerTakeCancelled`).

Kafka and sarama are modelled from how the code uses them: a session ends when the
group must be formed anew, when `ctx` is done, or at a spurious rebalance;
`Consume` waits for the claims, commits what they marked and returns; auto-commit
may flush marks at any time; a member that misses a deadline is evicted: its
goroutines go on, and its commits are refused. Where nothing is committed
the group starts at the end of the log. A killed process loses its memory.

`GroupFate` forgets members, sessions and generations. A message is taken once,
and once more at the most for each session that was aborted before it committed;
it is not taken before those ahead of it in its partition have been taken or
skipped; and only what was taken or skipped is committed. The refinement in
`ConsumerGroupProps` counts the copies of a message in all queues and hands.

### PartitionConsumer and MessageFate

`Consume` of `kafkaconsumer`: the signal listener cancels `ctx` and closes `done`
in two steps; the reader's select may prefer a message to `ctx.Done()`; the
workers range over the queue until it is closed and empty. The variable `err` of
`Consume` is assigned by all workers: a worker that tests it sees the result it has
just assigned or the one another worker has assigned since (`WorkerCheck`).

`MessageFate` says what this promises of every message: it is taken at most once,
is held until it is stored or lost, or is missed if it was in the log before a
(re)start. `ImplementsFate` is the refinement, with the mapping `FateOf`.

### WebhookServer

One action for each step another goroutine can observe: fasthttp reads a request
into a free context, `Handle` refuses it or starts the offering goroutine, the
answer is written and the context is free again; the offering goroutine queues,
drops, or panics on a closed queue; a worker takes, inputs, and takes any
answer; the signal goroutine stops the server and closes the queues one after the other; main
starts the server and waits. `server` follows fasthttp: `ShutdownWithContext`
returns at once if there is no listener, returns the error of closing the
listener without waiting, and else waits for open connections.

A message that is offered enters the queue (`Enqueue`), goes to a worker that is
waiting for one (`HandOver`), or is dropped. The capacity of the queues may be 0, as
the environment may have it; then `HandOver` is the only way through.

`copies` has, for each message, the copies of it the brokers get. The producer
encodes what the message's slices hold *at that time*, so a copy is named by the
request whose bytes it has. It waits for all replicas and sends again, without
idempotence: a copy may be stored and its acknowledgement lost
(`PublishUnacknowledged`), after which the message may be published by another
copy or given up (`PublishFails`). Hence a message reported failed may be in the
topic, and one reported published may be there several times.

### Delivery, GitHubDelivery, GitLabDelivery

`GitHubDelivery` and `GitLabDelivery` hold functions: the handler's checks and the
message it makes, `prepare...Payload`, and what the columns take. `Delivery` sends one
request of either provider through them, to a consumer of either provider: nothing
ties a program to its topic but the environment. Decimal conversions are modelled by
what they do, with the width of the integers as a constant (`IntMax`,
`UintMax`) and the numerals as another (`Decimal`, any function that gives
different integers different texts; TLC has it be `ToString`); names are "short" or "long" for their column. `LostExactly` names the
requests that are accepted and can never be stored, `ForeignRows` those the wrong
consumer stores, and how little their rows say.

### Pipeline

`Pipeline` EXTENDS `WebhookServer` and instantiates `GroupFate` over the places of one
topic. The step that composes them is the producer's: what `WebhookServer` calls
published is appended to the topic. Two things are added, which neither part has
by itself: a copy that is not acknowledged may be appended late, after the message has been
published by another, was given up, or its process is gone
(`PublishedUnacknowledged`, `late`, `Arrives`); and the death of the server
(`ServerDies`). The group is the abstract one: that the members of
`ConsumerGroup` behave like it is what `ImplementsGroupFate` checks.

### Options, Launch

`Options` holds functions: for each constructor its defaults, the error of every
option, `checkRequired`, and `New`, which folds the options; and the lookup of
the router. `Launch` gives each program a plan, a sequence of things to make and to
do translated from its `Run`, and executes it: an error leaves `Run`, which closes
what is deferred; a loop of attempts sleeps twice as long each time, under the
deadline of `Ping`'s context. `StartConsume` of a group closes the group before it
returns, and `Run` fails with the error of that (`GroupReturn`); the deferred `Close`
of the same group follows. The environment variables of all programs are one
record (`DIAL_TIMEOUT` for `KP_DIAL_TIMEOUT` and `KC_DIAL_TIMEOUT`, and so on).
A nil Kafka client is followed to where it panics, which differs between the three
kinds of programs. The options of one client are given in one order for all
programs: `LastOptionWins` says that the order of different fields is of no
consequence. A list of addresses is the set of what is in it, valid (`"addr"`) or
not, since the code only asks whether one of them is valid; a text is empty
(`Empty`), `"junk"`, or a good one.

## The runs

| Run | Instance | What it shows |
|---|---|---|
| `group_safety` | 2 members, 1 partition, 1 worker each, queue 1, 2 messages, 2 faults | `CommittedAccounted`, `RowsBoundedByAborts`, `NoSendOnClosedQueue`, `CommittedMonotone`, `ImplementsGroupFate`, and no deadlock |
| `group_liveness` | the same with queue 4, which cannot fill, and 1 fault; fair | `ShutdownTerminates`, `Delivered` |
| `partition` | 2 workers, queue 1, 4 messages, 2 faults; fair | `StoredAtMostOnce`, `ReadAccounted`, `DrainedOnReturn`, `ImplementsFate`, `ShutdownTerminates`, `Delivered` |
| `server_safety` | 2 GitHub and 1 GitLab requests, 2 workers each, 2 contexts, queue 1, 1 fault | `OnePlace`, `AnswersMatchWaits`, `AllClearIsClear`, `QueuesOutliveHandlers`, `CopiesAccounted` |
| `server_liveness` | 2 GitHub requests, 1 worker each, 1 context, queue 1, 1 fault; fair | `QueuedIsSettled`, `SignalEnds` |
| `delivery` | integers of 4 bits, all combinations at the limits, consumers of both topics | `RowIsTheRequest`, `LostExactly`, `ForeignRows` |
| `pipeline` | 2 GitHub requests, 1 worker, 1 context, queue 1, 3 places in the topic; a budget of 4, of which a request costs 2 and a fault 1; fair | `OneRowUnlessFaults`, `NoRowBeforeInput`, `AllClearIsInTopic`, `AcceptedEnds` |
| `launch` | the code's 10 attempts, 2 s and 5 s; services up at 0, 1, 4, 5, 9 s or never; 0, 1 or 3 retries; environments with one or two odd values; every constructor without a needed option, with one more, or with two; fair | `BacksOff`, `ServesWhenReady`, `EndsForAReason`, `ClosedInOrder`, `LastOptionWins`, `RoutesAsRegistered`, `Decides` |

The first run of a module also checks its `TypeOK`. Four more runs are expected to
be violated; they are below.

Bounds. `MaxOffset` bounds the messages, `MaxFaults` the faults of every kind
together, interrupts and crashes included, `Budget` requests and faults together,
`Times` the times at which a service may come up. They are enough for what each run is about: two
messages and a queue of one make a claim block with a message behind it; two
faults let a member be evicted, hand over and then die; two contexts for three
requests make some share buffers and others be open together;
the times lie before, at and after the deadline of `Ping`, and on both sides of the
ends of its sleeps; the budget leaves either two requests that compete for the
queue, or one with two faults, lost acknowledgements both if need be. Symmetry is used
in safety runs only. Deadlock is checked in the group's runs, where a member may
be started again as long as there is anything to do; it is not where a program ends: a
process that returned, a delivery that is stored, a program that gave up.

Fairness. Weak fairness of every goroutine step: the Go scheduler is fair. A
select among ready cases chooses at random, so a case that is ready again and
again is chosen: strong fairness of the reader's return in `PartitionConsumer`.
Handlers return and their answers are written or time out; the producer answers
for each message after a bounded number of retries; Kafka forms groups and
delivers; some member of a group serves (`Pipeline`), and a program that starts is not
stopped before it serves (`Launch`). Nothing is assumed of requests, signals, faults, crashes or restarts.

## Disagreements found

Four runs are expected to be violated. Each checks what a comment, a test or a
message of the repository says.

- `group_shutdown_blocked`: an interrupted group member with a full queue hangs
  for ever (`kafkaconsumergroup.go:108`, `:178`, `:212`).
- `partition_reports`: the shared `err` makes a worker report a message as stored
  that was not (`kafkaconsumer.go:126`).
- `server_buffers`: the message keeps slices of buffers that another request
  overwrites (`githubwebhookhandler.go:146`, `gitlabwebhookhandler.go:147`).
- `server_early_signal`: a signal before the listener is open leaves a server that
  cannot be stopped (`main.go:204`).

These are in the models as the code has them, without a run of their own:

- a group's message is acknowledged before it is stored
  (`kafkaconsumergroup.go:110`; `SEQUENCE_DIAGRAMS.md:70-74` says after):
  `ClaimMark` needs no worker, and `CommittedAccounted` counts `lost`;
- a message that finds its queue full is dropped although its request was
  accepted (`githubwebhookhandler.go:167`): `Drop`;
- the error of `Start` is tested through another variable (`main.go:212`):
  after `ListenFails` the process waits for a signal;
- `MaxRetries` 0 is accepted and gives a nil client and no error
  (`kafkaproducer.go:89`, `:218`): the programs panic, which `EndsForAReason` names;
- a timeout of zero is accepted although its message says "must > 0"
  (`kafkaproducer.go:127-130`), and sarama refuses it: `Refused`;
- a second method of a path replaces the first (`webhookserver.go:163`), although the
  router looks for the method in a map: `RoutesAsRegistered`;
- the pool of a `Ping` that failed is not closed (`cmd/githubconsumer/main.go:64-67`):
  `ClosedInOrder` excepts it;
- the sarama group is closed twice, by `StartConsume` (`kafkaconsumergroup.go:214`) and
  by what `Run` defers (`cmd/githubconsumergroup/main.go:87`); sarama takes the
  second `Close` for nothing: `GroupReturn`;
- a consumer of the wrong topic may store rows without content: `ForeignRows`.

## What is proved

Constants are any sets and numbers that satisfy the `ASSUME`s of the modules,
which are listed at the end of this section. Members, partitions, messages,
requests, faults, options and attempts are not bounded otherwise.

**ConsumerGroupProofs.** `TypeCorrect`: `TypeOK` needs `PosInLog`, that a claim
between its receive and its mark is at a message of the log.
`NeverSendOnClosedQueue` and `CommitsMonotone` rest on what is known of a session:
claims exist only in one, marks are never behind the offset a session Kafka
honours began at, and two members Kafka honours have no partition in common.
`CommittedNeverVanish` strengthens `CommittedAccounted` to the marks and positions
of every session, since what is committed was marked, and what was marked was
queued.

**PartitionConsumerProofs.** `TypeCorrect`, and `AtMostOnce`: a message has at most
one row because everything below the position is in exactly one place (queue,
hand of the reader, hands of one worker, or stored), and everything at or above it
has no row yet; a restart only moves the position forward. `Drained`: a worker
returns only from a closed and empty queue, a closed queue gets nothing more, and
`Consume` waits for all of them. `ReadAreAccounted`: a step that stops holding a message
stores it or lets go of it, a death lets go of everything held, and a restart counts
what it skips as missed. `Implements`: every step is a step of `MessageFate` or
changes no fate. What a step does to the set of held messages (lemmas `Held...`)
gives the messages whose fate it changes (`Goes...`), and `OnceInv`, the invariant
behind `AtMostOnce`, gives the fate they had.

**GroupFateProofs.** `RowsBounded` and `ImplementsGroup` rest on one count. Of a
message, `Takes` adds up the rows and copies there are, one more for every evicted
member whose claim has yet to come to it, and one if Kafka may still give it to
somebody, that is if it is neither committed nor marked by an owner's session. The
invariant `TakesBounded` says that this never exceeds the aborted sessions by more
than one. It is inductive where the plain bound on rows is not: a step that
copies a message uses up one of the takes to come (`SenderCounted`), an eviction or a death
adds one and counts as an abort, and all other steps add none. The refinement
needs the count as the guard of GroupFate's take, and `CommittedNeverVanish`'s
invariant for the order of takes and for what is committed. Every member's step
then maps to a step of the abstract group or to none.

**WebhookServerProofs.** One inductive invariant, in parts that depend on one
another as its head says. `EveryMessageInOnePlace` follows the messages through
queues and hands. `AnswersAlwaysMatch` counts: workers that wait are as many
as messages in flight and answers not taken, because a step changes both counts
alike. `AllClearIsTrue` puts the two together with what a worker leaves behind
when it returns. `HandlersBeforeQueues` needs the agreement of server and signal
goroutine about the shutdown; that only a goroutine a handler has left behind can
panic follows from where `EnqueuePanics` finds its message. `CopiesAlwaysAccounted`
adds what `copies` is to the fate of each message and to the faults so far, and
that an open request owns the buffers of its context (`BuffersOwned`), so that only
requests read after its answer can have put other bytes there.

**PipelineProofs.** A step of the pipeline is a step of the server, the death of
its process, or a step it does not see (`ServerView`), so the server's invariant
carries over whole. What is added: a late copy is one the server's `copies` has, and
the topic and the late copies are together as long as the published requests and
the faults allow; what was ever sent stays sent, so whatever is in the topic was given
to the producer; what is published is in the topic; and the group has only what is
there. The appends of a request, its late copies and the aborts together have cost as
many faults, but for the one append the producer heard of; with GroupFate's
bound on each place this is `DuplicatesCostFaults`. `AllClearReachesTopic` is the
server's `AllClearInv` read off the topic, and holds of what was published at any
time, also of a killed process.

**DeliveryProofs.** The functions first: what is written as a numeral is read as
the same number, from each place a payload may have it; the first place that
gives a value decides; a row is made, and taken by the table, if and only if the
request is not `NeverStorable`. The invariant then only says which function made
the message and the row. The four theorems hold for integers of any width and
for any set of requests of the type; the two consumers of the wrong topic are cases
of their own.

**OptionsProofs, LaunchProofs.** `OptionsProofs` is about `New` for options of any
number and order: the folds are shown to leave in a field what the last option for
it said, and in the router what was registered last, by induction over the options
with sets (a least counterexample, `LeastNatural`). `LaunchProofs` has one
invariant, whose parts are: where the plan is (`Placed`) and what has been made
(`NewsInv`, for `LastOptionsWin` and `RoutesRegistered`); what is deferred, from how
far the plan is followed, and what is closed (`DeferInv`, for
`ResourcesClosedInOrder`); that a loop has
slept as its attempts say and makes no more of them than it may (`LoopInv`, for
`LoopsBackOff` and `LaunchTypeCorrect`); and what a client and a pool say of the
world, and errors and the clock of the services (`StartInv`). For
`ServesOnlyWhenReady` and `EndsWithAReason` it is also shown that the environments in
which everything can be made are those `EnvGood` describes (`EnvGoodSays`):
option by option, what the ten constructors accept.

The assumptions are on constants and named in the modules that declare them:
members of a group, its workers, requests and the server's workers are finitely
many; the consumers' queues have a capacity, that of the server's may be 0, and the
server and the partition consumer have workers;
numerals are injective; unsigned numbers are twice as wide as signed ones;
timeouts, retries and the backoff of `Ping` are positive, as the code's
are; the environment has integers and valid addresses where `getenv` only returns
such; a caller's options are of the types Go lets them have; and the model values
(`NoRequest`, `Idle`, `NULL`, `Never`, ...) are none of the values they stand beside.

**Only model-checked** is liveness under fairness, which is out of the prover's
reach: `ShutdownTerminates`, `Delivered`, `QueuedIsSettled`, `SignalEnds`,
`AcceptedEnds` and `Decides`; and that the model can deadlock nowhere. All safety
invariants, action properties and refinements that a passing run checks are also
proved. The provers cannot use induction theorems over a predicate, so no theorem
speaks of the values of recursive definitions except by the set argument above,
with which `PowerOfTwo` is shown to be what its definition says.

## Not modelled

The migrator (one call of a library; its result, the tables, is used in the
delivery modules), the interface declarations, the container files and scripts.
Inside modelled parts: the HMAC (a request is signed or not), JSON (a body has the
expected shape or not), log messages, the answer of the health check, the
doubling of a backoff beyond 64 bits (decades of sleep), a topic in `Pipeline` with
more than one partition or both providers, and the smallest signed number, which
no provider sends.

## Plan

Written in this order, the most important first: the consumer group; the partition
consumer with its abstract specification; the webhook server; the two deliveries;
configuration and the start of the programs; the theorems of the three processes;
the abstract group and the pipeline; the theorems about these, about the deliveries
and about the start of the programs.

Next:

1. What liveness rests on, as safety theorems: that the measures which the fair
   steps of a shutdown decrease (messages queued and held, workers not returned)
   are never increased after the queue is closed.
2. Rows from end to end: the refinement of `Pipeline`'s abstract group by
   `ConsumerGroup` composed with the server, in one theorem.
