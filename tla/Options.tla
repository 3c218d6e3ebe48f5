------------------------------ MODULE Options ------------------------------
(***************************************************************************)
(* How everything in the programs is made: each New starts from defaults,  *)
(* applies its options in order until one reports an error, and then       *)
(* checks, in an order of its own, what has no default.                    *)
(*                                                                         *)
(* An option is a field and the value for it. Durations are in seconds. Of *)
(* an address list only matters whether there are valid addresses ("addr") *)
(* in it and others ("junk"): it is a set of these. Any other text that is *)
(* not valid is "junk", too. Launch puts these functions to work.          *)
(***************************************************************************)
EXTENDS Integers, Sequences, SequencesExt

Handlers     == {"githubhandler", "gitlabhandler"}
Storages     == {"githubstorage", "gitlabstorage"}
Clients      == {"producer", "consumer", "group"}
Constructors == {"logger", "health", "server"} \cup Handlers \cup Storages \cup Clients

Minute   == 60
MaxUint8 == 255
MaxInt32 == 2147483647

Topics  == {"github", "gitlab", "bitbucket"}
Levels  == {"DEBUG", "INFO", "WARN", "ERROR"}
Methods == {"GET", "HEAD", "POST", "PUT", "PATCH", "DELETE", "CONNECT", "OPTIONS", "TRACE"}

Timeouts == {"DialTimeout", "ReadTimeout", "WriteTimeout", "IdleTimeout", "KeepAlive"}
Periods  == {"MetadataRefreshFreq", "SessionTimeout", "HeartbeatInterval", "RebalanceTimeout"}

-----------------------------------------------------------------------------
(***************************************************************************)
(* Errors: "required" (ErrValueRequired), "invalid" (ErrInvalid), "parse"  *)
(* (of a library), or "ok" if there is none. "nil" stands for nil, which   *)
(* no text is.                                                             *)
(***************************************************************************)

\* The empty text.
Empty == ""

Required(missing) == IF missing THEN "required" ELSE "ok"
Valid(valid)      == IF valid THEN "ok" ELSE "invalid"

\* Of several checks the first that fails counts.
FirstError(checks) ==
  LET failed == { i \in DOMAIN checks : checks[i] # "ok" }
  IN  IF failed = {} THEN "ok" ELSE checks[Min(failed)]

Absent(v) == v \in {"nil", Empty}

\* Mutant of ValidAddresses: one that is not valid spoils the list.
ValidAddressesAll(brokers) == IF "junk" \in brokers THEN {} ELSE brokers

\* AddFromString drops the addresses that are not valid.
ValidAddresses(brokers) == brokers \cap {"addr"}

\* The options of the logger: a level, or its name, and a writer.
LoggerError(field, v) ==
  FirstError(<< Required(Absent(v)), Valid(field = "Writer" \/ v \in Levels) >>)

\* The options of a handler, of a storage and of the health check.
HandlerError(field, v) ==
  IF field = "Topic" THEN Valid(v \in Topics) ELSE Required(Absent(v))

StorageError(field, v) == Required(Absent(v))

\* WithHTTPHandler(method, path, handler)
RouteError(route) ==
  FirstError(<< Required(route.method = Empty), Valid(route.method \in Methods),
                Required(route.path = Empty), Required(route.handler = "nil") >>)

\* The options of the server.
ServerError(field, v) ==
  CASE field = "Logger"           -> Required(Absent(v))
    [] field = "Handlers"         -> RouteError(v)
    [] field = "ListenAddr"       -> FirstError(<< Required(Absent(v)), Valid(v # "junk") >>)
    [] field \in Timeouts         -> Valid(v >= 0)
    [] field = "KafkaBrokers"     -> Valid(ValidAddresses(v) # {})
    [] field = "KafkaGitHubTopic" -> Valid(v \in Topics)

\* The options of the Kafka clients.
ClientError(field, v) ==
  CASE field = "Topic"        -> Valid(v \in Topics)
    [] field = "KafkaVersion" -> Valid(v # "junk")
    [] field = "KafkaBrokers" -> Valid(ValidAddresses(v) # {})
    [] field \in Timeouts     -> Valid(v >= 0)
    [] field \in Periods      -> Valid(v > 0)
    [] field = "Backoff"      -> FirstError(<< Required(v = 0), Valid(v \in 1 .. Minute) >>)
    [] field = "MaxRetries"   -> Valid(v \in 0 .. MaxUint8)
    [] field = "Partition"    -> Valid(v \in 0 .. MaxInt32)
    [] OTHER                  -> Required(Absent(v))

ErrorOf(c, field, v) ==
  CASE c = "logger"                 -> LoggerError(field, v)
    [] c \in Handlers               -> HandlerError(field, v)
    [] c \in Storages \cup {"health"} -> StorageError(field, v)
    [] c = "server"                 -> ServerError(field, v)
    [] c \in Clients                -> ClientError(field, v)

-----------------------------------------------------------------------------
(***************************************************************************)
(* Defaults.                                                               *)
(***************************************************************************)

\* The fields of f, and those of g besides.
Extend(f, g) == [ x \in DOMAIN f \cup DOMAIN g |-> IF x \in DOMAIN f THEN f[x] ELSE g[x] ]

HandlerDefaults == [ Logger |-> "nil", Topic |-> Empty, Secret |-> Empty, MessageQueue |-> "nil" ]

StorageDefaults == [ Logger |-> "nil", DatabaseDSN |-> Empty ]

ServerDefaults ==
  [ Logger |-> "nil", Handlers |-> << >>, KafkaGitHubTopic |-> Empty, KafkaBrokers |-> {"addr"},
    ListenAddr |-> ":8000", ReadTimeout |-> 5, WriteTimeout |-> 10, IdleTimeout |-> 15 ]

ProducerDefaults ==
  [ Logger |-> "nil", FactoryFunc |-> "sarama", KafkaBrokers |-> {"addr"},
    DialTimeout |-> 30, ReadTimeout |-> 30, WriteTimeout |-> 30,
    MaxRetries |-> 10, Backoff |-> 2 ]

ConsumerDefaults ==
  Extend([ ProcessMessageFunc |-> "nil", Topic |-> Empty, Partition |-> 0 ], ProducerDefaults)

GroupDefaults ==
  Extend([ ProcessMessageFunc |-> "nil", Topic |-> Empty, KafkaGroupName |-> Empty,
           Handler |-> "nil", KafkaVersion |-> "3.9.0",
           KeepAlive |-> 30, MetadataRefreshFreq |-> 60,
           SessionTimeout |-> 30, HeartbeatInterval |-> 10, RebalanceTimeout |-> 60 ],
         ProducerDefaults)

Defaults(c) ==
  CASE c = "logger"      -> [ Level |-> "nil", Writer |-> "nil" ]
    [] c = "health"      -> [ Version |-> Empty ]
    [] c \in Handlers    -> HandlerDefaults
    [] c \in Storages    -> StorageDefaults
    [] c = "server"      -> ServerDefaults
    [] c = "producer"    -> ProducerDefaults
    [] c = "consumer"    -> ConsumerDefaults
    [] c = "group"       -> GroupDefaults

-----------------------------------------------------------------------------
(***************************************************************************)
(* The constructors.                                                       *)
(***************************************************************************)

\* What an option leaves in a field that had old: MaxRetries is a uint8, the
\* addresses are the valid ones, and a route replaces all the methods its path had.
Stored(old, field, v) ==
  CASE field = "KafkaBrokers" -> ValidAddresses(v)
    [] field = "MaxRetries"   -> v % (MaxUint8 + 1)
    [] field = "Handlers"     -> Extend([ path \in {v.path} |-> v ], old)
    [] OTHER                  -> v

\* Mutant of Apply: an option does not replace what is not the default.
ApplyFirst(c, config, option) ==
  [config EXCEPT ![option.field] =
     IF @ = Defaults(c)[option.field] THEN Stored(@, option.field, option.value) ELSE @]

\* option(config): what an option that reports no error does.
Apply(c, config, option) ==
  [config EXCEPT ![option.field] = Stored(@, option.field, option.value)]

\* checkRequired of a storage, and ParseConfig of the DSN.
StorageChecks(config) ==
  << Required(config.Logger = "nil"), Required(config.DatabaseDSN = Empty),
     IF config.DatabaseDSN = "junk" THEN "parse" ELSE "ok" >>

\* checkRequired of a handler, and of the server.
HandlerChecks(config) ==
  << Required(config.Logger = "nil"), Valid(config.Topic \in Topics),
     Required(config.Secret = Empty), Required(config.MessageQueue = "nil") >>

ServerChecks(config) ==
  << Required(config.Logger = "nil"), Required(DOMAIN config.Handlers = {}),
     Valid(config.KafkaGitHubTopic \in Topics) >>

\* checkRequired of the clients.
ClientChecks(c, config) ==
  << Required(config.Logger = "nil"),
     Required(c # "producer" /\ config.ProcessMessageFunc = "nil"),
     Required(c = "group" /\ config.KafkaGroupName = Empty),
     Valid(c = "producer" \/ config.Topic \in Topics) >>

Checks(c, config) ==
  CASE c = "logger"   -> << >>
    [] c = "health"   -> << Required(config.Version = Empty) >>
    [] c \in Handlers -> HandlerChecks(config)
    [] c \in Storages -> StorageChecks(config)
    [] c = "server"   -> ServerChecks(config)
    [] c \in Clients  -> ClientChecks(c, config)

\* What New fills in itself once nothing is missing.
Completed(c, config) ==
  CASE c = "logger" ->
         [ Level  |-> IF config.Level = "nil" THEN "DEBUG" ELSE config.Level,
           Writer |-> IF config.Writer = "nil" THEN "stdout" ELSE config.Writer ]
    [] c = "group" -> [config EXCEPT !.Handler = IF @ = "nil" THEN "consumer" ELSE @]
    [] OTHER -> config

\* Options as they can be written for a constructor: each for a field it has.
OptionsFor(c, options) ==
  /\ Len(options) \in Nat /\ DOMAIN options = 1 .. Len(options)
  /\ \A i \in DOMAIN options : options[i].field \in DOMAIN Defaults(c)

\* The fields New fills in itself if no option has, and those it needs.
Filled == {"Level", "Writer", "Handler"}
Needed == {"Logger", "MessageQueue", "Secret", "Topic", "DatabaseDSN", "Version",
           "ProcessMessageFunc", "KafkaGroupName", "KafkaGitHubTopic", "ListenAddr"}

\* The options' loop: the configurations it goes through, from the defaults on.
Configs(c, options) ==
  LET config[i \in 0 .. Len(options)] ==
        IF i = 0 THEN Defaults(c) ELSE Apply(c, config[i - 1], options[i])
  IN  config

\* What the options make of the defaults.
Applied(c, options) == Configs(c, options)[Len(options)]

\* New(options...), up to where it reaches out for anything. An option's error
\* counts before all checks, and with an error nothing is made.
New(c, options) ==
  LET errors  == [ i \in DOMAIN options |-> ErrorOf(c, options[i].field, options[i].value) ]
      checks  == Checks(c, Applied(c, options))
      result  == IF FirstError(errors) # "ok" THEN FirstError(errors) ELSE FirstError(checks)
  IN  [ result |-> result,
        config |-> IF result = "ok" THEN Completed(c, Applied(c, options)) ELSE << >> ]

-----------------------------------------------------------------------------

\* Mutant of Route: a path alone selects its handler.
RouteByPath(config, method, path) ==
  IF path \in DOMAIN config.Handlers THEN config.Handlers[path].handler ELSE "404"

\* The router of the server: the handler of a request, or the status it gets.
Route(config, method, path) ==
  CASE path \notin DOMAIN config.Handlers         -> "404"
    [] path \in DOMAIN config.Handlers
       /\ config.Handlers[path].method # method    -> "405"
    [] OTHER -> config.Handlers[path].handler
=============================================================================
