------------------------------ MODULE MCLaunch ------------------------------
(* Environments and calls for TLC: what the programs are given, with one or   *)
(* two of the values at or beyond a limit; and the constructors called with   *)
(* the options they need, without one of them, or with two more.              *)
EXTENDS Launch

GoodEnv ==
  [ parses |-> TRUE, LOG_LEVEL |-> "INFO", KCP_BROKERS |-> {"addr"},
    DIAL_TIMEOUT |-> 30, READ_TIMEOUT |-> 30, WRITE_TIMEOUT |-> 30,
    BACKOFF |-> 2, MAX_RETRIES |-> 10, KC_TOPIC |-> "github", KC_PARTITION |-> 0,
    KCG_NAME |-> "name", DATABASE_URL |-> "dsn", LISTEN_ADDR |-> ":8000",
    SERVER_READ_TIMEOUT |-> 5, SERVER_WRITE_TIMEOUT |-> 10, SERVER_IDLE_TIMEOUT |-> 15,
    GITHUB_HMAC_SECRET |-> "secret", GITLAB_HMAC_SECRET |-> "secret",
    GITHUB_QUEUE_SIZE |-> 100, GITLAB_QUEUE_SIZE |-> 100 ]

\* Good environments, whose services come when they come.
MCEnvs == { [GoodEnv EXCEPT !.MAX_RETRIES = n, !.BACKOFF = b] : n \in {0, 1, 3}, b \in {1, 2} }

Odd ==
  [ LOG_LEVEL |-> {"junk"}, KCP_BROKERS |-> { {"junk"}, {"junk", "addr"} },
    DIAL_TIMEOUT |-> {-1, 0}, READ_TIMEOUT |-> {-1, 0}, WRITE_TIMEOUT |-> {-1, 0},
    BACKOFF |-> {-1, 0, Minute, Minute + 1}, MAX_RETRIES |-> {-1, 0, 1, MaxUint8 + 1},
    KC_TOPIC |-> {"", "gitlab", "junk"}, KC_PARTITION |-> {-1, 3, MaxInt32},
    KCG_NAME |-> {""}, DATABASE_URL |-> {"", "junk"},
    SERVER_READ_TIMEOUT |-> {-1, 0}, SERVER_WRITE_TIMEOUT |-> {-1}, SERVER_IDLE_TIMEOUT |-> {-1},
    GITHUB_HMAC_SECRET |-> {""}, GITLAB_HMAC_SECRET |-> {""},
    GITHUB_QUEUE_SIZE |-> {-1, 0}, GITLAB_QUEUE_SIZE |-> {-1} ]

Pairing == {"DIAL_TIMEOUT", "BACKOFF", "MAX_RETRIES", "KC_PARTITION", "GITHUB_QUEUE_SIZE", "KC_TOPIC"}

OddIn(e, fields) == UNION { { [e EXCEPT ![f] = v] : v \in Odd[f] } : f \in fields }

MCOddEnvs ==
  {[GoodEnv EXCEPT !.parses = FALSE]} \cup OddIn(GoodEnv, DOMAIN Odd)
    \cup UNION { OddIn(e, Pairing) : e \in OddIn([GoodEnv EXCEPT !.MAX_RETRIES = 2], Pairing) }

-----------------------------------------------------------------------------

OptionsOf(fields, values) == { Option(f, v) : f \in fields, v \in values }

ClientMenu ==
  OptionsOf({"Logger", "FactoryFunc"}, {"nil", "fn"})
    \cup OptionsOf({"KafkaBrokers"}, { {"addr"}, {"junk"}, {"junk", "addr"} })
    \cup OptionsOf({"DialTimeout", "WriteTimeout"}, {-1, 0, 5})
    \cup OptionsOf({"Backoff"}, {-1, 0, 1, Minute, Minute + 1})
    \cup OptionsOf({"MaxRetries"}, {-1, 0, MaxUint8, MaxUint8 + 1})

ConsumingMenu ==
  ClientMenu
    \cup OptionsOf({"ProcessMessageFunc"}, {"nil", "fn"})
    \cup OptionsOf({"Topic"}, {"", "gitlab", "junk"})

HandlerMenu ==
  OptionsOf({"Logger", "MessageQueue"}, {"nil", "given"})
    \cup OptionsOf({"Topic"}, {"", "gitlab", "junk"}) \cup OptionsOf({"Secret"}, {"", "other"})

StorageMenu == OptionsOf({"Logger"}, {"nil", "given"}) \cup OptionsOf({"DatabaseDSN"}, {"", "other", "junk"})

ServerMenu ==
  OptionsOf({"Logger"}, {"nil", "given"})
    \cup OptionsOf({"ListenAddr"}, {"", "junk", ":80"}) \cup OptionsOf({"ReadTimeout", "IdleTimeout"}, {-1, 0, 1})
    \cup OptionsOf({"KafkaBrokers"}, { {"junk"}, {"junk", "addr"} })
    \cup OptionsOf({"KafkaGitHubTopic"}, {"", "gitlab", "junk"})
    \cup { HandleRoute(m, p, h) : m \in {"", "GET", "POST", "junk"}, p \in {"", "/", "/healthz"},
                                  h \in {"nil", "given"} }

Menu ==
  [ logger |-> OptionsOf({"Level"}, {"nil", "", "junk", "DEBUG", "WARN"})
                 \cup OptionsOf({"Writer"}, {"nil", "given"}),
    health |-> OptionsOf({"Version"}, {"", "other"}),
    githubhandler |-> HandlerMenu, gitlabhandler |-> HandlerMenu,
    githubstorage |-> StorageMenu, gitlabstorage |-> StorageMenu,
    server |-> ServerMenu, producer |-> ClientMenu,
    consumer |-> ConsumingMenu \cup OptionsOf({"Partition"}, {-1, 0, MaxInt32}),
    group    |-> ConsumingMenu
                   \cup OptionsOf({"KafkaGroupName"}, {"", "other"})
                   \cup OptionsOf({"KafkaVersion"}, {"3.6.0", "junk"})
                   \cup OptionsOf({"Handler"}, {"nil", "fn"})
                   \cup OptionsOf(Periods \cup {"KeepAlive"}, {-1, 0, 5}) ]

\* The options without which New fails.
Base ==
  [ logger |-> << >>, health |-> << Option("Version", "version") >>,
    githubhandler |-> MakeHandler("github", "secret").options,
    gitlabhandler |-> MakeHandler("gitlab", "secret").options,
    githubstorage |-> << Option("Logger", "log"), Option("DatabaseDSN", "dsn") >>,
    gitlabstorage |-> << Option("DatabaseDSN", "dsn"), Option("Logger", "log") >>,
    server   |-> << Option("Logger", "log"), Option("KafkaGitHubTopic", "github"),
                    HandleRoute("GET", "/healthz", "health") >>,
    producer |-> << Option("Logger", "log") >>,
    consumer |-> << Option("Logger", "log"), Option("ProcessMessageFunc", "store"),
                    Option("Topic", "github") >>,
    group    |-> << Option("Logger", "log"), Option("ProcessMessageFunc", "store"),
                    Option("Topic", "github"), Option("KafkaGroupName", "name") >> ]

MCCalls ==
  [ c \in Constructors |->
      { RemoveAt(Base[c], i) : i \in DOMAIN Base[c] }
        \cup { Base[c] \o << o, p >> : o \in Menu[c], p \in Menu[c] }
        \cup { << o >> \o Base[c] : o \in Menu[c] } ]
=============================================================================
