---------------------------- MODULE OptionsProofs ----------------------------
(***************************************************************************)
(* Proofs about Options: what the loop over the options does to any field, *)
(* and to any route, for any number of options in any order.               *)
(***************************************************************************)
EXTENDS Options, WellFoundedInduction, TLAPS

-----------------------------------------------------------------------------
(***************************************************************************)
(* Induction, over a set of natural numbers.                               *)
(***************************************************************************)

\* A set of natural numbers that is not empty has a least one.
LEMMA LeastNatural ==
  ASSUME NEW T \in SUBSET Nat, T # {}
  PROVE  \E m \in T : \A k \in T : m <= k
<1> DEFINE R == OpToRel(<, Nat)
<1>1. IsWellFoundedOn(R, Nat)
  BY NatLessThanWellFounded
<1>2. \A x, y \in Nat : x < y => << x, y >> \in R
  BY DEF OpToRel
<1> HIDE DEF R
<1>3. \E x \in T : \A y \in T : ~(<< y, x >> \in R)
  BY <1>1, WFMin
<1>4. PICK m \in T : \A k \in T : ~(<< k, m >> \in R)
  BY <1>3
<1>5. \A k \in T : m \in Nat /\ k \in Nat /\ ~(k < m)
  BY <1>2, <1>4
<1>6. \A k \in T : m <= k
  BY <1>5
<1> QED BY <1>6

\* A set with 0 that has the next number for each that it has before n, has
\* all numbers up to n.
LEMMA UpTo ==
  ASSUME NEW n \in Nat, NEW S, 0 \in S,
         \A i \in 0 .. n : i < n /\ i \in S => i + 1 \in S
  PROVE  \A i \in 0 .. n : i \in S
<1> DEFINE T == (0 .. n) \ S
<1>1. ASSUME T # {} PROVE FALSE
  <2>0. T \in SUBSET Nat
    OBVIOUS
  <2> HIDE DEF T
  <2>1. PICK m \in T : \A k \in T : m <= k
    BY <1>1, <2>0, LeastNatural
  <2> USE DEF T
  <2>2. m \in 0 .. n /\ m # 0 /\ m \notin S
    BY <2>1
  <2>3. m - 1 \in 0 .. n /\ m - 1 < n /\ m - 1 < m
    BY <2>2
  <2>4. m - 1 \in S
    BY <2>1, <2>3
  <2> QED BY <2>2, <2>3, <2>4
<1> QED BY <1>1

-----------------------------------------------------------------------------
(***************************************************************************)
(* Errors.                                                                 *)
(***************************************************************************)

Errors == {"required", "invalid", "parse"}

\* FirstError is "ok" if all checks are, and otherwise what one of them is.
LEMMA FirstErrorIs ==
  ASSUME NEW n \in Nat, NEW checks, DOMAIN checks = 1 .. n
  PROVE  /\ FirstError(checks) = "ok" <=> \A i \in 1 .. n : checks[i] = "ok"
         /\ FirstError(checks) # "ok" => \E i \in 1 .. n : FirstError(checks) = checks[i]
<1> DEFINE failed == { i \in DOMAIN checks : checks[i] # "ok" }
<1>1. CASE failed = {}
  BY <1>1 DEF FirstError
<1>2. CASE failed # {}
  <2>0. failed \in SUBSET Nat
    OBVIOUS
  <2> HIDE DEF failed
  <2>1. \E m \in failed : \A k \in failed : m <= k
    BY <1>2, <2>0, LeastNatural
  <2> USE DEF failed
  <2>2. Min(failed) \in failed
    BY <2>1 DEF Min
  <2>3. FirstError(checks) = checks[Min(failed)]
    BY <1>2 DEF FirstError
  <2> QED BY <2>2, <2>3
<1> QED BY <1>1, <1>2

-----------------------------------------------------------------------------
(***************************************************************************)
(* The loop.                                                               *)
(***************************************************************************)

\* f is a function that holds the first n configurations.
Prefix(f, c, options, n) ==
  f = [ i \in 0 .. n |-> IF i = 0 THEN Defaults(c) ELSE Apply(c, f[i - 1], options[i]) ]

\* The loop has a result at every number of options.
LEMMA PrefixExists ==
  ASSUME NEW c, NEW options, NEW n \in Nat
  PROVE  \E f : Prefix(f, c, options, n)
<1> DEFINE S == { k \in Nat : \E f : Prefix(f, c, options, k) }
<1>1. 0 \in S
  <2> DEFINE f == [ i \in 0 .. 0 |-> Defaults(c) ]
  <2>1. Prefix(f, c, options, 0)
    BY DEF Prefix
  <2> QED BY <2>1
<1>2. ASSUME NEW k \in 0 .. n, k < n, k \in S PROVE k + 1 \in S
  <2>1. PICK f : Prefix(f, c, options, k)
    BY <1>2
  <2> DEFINE g == [ i \in 0 .. k + 1 |-> IF i = k + 1 THEN Apply(c, f[k], options[k + 1]) ELSE f[i] ]
  <2>2. \A i \in 0 .. k : f[i] = IF i = 0 THEN Defaults(c) ELSE Apply(c, f[i - 1], options[i])
    BY <2>1 DEF Prefix
  <2>3. ASSUME NEW i \in 0 .. k + 1
        PROVE  g[i] = IF i = 0 THEN Defaults(c) ELSE Apply(c, g[i - 1], options[i])
    <3>1. CASE i = k + 1
      BY <3>1
    <3>2. CASE i # k + 1
      <4>1. i \in 0 .. k /\ g[i] = f[i] /\ (i # 0 => i - 1 \in 0 .. k + 1 /\ g[i - 1] = f[i - 1])
        BY <3>2
      <4> QED BY <4>1, <2>2
    <3> QED BY <3>1, <3>2
  <2>4. Prefix(g, c, options, k + 1)
    BY <2>3 DEF Prefix
  <2> QED BY <2>4
<1> HIDE DEF S
<1>3. n \in S
  BY <1>1, <1>2, UpTo
<1> QED BY <1>3 DEF S

\* What the loop goes through.
LEMMA ConfigsIs ==
  ASSUME NEW c, NEW options, Len(options) \in Nat
  PROVE  /\ Configs(c, options)[0] = Defaults(c)
         /\ \A i \in 1 .. Len(options) :
              Configs(c, options)[i] = Apply(c, Configs(c, options)[i - 1], options[i])
<1>1. \E f : Prefix(f, c, options, Len(options))
  BY PrefixExists
<1>2. Prefix(Configs(c, options), c, options, Len(options))
  BY <1>1 DEF Configs, Prefix
<1> HIDE DEF Configs
<1>3. \A i \in 0 .. Len(options) :
        Configs(c, options)[i] =
          IF i = 0 THEN Defaults(c) ELSE Apply(c, Configs(c, options)[i - 1], options[i])
  BY <1>2 DEF Prefix
<1> QED BY <1>3

\* An option changes its own field and no other.
LEMMA ApplyIs ==
  ASSUME NEW c, NEW config, NEW option, option.field \in DOMAIN config
  PROVE  /\ DOMAIN Apply(c, config, option) = DOMAIN config
         /\ Apply(c, config, option)[option.field] =
              Stored(config[option.field], option.field, option.value)
         /\ \A f \in DOMAIN config : f # option.field => Apply(c, config, option)[f] = config[f]
BY DEF Apply

\* No option adds a field or takes one away.
LEMMA FieldsKept ==
  ASSUME NEW c, NEW options, OptionsFor(c, options)
  PROVE  \A k \in 0 .. Len(options) : DOMAIN Configs(c, options)[k] = DOMAIN Defaults(c)
<1> DEFINE n == Len(options)
           C == Configs(c, options)
           S == { k \in 0 .. n : DOMAIN C[k] = DOMAIN Defaults(c) }
<1>0. n \in Nat /\ DOMAIN options = 1 .. n
  BY DEF OptionsFor
<1>1. C[0] = Defaults(c) /\ \A i \in 1 .. n : C[i] = Apply(c, C[i - 1], options[i])
  BY <1>0, ConfigsIs
<1> HIDE DEF C, n
<1>2. 0 \in S
  BY <1>0, <1>1
<1>3. ASSUME NEW k \in 0 .. n, k < n, k \in S PROVE k + 1 \in S
  <2>1. k + 1 \in 1 .. n /\ (k + 1) - 1 = k
    BY <1>0, <1>3
  <2>2. C[k + 1] = Apply(c, C[k], options[k + 1])
    BY <1>1, <2>1
  <2>3. DOMAIN C[k + 1] = DOMAIN C[k]
    BY <2>2 DEF Apply
  <2> QED BY <1>0, <1>3, <2>1, <2>3
<1> HIDE DEF S
<1>4. \A k \in 0 .. n : k \in S
  BY <1>0, <1>2, <1>3, UpTo
<1> QED BY <1>4 DEF S, C, n

\* Of the first k options, the i-th is the last for field f.
LastOf(options, k, f, i) ==
  /\ i \in 1 .. k /\ options[i].field = f
  /\ \A j \in 1 .. k : options[j].field = f => j <= i

\* What config has in field f after k options, if it is not Handlers.
Settled(c, options, k, f, config) ==
  \/ /\ \A j \in 1 .. k : options[j].field # f
     /\ config[f] = Defaults(c)[f]
  \/ \E i \in 1 .. k :
       LastOf(options, k, f, i) /\ config[f] = Stored(Defaults(c)[f], f, options[i].value)

LEMMA SettledStep ==
  ASSUME NEW c, NEW options, NEW k \in Nat, NEW f, f # "Handlers", NEW config,
         f \in DOMAIN config, options[k + 1].field \in DOMAIN config,
         Settled(c, options, k, f, config)
  PROVE  Settled(c, options, k + 1, f, Apply(c, config, options[k + 1]))
<1> DEFINE option == options[k + 1]
           next == Apply(c, config, option)
<1>0. k + 1 \in 1 .. k + 1 /\ \A j \in 1 .. k + 1 : j = k + 1 \/ j \in 1 .. k
  OBVIOUS
<1>1. CASE option.field = f
  <2>1. next[f] = Stored(config[f], f, option.value)
    BY <1>1, ApplyIs
  <2>2. Stored(config[f], f, option.value) = Stored(Defaults(c)[f], f, option.value)
    BY DEF Stored
  <2>3. LastOf(options, k + 1, f, k + 1)
    BY <1>1, <1>0 DEF LastOf
  <2> QED BY <1>0, <2>1, <2>2, <2>3 DEF Settled
<1>2. CASE option.field # f
  <2>1. next[f] = config[f]
    BY <1>2, ApplyIs
  <2>2. CASE \A j \in 1 .. k : options[j].field # f
    <3>1. \A j \in 1 .. k + 1 : options[j].field # f
      BY <1>0, <1>2, <2>2
    <3>2. config[f] = Defaults(c)[f]
      BY <2>2 DEF Settled, LastOf
    <3> QED BY <2>1, <3>1, <3>2 DEF Settled
  <2>3. CASE \E j \in 1 .. k : options[j].field = f
    <3>1. PICK i \in 1 .. k :
            LastOf(options, k, f, i) /\ config[f] = Stored(Defaults(c)[f], f, options[i].value)
      BY <2>3 DEF Settled
    <3>2. LastOf(options, k + 1, f, i)
      BY <1>0, <1>2, <3>1 DEF LastOf
    <3> QED BY <2>1, <3>1, <3>2 DEF Settled, LastOf
  <2> QED BY <2>2, <2>3
<1> QED BY <1>1, <1>2

\* A field ends with what the last option for it stored, or with its default.
LEMMA FieldSettled ==
  ASSUME NEW c, NEW options, OptionsFor(c, options), NEW f \in DOMAIN Defaults(c), f # "Handlers"
  PROVE  Settled(c, options, Len(options), f, Applied(c, options))
<1> DEFINE n == Len(options)
           C == Configs(c, options)
           S == { k \in 0 .. n : Settled(c, options, k, f, C[k]) }
<1>0. n \in Nat /\ \A i \in 1 .. n : options[i].field \in DOMAIN Defaults(c)
  BY DEF OptionsFor
<1>1. C[0] = Defaults(c) /\ \A i \in 1 .. n : C[i] = Apply(c, C[i - 1], options[i])
  BY <1>0, ConfigsIs
<1>2. \A k \in 0 .. n : DOMAIN C[k] = DOMAIN Defaults(c)
  BY FieldsKept
<1> HIDE DEF C, n
<1>3. 0 \in S
  BY <1>0, <1>1 DEF Settled
<1>4. ASSUME NEW k \in 0 .. n, k < n, k \in S PROVE k + 1 \in S
  <2>1. k + 1 \in 1 .. n /\ (k + 1) - 1 = k /\ k + 1 \in 0 .. n /\ k \in Nat
    BY <1>0, <1>4
  <2>2. C[k + 1] = Apply(c, C[k], options[k + 1])
    BY <1>1, <2>1
  <2>3. options[k + 1].field \in DOMAIN C[k] /\ f \in DOMAIN C[k]
    BY <1>0, <1>2, <2>1
  <2>4. Settled(c, options, k, f, C[k])
    BY <1>4
  <2>5. Settled(c, options, k + 1, f, Apply(c, C[k], options[k + 1]))
    BY <2>1, <2>3, <2>4, SettledStep
  <2> QED BY <2>1, <2>2, <2>5
<1> HIDE DEF S
<1>5. \A k \in 0 .. n : k \in S
  BY <1>0, <1>3, <1>4, UpTo
<1>6. Settled(c, options, n, f, C[n])
  BY <1>0, <1>5 DEF S
<1> QED BY <1>6 DEF Applied, C, n

\* Of the first k options, the i-th is the last for a route with this path.
LastRouteOf(options, k, path, i) ==
  /\ i \in 1 .. k /\ options[i].field = "Handlers" /\ options[i].value.path = path
  /\ \A j \in 1 .. k :
       options[j].field = "Handlers" /\ options[j].value.path = path => j <= i

\* What handlers has for a path after k options.
Routed(options, k, path, handlers) ==
  \/ /\ \A j \in 1 .. k : ~(options[j].field = "Handlers" /\ options[j].value.path = path)
     /\ path \notin DOMAIN handlers
  \/ /\ path \in DOMAIN handlers
     /\ \E i \in 1 .. k : LastRouteOf(options, k, path, i) /\ handlers[path] = options[i].value

LEMMA ExtendIs ==
  ASSUME NEW v, NEW old, NEW path, NEW new, new = Extend([ p \in {v.path} |-> v ], old)
  PROVE  /\ v.path \in DOMAIN new /\ new[v.path] = v
         /\ path # v.path => /\ path \in DOMAIN new <=> path \in DOMAIN old
                             /\ path \in DOMAIN old => new[path] = old[path]
BY DEF Extend

LEMMA RoutedStep ==
  ASSUME NEW c, NEW options, NEW k \in Nat, NEW path, NEW config,
         "Handlers" \in DOMAIN config, options[k + 1].field \in DOMAIN config,
         Routed(options, k, path, config["Handlers"])
  PROVE  Routed(options, k + 1, path, Apply(c, config, options[k + 1])["Handlers"])
<1> DEFINE option == options[k + 1]
           v == option.value
           old == config["Handlers"]
           next == Apply(c, config, option)["Handlers"]
           ours(j) == options[j].field = "Handlers" /\ options[j].value.path = path
<1>0. k + 1 \in 1 .. k + 1 /\ \A j \in 1 .. k + 1 : j = k + 1 \/ j \in 1 .. k
  OBVIOUS
<1>1. ASSUME option.field = "Handlers" PROVE next = Extend([ p \in {v.path} |-> v ], old)
  <2>1. next = Stored(old, "Handlers", v)
    BY <1>1, ApplyIs
  <2>2. Stored(old, "Handlers", v) = Extend([ p \in {v.path} |-> v ], old)
    BY DEF Stored
  <2> QED BY <2>1, <2>2
<1>2. option.field # "Handlers" => next = old
  BY ApplyIs
<1>3. CASE ours(k + 1)
  <2>0. next = Extend([ p \in {v.path} |-> v ], old) /\ path = v.path
    BY <1>1, <1>3
  <2> HIDE DEF next
  <2>1. path \in DOMAIN next /\ next[path] = v
    <3> HIDE DEF v
    <3>1. v.path \in DOMAIN next /\ next[v.path] = v
      BY <2>0, ExtendIs
    <3> QED BY <2>0, <3>1
  <2> USE DEF next
  <2>2. LastRouteOf(options, k + 1, path, k + 1)
    BY <1>0, <1>3 DEF LastRouteOf
  <2> QED BY <1>0, <2>1, <2>2 DEF Routed
<1>4. CASE ~ours(k + 1)
  <2>1. /\ path \in DOMAIN next <=> path \in DOMAIN old
        /\ path \in DOMAIN old => next[path] = old[path]
    <3>1. CASE option.field # "Handlers"
      BY <1>2, <3>1
    <3>2. CASE option.field = "Handlers"
      <4>1. next = Extend([ p \in {v.path} |-> v ], old) /\ path # v.path
        BY <1>1, <1>4, <3>2
      <4> HIDE DEF next
      <4> QED BY <4>1, ExtendIs
    <3> QED BY <3>1, <3>2
  <2> HIDE DEF next, old
  <2>2. CASE path \in DOMAIN old
    <3>1. PICK i \in 1 .. k : LastRouteOf(options, k, path, i) /\ old[path] = options[i].value
      BY <2>2 DEF Routed, old
    <3>2. LastRouteOf(options, k + 1, path, i)
      BY <1>0, <1>4, <3>1 DEF LastRouteOf
    <3> QED BY <2>1, <2>2, <3>1, <3>2 DEF Routed, LastRouteOf, next, old
  <2>3. CASE path \notin DOMAIN old
    <3>1. \A j \in 1 .. k : ~ours(j)
      BY <2>3 DEF Routed, old
    <3>2. \A j \in 1 .. k + 1 : ~ours(j)
      BY <1>0, <1>4, <3>1
    <3> QED BY <2>1, <2>3, <3>2 DEF Routed, next
  <2> QED BY <2>2, <2>3
<1> QED BY <1>3, <1>4

\* A path ends with what the last option for it registered, or with nothing.
LEMMA RoutesSettled ==
  ASSUME NEW options, OptionsFor("server", options), NEW path
  PROVE  Routed(options, Len(options), path, Applied("server", options)["Handlers"])
<1> DEFINE n == Len(options)
           c == "server"
           C == Configs(c, options)
           S == { k \in 0 .. n : Routed(options, k, path, C[k]["Handlers"]) }
<1>0. n \in Nat /\ \A i \in 1 .. n : options[i].field \in DOMAIN Defaults(c)
  BY DEF OptionsFor
<1>1. C[0] = Defaults(c) /\ \A i \in 1 .. n : C[i] = Apply(c, C[i - 1], options[i])
  BY <1>0, ConfigsIs
<1>2. \A k \in 0 .. n : DOMAIN C[k] = DOMAIN Defaults(c)
  BY FieldsKept
<1>3. Defaults(c)["Handlers"] = << >> /\ "Handlers" \in DOMAIN Defaults(c)
  BY DEF Defaults, ServerDefaults, Handlers, Storages
<1> HIDE DEF C, n, c
<1>4. 0 \in S
  BY <1>0, <1>1, <1>3 DEF Routed
<1>5. ASSUME NEW k \in 0 .. n, k < n, k \in S PROVE k + 1 \in S
  <2>1. k + 1 \in 1 .. n /\ (k + 1) - 1 = k /\ k + 1 \in 0 .. n /\ k \in Nat
    BY <1>0, <1>5
  <2>2. C[k + 1] = Apply(c, C[k], options[k + 1])
    BY <1>1, <2>1
  <2>3. options[k + 1].field \in DOMAIN C[k] /\ "Handlers" \in DOMAIN C[k]
    BY <1>0, <1>2, <1>3, <2>1
  <2>4. Routed(options, k, path, C[k]["Handlers"])
    BY <1>5
  <2>5. Routed(options, k + 1, path, Apply(c, C[k], options[k + 1])["Handlers"])
    BY <2>1, <2>3, <2>4, RoutedStep
  <2> QED BY <2>1, <2>2, <2>5
<1> HIDE DEF S
<1>6. \A k \in 0 .. n : k \in S
  BY <1>0, <1>4, <1>5, UpTo
<1>7. Routed(options, n, path, C[n]["Handlers"])
  BY <1>0, <1>6 DEF S
<1> QED BY <1>7 DEF Applied, C, n, c

-----------------------------------------------------------------------------
(***************************************************************************)
(* The constructors.                                                       *)
(***************************************************************************)

Results == Errors \cup {"ok"}

\* The checks of a constructor are a sequence of results.
LEMMA ChecksAre ==
  ASSUME NEW c \in Constructors, NEW config
  PROVE  \E m \in Nat : /\ DOMAIN Checks(c, config) = 1 .. m
                        /\ \A i \in 1 .. m : Checks(c, config)[i] \in Results
<1> USE DEF Handlers, Storages, Clients
<1>1. CASE c = "logger"
  <2>1. Checks(c, config) = << >>
    BY <1>1 DEF Checks
  <2>2. DOMAIN Checks(c, config) = 1 .. 0
    BY <2>1
  <2> QED BY <2>2
<1>2. CASE c = "health"
  <2>1. Checks(c, config) = << Required(config.Version = Empty) >>
    BY <1>2 DEF Checks
  <2>2. DOMAIN Checks(c, config) = 1 .. 1 /\ Checks(c, config)[1] \in Results
    BY <2>1 DEF Required, Results, Errors
  <2> QED BY <2>2
<1>3. CASE c \in Handlers
  <2>1. Checks(c, config) = HandlerChecks(config)
    BY <1>3 DEF Checks
  <2>2. DOMAIN Checks(c, config) = 1 .. 4 /\ \A i \in 1 .. 4 : Checks(c, config)[i] \in Results
    BY <2>1 DEF HandlerChecks, Required, Valid, Results, Errors
  <2> QED BY <2>2
<1>4. CASE c \in Storages
  <2>1. Checks(c, config) = StorageChecks(config)
    BY <1>4 DEF Checks
  <2>2. DOMAIN Checks(c, config) = 1 .. 3 /\ \A i \in 1 .. 3 : Checks(c, config)[i] \in Results
    BY <2>1 DEF StorageChecks, Required, Results, Errors
  <2> QED BY <2>2
<1>5. CASE c = "server"
  <2>1. Checks(c, config) = ServerChecks(config)
    BY <1>5 DEF Checks
  <2>2. DOMAIN Checks(c, config) = 1 .. 3 /\ \A i \in 1 .. 3 : Checks(c, config)[i] \in Results
    BY <2>1 DEF ServerChecks, Required, Valid, Results, Errors
  <2> QED BY <2>2
<1>6. CASE c \in Clients
  <2>1. Checks(c, config) = ClientChecks(c, config)
    BY <1>6 DEF Checks
  <2>2. DOMAIN Checks(c, config) = 1 .. 4 /\ \A i \in 1 .. 4 : Checks(c, config)[i] \in Results
    BY <2>1 DEF ClientChecks, Required, Valid, Results, Errors
  <2> QED BY <2>2
<1> QED BY <1>1, <1>2, <1>3, <1>4, <1>5, <1>6 DEF Constructors

LEMMA FirstErrorResult ==
  ASSUME NEW n \in Nat, NEW checks, DOMAIN checks = 1 .. n, \A i \in 1 .. n : checks[i] \in Results
  PROVE  FirstError(checks) \in Results
BY FirstErrorIs DEF Results

\* One check, and two, three and four.
LEMMA FirstOfOne ==
  ASSUME NEW a \in Results
  PROVE  FirstError(<< a >>) = "ok" <=> a = "ok"
<1> DEFINE checks == << a >>
<1>1. DOMAIN checks = 1 .. 1 /\ checks[1] = a
  OBVIOUS
<1> HIDE DEF checks
<1>2. FirstError(checks) = "ok" <=> \A i \in 1 .. 1 : checks[i] = "ok"
  BY <1>1, FirstErrorIs
<1> QED BY <1>1, <1>2 DEF checks

LEMMA FirstOfTwo ==
  ASSUME NEW a \in Results, NEW b \in Results
  PROVE  /\ FirstError(<< a, b >>) \in Results
         /\ FirstError(<< a, b >>) = "ok" <=> a = "ok" /\ b = "ok"
<1> DEFINE checks == << a, b >>
<1>1. DOMAIN checks = 1 .. 2 /\ checks[1] = a /\ checks[2] = b
  OBVIOUS
<1> HIDE DEF checks
<1>2. \A i \in 1 .. 2 : i = 1 \/ i = 2
  OBVIOUS
<1>3. FirstError(checks) = "ok" <=> \A i \in 1 .. 2 : checks[i] = "ok"
  BY <1>1, FirstErrorIs
<1>4. FirstError(checks) \in Results
  BY <1>1, <1>2, FirstErrorResult
<1> QED BY <1>1, <1>2, <1>3, <1>4 DEF checks

LEMMA FirstOfThree ==
  ASSUME NEW a \in Results, NEW b \in Results, NEW d \in Results
  PROVE  /\ FirstError(<< a, b, d >>) \in Results
         /\ FirstError(<< a, b, d >>) = "ok" <=> a = "ok" /\ b = "ok" /\ d = "ok"
<1> DEFINE checks == << a, b, d >>
<1>1. DOMAIN checks = 1 .. 3 /\ checks[1] = a /\ checks[2] = b /\ checks[3] = d
  OBVIOUS
<1> HIDE DEF checks
<1>2. \A i \in 1 .. 3 : i = 1 \/ i = 2 \/ i = 3
  OBVIOUS
<1>3. FirstError(checks) = "ok" <=> \A i \in 1 .. 3 : checks[i] = "ok"
  BY <1>1, FirstErrorIs
<1>4. FirstError(checks) \in Results
  BY <1>1, <1>2, FirstErrorResult
<1> QED BY <1>1, <1>2, <1>3, <1>4 DEF checks

LEMMA FirstOfFour ==
  ASSUME NEW a \in Results, NEW b \in Results, NEW d \in Results, NEW e \in Results
  PROVE  /\ FirstError(<< a, b, d, e >>) \in Results
         /\ FirstError(<< a, b, d, e >>) = "ok" <=> a = "ok" /\ b = "ok" /\ d = "ok" /\ e = "ok"
<1> DEFINE checks == << a, b, d, e >>
<1>1. DOMAIN checks = 1 .. 4 /\ checks[1] = a /\ checks[2] = b /\ checks[3] = d /\ checks[4] = e
  OBVIOUS
<1> HIDE DEF checks
<1>2. \A i \in 1 .. 4 : i = 1 \/ i = 2 \/ i = 3 \/ i = 4
  OBVIOUS
<1>3. FirstError(checks) = "ok" <=> \A i \in 1 .. 4 : checks[i] = "ok"
  BY <1>1, FirstErrorIs
<1>4. FirstError(checks) \in Results
  BY <1>1, <1>2, FirstErrorResult
<1> QED BY <1>1, <1>2, <1>3, <1>4 DEF checks

LEMMA Simple ==
  ASSUME NEW b
  PROVE  Required(b) \in Results /\ Valid(b) \in Results
BY Zenon DEF Required, Valid, Results, Errors

\* Every option has a result.
LEMMA ErrorOfIs ==
  ASSUME NEW c \in Constructors, NEW f \in DOMAIN Defaults(c), NEW v
  PROVE  ErrorOf(c, f, v) \in Results
<1> USE DEF Handlers, Storages, Clients
<1>1. CASE c = "logger"
  <2>1. ErrorOf(c, f, v) = LoggerError(f, v)
    BY <1>1 DEF ErrorOf
  <2>2. LoggerError(f, v) \in Results
    BY Simple, FirstOfTwo DEF LoggerError
  <2> QED BY <2>1, <2>2
<1>2. CASE c \in Handlers
  <2>1. ErrorOf(c, f, v) = HandlerError(f, v)
    BY <1>2 DEF ErrorOf
  <2>2. HandlerError(f, v) \in Results
    BY Simple DEF HandlerError
  <2> QED BY <2>1, <2>2
<1>3. CASE c \in Storages \cup {"health"}
  <2>1. ErrorOf(c, f, v) = StorageError(f, v)
    BY <1>3 DEF ErrorOf
  <2>2. StorageError(f, v) \in Results
    BY Simple DEF StorageError
  <2> QED BY <2>1, <2>2
<1>4. CASE c = "server"
  <2>1. ErrorOf(c, f, v) = ServerError(f, v)
    BY <1>4 DEF ErrorOf
  <2>2. f \in {"Logger", "Handlers", "KafkaGitHubTopic", "KafkaBrokers", "ListenAddr",
               "ReadTimeout", "WriteTimeout", "IdleTimeout"}
    BY <1>4 DEF Defaults, ServerDefaults
  <2>3. RouteError(v) \in Results
    BY Simple, FirstOfFour DEF RouteError
  <2>4. FirstError(<< Required(Absent(v)), Valid(v # "junk") >>) \in Results
    BY Simple, FirstOfTwo
  <2>5. ServerError(f, v) \in Results
    BY <2>2, <2>3, <2>4, Simple DEF ServerError, Timeouts
  <2> QED BY <2>1, <2>5
<1>5. CASE c \in Clients
  <2>1. ErrorOf(c, f, v) = ClientError(f, v)
    BY <1>5 DEF ErrorOf
  <2>2. FirstError(<< Required(v = 0), Valid(v \in 1 .. Minute) >>) \in Results
    BY Simple, FirstOfTwo
  <2>3. ClientError(f, v) \in Results
    BY <2>2, Simple DEF ClientError
  <2> QED BY <2>1, <2>3
<1> QED BY <1>1, <1>2, <1>3, <1>4, <1>5 DEF Constructors

\* What New returns.
LEMMA NewIs ==
  ASSUME NEW c \in Constructors, NEW options, OptionsFor(c, options)
  PROVE  /\ New(c, options).result \in Results
         /\ New(c, options).result = "ok" <=>
              /\ \A i \in 1 .. Len(options) :
                   ErrorOf(c, options[i].field, options[i].value) = "ok"
              /\ FirstError(Checks(c, Applied(c, options))) = "ok"
         /\ New(c, options).result = "ok" =>
              New(c, options).config = Completed(c, Applied(c, options))
<1> DEFINE n == Len(options)
           errors == [ i \in DOMAIN options |-> ErrorOf(c, options[i].field, options[i].value) ]
           checks == Checks(c, Applied(c, options))
<1>1. n \in Nat /\ DOMAIN options = 1 .. n /\ \A i \in 1 .. n : options[i].field \in DOMAIN Defaults(c)
  BY DEF OptionsFor
<1>2. \A i \in 1 .. n : errors[i] \in Results
  BY <1>1, ErrorOfIs
<1>3. DOMAIN errors = 1 .. n
  BY <1>1
<1>4. \A i \in 1 .. n : errors[i] = ErrorOf(c, options[i].field, options[i].value)
  BY <1>1
<1> HIDE DEF errors
<1>5. FirstError(errors) \in Results
  BY <1>1, <1>2, <1>3, FirstErrorResult
<1>6. FirstError(errors) = "ok" <=> \A i \in 1 .. n : errors[i] = "ok"
  BY <1>1, <1>3, FirstErrorIs
<1>7. FirstError(checks) \in Results
  <2> HIDE DEF checks
  <2>1. PICK m \in Nat : DOMAIN checks = 1 .. m /\ \A i \in 1 .. m : checks[i] \in Results
    BY ChecksAre DEF checks
  <2> QED BY <2>1, FirstErrorResult
<1>8. /\ New(c, options).result = IF FirstError(errors) # "ok" THEN FirstError(errors) ELSE FirstError(checks)
      /\ New(c, options).result = "ok" => New(c, options).config = Completed(c, Applied(c, options))
  BY DEF New, errors
<1> QED BY <1>4, <1>5, <1>6, <1>7, <1>8

\* The last option for a field says what is in it.
LEMMA FieldFrom ==
  ASSUME NEW c, NEW options, OptionsFor(c, options), NEW f \in DOMAIN Defaults(c), f # "Handlers",
         NEW i, LastOf(options, Len(options), f, i)
  PROVE  Applied(c, options)[f] = Stored(Defaults(c)[f], f, options[i].value)
<1> DEFINE n == Len(options)
<1>0. n \in Nat
  BY DEF OptionsFor
<1>1. Settled(c, options, n, f, Applied(c, options))
  BY FieldSettled
<1>2. ~ \A j \in 1 .. n : options[j].field # f
  BY DEF LastOf
<1>3. PICK j \in 1 .. n :
        /\ LastOf(options, n, f, j)
        /\ Applied(c, options)[f] = Stored(Defaults(c)[f], f, options[j].value)
  BY <1>1, <1>2 DEF Settled
<1>4. i \in 1 .. n /\ i <= j /\ j <= i
  BY <1>3 DEF LastOf
<1>5. i = j
  BY <1>0, <1>4
<1> QED BY <1>3, <1>5

\* A field no option is for keeps its default.
LEMMA FieldDefault ==
  ASSUME NEW c, NEW options, OptionsFor(c, options), NEW f \in DOMAIN Defaults(c), f # "Handlers",
         \A i \in 1 .. Len(options) : options[i].field # f
  PROVE  Applied(c, options)[f] = Defaults(c)[f]
BY FieldSettled DEF Settled, LastOf

LEMMA AppliedFields ==
  ASSUME NEW c, NEW options, OptionsFor(c, options)
  PROVE  DOMAIN Applied(c, options) = DOMAIN Defaults(c)
<1>1. Len(options) \in 0 .. Len(options)
  BY DEF OptionsFor
<1> QED BY <1>1, FieldsKept DEF Applied

\* New fills in a level, a writer and a group's handler, and changes nothing else.
LEMMA CompletedIs ==
  ASSUME NEW c \in Constructors, NEW config, DOMAIN config = DOMAIN Defaults(c)
  PROVE  /\ DOMAIN Completed(c, config) = DOMAIN Defaults(c)
         /\ \A f \in DOMAIN Defaults(c) :
              /\ f \notin Filled => Completed(c, config)[f] = config[f]
              /\ f \in Filled /\ config[f] # "nil" => Completed(c, config)[f] = config[f]
              /\ f \in Filled /\ config[f] = "nil" =>
                   Completed(c, config)[f] \in {"DEBUG", "stdout", "consumer"}
<1> USE DEF Filled, Handlers, Storages
<1>1. CASE c = "logger"
  <2>0. Defaults(c) = [ Level |-> "nil", Writer |-> "nil" ]
    BY <1>1 DEF Defaults
  <2>1. DOMAIN config = {"Level", "Writer"}
    BY <2>0
  <2>2. Completed(c, config) =
          [ Level  |-> IF config.Level = "nil" THEN "DEBUG" ELSE config.Level,
            Writer |-> IF config.Writer = "nil" THEN "stdout" ELSE config.Writer ]
    BY <1>1 DEF Completed
  <2> QED BY <2>1, <2>2
<1>2. CASE c = "group"
  <2>1. Completed(c, config) = [config EXCEPT !.Handler = IF @ = "nil" THEN "consumer" ELSE @]
    BY <1>2 DEF Completed
  <2>2. "Level" \notin DOMAIN config /\ "Writer" \notin DOMAIN config /\ "Handler" \in DOMAIN config
    BY <1>2 DEF Defaults, GroupDefaults, ProducerDefaults, Extend
  <2> QED BY <2>1, <2>2
<1>3. CASE c \notin {"logger", "group"}
  <2>1. Completed(c, config) = config
    BY <1>3 DEF Completed
  <2>2. \A f \in DOMAIN config : f \notin Filled
    BY <1>3 DEF Constructors, Clients, Defaults, HandlerDefaults, StorageDefaults,
      ServerDefaults, ProducerDefaults, ConsumerDefaults, Extend
  <2> QED BY <2>1, <2>2
<1> QED BY <1>1, <1>2, <1>3

\* Texts that are not empty.
LEMMA NotEmpty ==
  /\ Empty # "nil" /\ Empty \notin Topics /\ "nil" \notin Topics
  /\ Empty \notin Levels /\ "nil" \notin Levels
  /\ Empty \notin Methods /\ "nil" \notin Methods
  /\ Empty \notin {"DEBUG", "stdout", "consumer", ":8000", "junk"}
BY Zenon DEF Empty, Topics, Levels, Methods

\* What no option may leave out.
LEMMA GivenIs ==
  ASSUME NEW c \in Constructors, NEW f \in DOMAIN Defaults(c), f \in Filled \cup Needed,
         NEW v, ErrorOf(c, f, v) = "ok"
  PROVE  ~Absent(v)
<1> USE DEF Handlers, Storages, Clients
<1>0. /\ Required(Absent(v)) = "ok" => ~Absent(v)
      /\ Valid(v \in Topics) = "ok" => ~Absent(v)
  BY NotEmpty, Zenon DEF Required, Valid, Absent
<1>1. CASE c = "logger"
  <2>1. LoggerError(f, v) = "ok"
    BY <1>1 DEF ErrorOf
  <2>2. Required(Absent(v)) = "ok"
    BY <2>1, Simple, FirstOfTwo DEF LoggerError
  <2> QED BY <1>0, <2>2
<1>2. CASE c \in Handlers
  <2>1. HandlerError(f, v) = "ok"
    BY <1>2 DEF ErrorOf
  <2> QED BY <1>0, <2>1 DEF HandlerError
<1>3. CASE c \in Storages \cup {"health"}
  <2>1. StorageError(f, v) = "ok"
    BY <1>3 DEF ErrorOf
  <2> QED BY <1>0, <2>1 DEF StorageError
<1>4. CASE c = "server"
  <2>1. ServerError(f, v) = "ok"
    BY <1>4 DEF ErrorOf
  <2>2. f \in {"Logger", "KafkaGitHubTopic", "ListenAddr"}
    BY <1>4 DEF Defaults, ServerDefaults, Filled, Needed
  <2>3. FirstError(<< Required(Absent(v)), Valid(v # "junk") >>) = "ok" => Required(Absent(v)) = "ok"
    BY Simple, FirstOfTwo
  <2> QED BY <1>0, <2>1, <2>2, <2>3 DEF ServerError, Timeouts
<1>5. CASE c \in Clients
  <2>1. ClientError(f, v) = "ok"
    BY <1>5 DEF ErrorOf
  <2>2. f \in {"Logger", "ProcessMessageFunc", "KafkaGroupName", "Handler", "Topic"}
    BY <1>5 DEF Defaults, GroupDefaults, ConsumerDefaults, ProducerDefaults, Extend, Filled, Needed
  <2>3. ClientError(f, v) \in {Required(Absent(v)), Valid(v \in Topics)}
    BY <2>2 DEF ClientError, Timeouts, Periods
  <2> QED BY <1>0, <2>1, <2>3
<1> QED BY <1>1, <1>2, <1>3, <1>4, <1>5 DEF Constructors

\* What a check says.
LEMMA CheckSays ==
  ASSUME NEW b
  PROVE  /\ Required(b) = "ok" <=> ~b
         /\ Valid(b) = "ok" <=> b
BY Zenon DEF Required, Valid

\* What the checks of each constructor say together.
LEMMA LoggerChecksSay ==
  ASSUME NEW c, c = "logger", NEW config
  PROVE  FirstError(Checks(c, config)) = "ok"
<1> USE DEF Handlers, Storages, Clients
<1>1. Checks(c, config) = << >>
  BY DEF Checks
<1>2. DOMAIN Checks(c, config) = 1 .. 0
  BY <1>1
<1>3. FirstError(Checks(c, config)) = "ok"
  BY <1>2, FirstErrorIs
<1> QED BY <1>3

LEMMA HealthChecksSay ==
  ASSUME NEW c, c = "health", NEW config
  PROVE  FirstError(Checks(c, config)) = "ok" <=>
           config.Version # Empty
<1> USE DEF Handlers, Storages, Clients
<1>1. Checks(c, config) = << Required(config.Version = Empty) >>
  BY DEF Checks
<1>2. FirstError(Checks(c, config)) = "ok" <=> Required(config.Version = Empty) = "ok"
  BY <1>1, Simple, FirstOfOne
<1> QED BY <1>2, CheckSays

LEMMA HandlerChecksSay ==
  ASSUME NEW c, c \in Handlers, NEW config
  PROVE  FirstError(Checks(c, config)) = "ok" <=>
           /\ config.Logger # "nil" /\ config.Topic \in Topics
           /\ config.Secret # Empty /\ config.MessageQueue # "nil"
<1> USE DEF Handlers, Storages, Clients
<1> DEFINE a == Required(config.Logger = "nil")
           b == Valid(config.Topic \in Topics)
           d == Required(config.Secret = Empty)
           e == Required(config.MessageQueue = "nil")
<1>1. Checks(c, config) = << a, b, d, e >>
  BY DEF Checks, HandlerChecks
<1>2. a \in Results /\ b \in Results /\ d \in Results /\ e \in Results
  BY Simple
<1>3. /\ a = "ok" <=> config.Logger # "nil"
      /\ b = "ok" <=> config.Topic \in Topics
      /\ d = "ok" <=> config.Secret # Empty
      /\ e = "ok" <=> config.MessageQueue # "nil"
  BY CheckSays
<1> HIDE DEF a, b, d, e
<1>4. FirstError(Checks(c, config)) = "ok" <=> a = "ok" /\ b = "ok" /\ d = "ok" /\ e = "ok"
  BY <1>1, <1>2, FirstOfFour
<1> QED BY <1>3, <1>4

LEMMA StorageChecksSay ==
  ASSUME NEW c, c \in Storages, NEW config
  PROVE  FirstError(Checks(c, config)) = "ok" <=>
           config.Logger # "nil" /\ config.DatabaseDSN # Empty /\ config.DatabaseDSN # "junk"
<1> USE DEF Handlers, Storages, Clients
<1> DEFINE a == Required(config.Logger = "nil")
           b == Required(config.DatabaseDSN = Empty)
           d == IF config.DatabaseDSN = "junk" THEN "parse" ELSE "ok"
<1>1. Checks(c, config) = << a, b, d >>
  BY DEF Checks, StorageChecks
<1>2. a \in Results /\ b \in Results /\ d \in Results
  BY Simple DEF Results, Errors
<1>3. /\ a = "ok" <=> config.Logger # "nil"
      /\ b = "ok" <=> config.DatabaseDSN # Empty
      /\ d = "ok" <=> config.DatabaseDSN # "junk"
  BY CheckSays
<1> HIDE DEF a, b, d
<1>4. FirstError(Checks(c, config)) = "ok" <=> a = "ok" /\ b = "ok" /\ d = "ok"
  BY <1>1, <1>2, FirstOfThree
<1> QED BY <1>3, <1>4

LEMMA ServerChecksSay ==
  ASSUME NEW c, c = "server", NEW config
  PROVE  FirstError(Checks(c, config)) = "ok" <=>
           /\ config.Logger # "nil" /\ DOMAIN config.Handlers # {}
           /\ config.KafkaGitHubTopic \in Topics
<1> USE DEF Handlers, Storages, Clients
<1> DEFINE a == Required(config.Logger = "nil")
           b == Required(DOMAIN config.Handlers = {})
           d == Valid(config.KafkaGitHubTopic \in Topics)
<1>1. Checks(c, config) = << a, b, d >>
  BY DEF Checks, ServerChecks
<1>2. a \in Results /\ b \in Results /\ d \in Results
  BY Simple
<1>3. /\ a = "ok" <=> config.Logger # "nil"
      /\ b = "ok" <=> DOMAIN config.Handlers # {}
      /\ d = "ok" <=> config.KafkaGitHubTopic \in Topics
  BY CheckSays
<1> HIDE DEF a, b, d
<1>4. FirstError(Checks(c, config)) = "ok" <=> a = "ok" /\ b = "ok" /\ d = "ok"
  BY <1>1, <1>2, FirstOfThree
<1> QED BY <1>3, <1>4

LEMMA ClientChecksSay ==
  ASSUME NEW c, c \in Clients, NEW config
  PROVE  FirstError(Checks(c, config)) = "ok" <=>
           /\ config.Logger # "nil"
           /\ c # "producer" => config.ProcessMessageFunc # "nil" /\ config.Topic \in Topics
           /\ c = "group" => config.KafkaGroupName # Empty
<1> USE DEF Handlers, Storages, Clients
<1> DEFINE a == Required(config.Logger = "nil")
           b == Required(c # "producer" /\ config.ProcessMessageFunc = "nil")
           d == Required(c = "group" /\ config.KafkaGroupName = Empty)
           e == Valid(c = "producer" \/ config.Topic \in Topics)
<1>1. Checks(c, config) = << a, b, d, e >>
  BY DEF Checks, ClientChecks
<1>2. a \in Results /\ b \in Results /\ d \in Results /\ e \in Results
  BY Simple
<1>3. /\ a = "ok" <=> config.Logger # "nil"
      /\ b = "ok" <=> ~(c # "producer" /\ config.ProcessMessageFunc = "nil")
      /\ d = "ok" <=> ~(c = "group" /\ config.KafkaGroupName = Empty)
      /\ e = "ok" <=> (c = "producer" \/ config.Topic \in Topics)
  BY CheckSays
<1> HIDE DEF a, b, d, e
<1>4. FirstError(Checks(c, config)) = "ok" <=> a = "ok" /\ b = "ok" /\ d = "ok" /\ e = "ok"
  BY <1>1, <1>2, FirstOfFour
<1> QED BY <1>3, <1>4, Zenon

\* What New checks is there by default or once its checks have passed.
LEMMA CheckedIs ==
  ASSUME NEW c \in Constructors, NEW f \in DOMAIN Defaults(c), f \in Needed,
         NEW config, FirstError(Checks(c, config)) = "ok", config[f] = Defaults(c)[f]
  PROVE  ~Absent(config[f])
<1> USE NotEmpty DEF Handlers, Storages, Clients, Absent
<1>1. CASE c = "logger"
  BY <1>1 DEF Defaults, Needed
<1>2. CASE c = "health"
  <2>1. Defaults(c) = [ Version |-> Empty ]
    BY <1>2 DEF Defaults
  <2> QED BY <1>2, <2>1, HealthChecksSay
<1>3. CASE c \in Handlers
  <2>1. Defaults(c) = HandlerDefaults
    BY <1>3 DEF Defaults
  <2> QED BY <1>3, <2>1, HandlerChecksSay DEF HandlerDefaults
<1>4. CASE c \in Storages
  <2>1. Defaults(c) = StorageDefaults
    BY <1>4 DEF Defaults
  <2> QED BY <1>4, <2>1, StorageChecksSay DEF StorageDefaults
<1>5. CASE c = "server"
  <2>1. Defaults(c) = ServerDefaults
    BY <1>5 DEF Defaults
  <2> QED BY <1>5, <2>1, ServerChecksSay DEF ServerDefaults, Needed
<1>6. CASE c = "producer"
  <2>1. Defaults(c) = ProducerDefaults
    BY <1>6 DEF Defaults
  <2>2. config.Logger # "nil"
    BY <1>6, ClientChecksSay DEF Clients
  <2> QED BY <1>6, <2>1, <2>2 DEF ProducerDefaults, Needed
<1>7. CASE c = "consumer"
  <2>1. Defaults(c) = ConsumerDefaults
    BY <1>7 DEF Defaults
  <2>2. config.Logger # "nil" /\ config.ProcessMessageFunc # "nil" /\ config.Topic \in Topics
    BY <1>7, ClientChecksSay DEF Clients
  <2> QED BY <1>7, <2>1, <2>2 DEF ConsumerDefaults, ProducerDefaults, Extend, Needed
<1>8. CASE c = "group"
  <2>1. Defaults(c) = GroupDefaults
    BY <1>8 DEF Defaults
  <2>2. /\ config.Logger # "nil" /\ config.ProcessMessageFunc # "nil"
        /\ config.Topic \in Topics /\ config.KafkaGroupName # Empty
    BY <1>8, ClientChecksSay DEF Clients
  <2> QED BY <1>8, <2>1, <2>2 DEF GroupDefaults, ProducerDefaults, Extend, Needed
<1> QED BY <1>1, <1>2, <1>3, <1>4, <1>5, <1>6, <1>7, <1>8 DEF Constructors

-----------------------------------------------------------------------------
(***************************************************************************)
(* What New makes.                                                         *)
(***************************************************************************)

\* A field that is stored as it is given.
LEMMA StoredIs ==
  ASSUME NEW old, NEW f, NEW v, f \notin {"KafkaBrokers", "MaxRetries", "Handlers"}
  PROVE  Stored(old, f, v) = v
BY DEF Stored

\* Whatever New makes has, in each field, what the last option for the field
\* said, or the default if there was none, and nothing is missing that New
\* needs or fills in.
LEMMA MadeIs ==
  ASSUME NEW c \in Constructors, NEW options, OptionsFor(c, options),
         New(c, options).result = "ok",
         NEW f \in DOMAIN Defaults(c), f # "Handlers",
         NEW config, config = New(c, options).config
  PROVE  /\ \A i : LastOf(options, Len(options), f, i) =>
              config[f] = Stored(Defaults(c)[f], f, options[i].value)
         /\ (\A i \in 1 .. Len(options) : options[i].field # f) /\ f \notin Filled =>
              config[f] = Defaults(c)[f]
         /\ f \in Filled \cup Needed => ~Absent(config[f])
<1> DEFINE n == Len(options)
           applied == Applied(c, options)
<1>0. n \in Nat
  BY DEF OptionsFor
<1>1. /\ \A i \in 1 .. n : ErrorOf(c, options[i].field, options[i].value) = "ok"
      /\ FirstError(Checks(c, applied)) = "ok"
      /\ config = Completed(c, applied)
  BY NewIs
<1>2. DOMAIN applied = DOMAIN Defaults(c)
  BY AppliedFields
<1>3. Settled(c, options, n, f, applied)
  BY FieldSettled
<1> HIDE DEF applied
<1>4. /\ f \notin Filled => config[f] = applied[f]
      /\ f \in Filled /\ applied[f] # "nil" => config[f] = applied[f]
      /\ f \in Filled /\ applied[f] = "nil" => config[f] \in {"DEBUG", "stdout", "consumer"}
  BY <1>1, <1>2, CompletedIs
<1>5. ASSUME NEW i, LastOf(options, n, f, i)
      PROVE  config[f] = Stored(Defaults(c)[f], f, options[i].value)
  <2>1. applied[f] = Stored(Defaults(c)[f], f, options[i].value)
    BY <1>5, FieldFrom DEF applied
  <2>2. i \in 1 .. n /\ options[i].field = f
    BY <1>5 DEF LastOf
  <2>3. ErrorOf(c, f, options[i].value) = "ok"
    BY <1>1, <2>2
  <2>4. ASSUME f \in Filled PROVE applied[f] # "nil"
    <3>1. ~Absent(options[i].value)
      BY <2>3, <2>4, GivenIs
    <3>2. applied[f] = options[i].value
      BY <2>1, <2>4, StoredIs DEF Filled
    <3> QED BY <3>1, <3>2 DEF Absent
  <2> QED BY <1>4, <2>1, <2>4
<1>6. ASSUME \A i \in 1 .. n : options[i].field # f, f \notin Filled
      PROVE  config[f] = Defaults(c)[f]
  BY <1>4, <1>6, FieldDefault DEF applied
<1>7. ASSUME f \in Filled \cup Needed PROVE ~Absent(config[f])
  <2>1. CASE \E i \in 1 .. n : options[i].field = f
    <3>1. PICK i \in 1 .. n : LastOf(options, n, f, i)
      BY <1>3, <2>1 DEF Settled
    <3>2. options[i].field = f /\ config[f] = Stored(Defaults(c)[f], f, options[i].value)
      BY <1>5, <3>1 DEF LastOf
    <3>3. ErrorOf(c, f, options[i].value) = "ok"
      BY <1>1, <3>1, <3>2
    <3>4. ~Absent(options[i].value)
      BY <1>7, <3>3, GivenIs
    <3>5. config[f] = options[i].value
      BY <1>7, <3>2, StoredIs DEF Filled, Needed
    <3> QED BY <3>4, <3>5
  <2>2. CASE \A i \in 1 .. n : options[i].field # f
    <3>1. applied[f] = Defaults(c)[f]
      BY <2>2, FieldDefault DEF applied
    <3>2. CASE f \in Needed
      <4>1. ~Absent(applied[f])
        BY <1>1, <3>1, <3>2, CheckedIs
      <4>2. f \notin Filled
        BY <3>2 DEF Filled, Needed
      <4> QED BY <1>4, <4>1, <4>2
    <3>3. CASE f \in Filled
      <4>1. Defaults(c)[f] = "nil"
        BY <3>3 DEF Filled, Constructors, Handlers, Storages, Clients, Defaults, HandlerDefaults,
          StorageDefaults, ServerDefaults, ProducerDefaults, ConsumerDefaults, GroupDefaults, Extend
      <4>2. config[f] \in {"DEBUG", "stdout", "consumer"}
        BY <1>4, <3>1, <3>3, <4>1
      <4> QED BY <4>2, NotEmpty DEF Absent
    <3> QED BY <1>7, <3>2, <3>3
  <2> QED BY <2>1, <2>2
<1> QED BY <1>5, <1>6, <1>7

\* The server that New makes has the last route registered for each path.
LEMMA MadeRoutes ==
  ASSUME NEW options, OptionsFor("server", options), New("server", options).result = "ok", NEW path,
         NEW config, config = New("server", options).config
  PROVE  Routed(options, Len(options), path, config.Handlers)
<1> DEFINE c == "server"
<1>1. c \in Constructors /\ Defaults(c) = ServerDefaults
  BY DEF Constructors, Defaults, Handlers, Storages
<1>2. config = Completed(c, Applied(c, options))
  BY <1>1, NewIs
<1>3. DOMAIN Applied(c, options) = DOMAIN Defaults(c)
  BY AppliedFields
<1>4. "Handlers" \in DOMAIN Defaults(c) /\ "Handlers" \notin Filled
  BY <1>1 DEF ServerDefaults, Filled
<1> HIDE DEF c
<1>5. config["Handlers"] = Applied(c, options)["Handlers"]
  BY <1>1, <1>2, <1>3, <1>4, CompletedIs
<1> QED BY <1>5, RoutesSettled DEF c
=============================================================================
