---------------------------- MODULE DeliveryProofs ----------------------------
(***************************************************************************)
(* Proofs about Delivery, for integers of any width and for all requests:  *)
(* its types, and that a row says what the request said, is missing for    *)
(* the requests the table has no place for and no others, and says nothing *)
(* else when the wrong consumer makes it.                                  *)
(*                                                                         *)
(* First what the functions of each provider compute; the invariant then   *)
(* says only which of them made the message and the row.                   *)
(***************************************************************************)
EXTENDS Delivery, TLAPS

-----------------------------------------------------------------------------
(***************************************************************************)
(* Decimals.                                                               *)
(***************************************************************************)

\* Two integers with the same numeral are the same.
LEMMA SameNumeral ==
  ASSUME NEW m \in -IntMax .. 2 * UintMax, NEW n \in -IntMax .. 2 * UintMax,
         Decimal[m] = Decimal[n]
  PROVE  m = n
<1>1. /\ DOMAIN Decimal = -IntMax .. 2 * UintMax
      /\ \A i, j \in DOMAIN Decimal : Decimal[i] = Decimal[j] => i = j
  BY DecimalAssumption DEF IsInjective
<1> QED BY <1>1

\* The integers of the programs all have numerals.
LEMMA Widths ==
  /\ IntMax \in Nat /\ UintMax \in Nat /\ IntMax <= UintMax
  /\ -IntMax .. IntMax \subseteq -IntMax .. 2 * UintMax
  /\ 0 .. UintMax \subseteq -IntMax .. 2 * UintMax
  /\ 0 .. IntMax \subseteq -IntMax .. 2 * UintMax
  /\ 0 .. IntMax \subseteq 0 .. UintMax
  /\ 0 \in -IntMax .. IntMax
BY WidthAssumption

\* strconv.ParseUint finds the number of a numeral a BIGINT can hold, and finds
\* no other number for it.
LEMMA StorableNumerals ==
  ASSUME NEW t
  PROVE  /\ GitHub!StorableNumeral(t) => GitHub!UintsOf(t) # {}
         /\ \A n \in GitHub!UintsOf(t) :
              n \in Nat /\ Decimal[n] = t /\ (n <= IntMax <=> GitHub!StorableNumeral(t))
<1>1. GitHub!StorableNumeral(t) => GitHub!UintsOf(t) # {}
  BY Widths DEF GitHub!StorableNumeral, GitHub!UintsOf
<1>2. ASSUME NEW n \in GitHub!UintsOf(t)
      PROVE  n \in Nat /\ Decimal[n] = t /\ (n <= IntMax <=> GitHub!StorableNumeral(t))
  <2>1. n \in 0 .. UintMax /\ Decimal[n] = t
    BY <1>2 DEF GitHub!UintsOf
  <2>2. n <= IntMax => GitHub!StorableNumeral(t)
    BY <2>1, Widths DEF GitHub!StorableNumeral
  <2>3. ASSUME GitHub!StorableNumeral(t) PROVE n <= IntMax
    <3>1. PICK m \in 0 .. IntMax : t = Decimal[m]
      BY <2>3 DEF GitHub!StorableNumeral
    <3>2. m = n
      BY <2>1, <3>1, Widths, SameNumeral
    <3> QED BY <3>1, <3>2, Widths
  <2> QED BY <2>1, <2>2, <2>3, Widths
<1> QED BY <1>1, <1>2

\* What strconv.FormatInt wrote, strconv.ParseInt reads.
LEMMA IntsComeBack ==
  ASSUME NEW n \in -IntMax .. IntMax
  PROVE  GitHub!IntsOf(GitHub!FormatInt(n)) = {n}
<1>1. ASSUME NEW m \in -IntMax .. IntMax, Decimal[m] = Decimal[n]
      PROVE  m = n
  BY <1>1, Widths, SameNumeral
<1> QED BY <1>1 DEF GitHub!IntsOf, GitHub!FormatInt

-----------------------------------------------------------------------------
(***************************************************************************)
(* GitHub.                                                                 *)
(***************************************************************************)

\* What the message of a request holds.
LEMMA GitHubMessage ==
  ASSUME NEW r \in GitHub!RequestType, NEW m, m = GitHub!MessageOf(r)
  PROVE  /\ m.key = r.delivery /\ m.value = r.body
         /\ GitHub!Header(m, "event", "") = r.event
         /\ GitHub!Header(m, "target_type", "") = r.type
         /\ GitHub!Header(m, "target_id", Decimal[0]) = r.target
         /\ GitHub!Header(m, "hook_id", Decimal[0]) = r.hook
         /\ GitHub!Header(m, "sender_login", "") = r.login
         /\ GitHub!IntsOf(GitHub!Header(m, "sender_id", Decimal[0])) = {r.sender}
<1>1. /\ m.key = r.delivery /\ m.value = r.body
      /\ GitHub!Header(m, "event", "") = r.event
      /\ GitHub!Header(m, "target_type", "") = r.type
      /\ GitHub!Header(m, "target_id", Decimal[0]) = r.target
      /\ GitHub!Header(m, "hook_id", Decimal[0]) = r.hook
      /\ GitHub!Header(m, "sender_login", "") = r.login
      /\ GitHub!Header(m, "sender_id", Decimal[0]) = GitHub!FormatInt(r.sender)
  BY DEF GitHub!MessageOf, GitHub!Header
<1>2. r.sender \in -IntMax .. IntMax
  BY DEF GitHub!RequestType
<1> QED BY <1>1, <1>2, IntsComeBack

\* The rows of a message, and when there is one.
LEMMA GitHubRowsOf ==
  ASSUME NEW r \in GitHub!RequestType, NEW m, m = GitHub!MessageOf(r)
  PROVE  /\ \A s \in GitHub!Rows(m) :
              /\ r.delivery = "uuid"
              /\ \E target \in GitHub!UintsOf(r.target), hook \in GitHub!UintsOf(r.hook) :
                   s = GitHub!RowOf(m, target, hook, r.sender)
         /\ r.delivery = "uuid" =>
              \A target \in GitHub!UintsOf(r.target), hook \in GitHub!UintsOf(r.hook) :
                GitHub!RowOf(m, target, hook, r.sender) \in GitHub!Rows(m)
<1> DEFINE Targets == GitHub!UintsOf(GitHub!Header(m, "target_id", Decimal[0]))
           Hooks   == GitHub!UintsOf(GitHub!Header(m, "hook_id", Decimal[0]))
           Users   == IF m.key = "uuid" THEN GitHub!IntsOf(GitHub!Header(m, "sender_id", Decimal[0])) ELSE {}
<1>1. GitHub!Rows(m) =
        { GitHub!RowOf(m, target, hook, user) : target \in Targets, hook \in Hooks, user \in Users }
  BY DEF GitHub!Rows
<1>2. Targets = GitHub!UintsOf(r.target) /\ Hooks = GitHub!UintsOf(r.hook)
  BY GitHubMessage
<1>3. \A user : user \in Users <=> (r.delivery = "uuid" /\ user = r.sender)
  BY GitHubMessage
<1> HIDE DEF Targets, Hooks, Users
<1>4. \A s : s \in GitHub!Rows(m) <=>
        \E target \in Targets, hook \in Hooks, user \in Users : s = GitHub!RowOf(m, target, hook, user)
  BY ONLY <1>1
<1> QED BY <1>2, <1>3, <1>4

\* The fields of the rows the GitHub storage makes of a GitHub message.
LEMMA GitHubRows ==
  ASSUME NEW r \in GitHub!RequestType,
         NEW s \in GitHub!Rows(GitHub!MessageOf(r))
  PROVE  /\ r.delivery = "uuid" /\ s.delivery = r.delivery
         /\ s.event = r.event /\ s.type = r.type /\ s.login = r.login
         /\ s.user = r.sender /\ s.payload = r.body
         /\ s.target \in GitHub!UintsOf(r.target) /\ s.hook \in GitHub!UintsOf(r.hook)
<1> DEFINE m == GitHub!MessageOf(r)
<1>1. PICK target \in GitHub!UintsOf(r.target), hook \in GitHub!UintsOf(r.hook) :
        r.delivery = "uuid" /\ s = GitHub!RowOf(m, target, hook, r.sender)
  BY GitHubRowsOf
<1> HIDE DEF m
<1> QED BY <1>1, GitHubMessage DEF GitHub!RowOf, m

\* There is a row if the key and the numbers parse.
LEMMA GitHubRowExists ==
  ASSUME NEW r \in GitHub!RequestType, r.delivery = "uuid",
         GitHub!UintsOf(r.target) # {}, GitHub!UintsOf(r.hook) # {}
  PROVE  GitHub!Rows(GitHub!MessageOf(r)) # {}
<1>1. PICK target \in GitHub!UintsOf(r.target), hook \in GitHub!UintsOf(r.hook) : TRUE
  OBVIOUS
<1> QED BY <1>1, GitHubRowsOf

\* A GitHub row says what the request said.
LEMMA GitHubSays ==
  ASSUME NEW r \in GitHub!RequestType,
         NEW s \in GitHub!Rows(GitHub!MessageOf(r))
  PROVE  GitHub!SaysTheSame(s, r)
BY GitHubRows, StorableNumerals DEF GitHub!SaysTheSame

\* The table takes a GitHub row if and only if it has a place for the request.
LEMMA GitHubTaken ==
  ASSUME NEW r \in GitHub!RequestType,
         NEW s \in GitHub!Rows(GitHub!MessageOf(r))
  PROVE  GitHub!Insertable(s) <=> ~GitHub!NeverStorable(r)
<1>1. /\ s.target <= IntMax <=> GitHub!StorableNumeral(r.target)
      /\ s.hook <= IntMax <=> GitHub!StorableNumeral(r.hook)
  BY GitHubRows, StorableNumerals
<1> QED BY <1>1, GitHubRows DEF GitHub!Insertable, GitHub!NeverStorable

\* A GitHub request of which no row is made has no place in the table.
LEMMA GitHubLost ==
  ASSUME NEW r \in GitHub!RequestType, GitHub!Rows(GitHub!MessageOf(r)) = {}
  PROVE  GitHub!NeverStorable(r)
BY GitHubRowExists, StorableNumerals DEF GitHub!NeverStorable

-----------------------------------------------------------------------------
(***************************************************************************)
(* GitLab.                                                                 *)
(***************************************************************************)

\* first is the value of the first place that gives one, and absent if none does.
IsFirst(first, places, n, absent) ==
  /\ first = absent => \A i \in 1 .. n : places[i] = absent
  /\ first # absent => \E i \in 1 .. n : first = places[i] /\ \A j \in 1 .. i - 1 : places[j] = absent

\* (The payload has four places at the most.)
LEMMA FirstGivenIsFirst ==
  ASSUME NEW n \in 1 .. 4, NEW places, DOMAIN places = 1 .. n, NEW absent
  PROVE  IsFirst(GitLab!FirstGiven(places, absent), places, n, absent)
<1> DEFINE given == { i \in 1 .. n : places[i] # absent }
<1>1. GitLab!FirstGiven(places, absent) =
        IF given = {} THEN absent ELSE places[GitLab!Min(given)]
  BY DEF GitLab!FirstGiven
<1>2. CASE given = {}
  BY <1>1, <1>2 DEF IsFirst
<1>3. CASE given # {}
  <2>1. \E i \in given : \A j \in given : i <= j
    <3>1. \A i \in given : i \in {1, 2, 3, 4}
      OBVIOUS
    <3> HIDE DEF given
    <3>2. CASE 1 \in given
      BY <3>1, <3>2
    <3>3. CASE 1 \notin given /\ 2 \in given
      BY <3>1, <3>3
    <3>4. CASE 1 \notin given /\ 2 \notin given /\ 3 \in given
      BY <3>1, <3>4
    <3>5. CASE 1 \notin given /\ 2 \notin given /\ 3 \notin given
      BY <1>3, <3>1, <3>5
    <3> QED BY <3>2, <3>3, <3>4, <3>5
  <2>2. /\ GitLab!Min(given) \in given
        /\ \A j \in given : GitLab!Min(given) <= j
    <3> HIDE DEF given
    <3> QED BY <2>1 DEF GitLab!Min
  <2>3. PICK i \in given : i = GitLab!Min(given)
    BY <2>2
  <2>4. \A j \in 1 .. i - 1 : places[j] = absent
    BY <2>2, <2>3
  <2>5. i \in 1 .. n /\ places[i] # absent /\ GitLab!FirstGiven(places, absent) = places[i]
    BY <1>1, <1>3, <2>3
  <2> QED BY <2>4, <2>5 DEF IsFirst
<1> QED BY <1>2, <1>3

\* What the row has for a text or a number the handler found in a list of places.
TextAt(places)   == GitLab!NullableText(GitLab!FirstGiven(places, ""))
NumberAt(places) == GitLab!NullableInt(GitLab!FormatInt(GitLab!FirstGiven(places, 0)))

\* The text is the first the places give, and is too long if and only if that is.
IsTextOf(text, places) ==
  /\ GitLab!FirstOf(places, "", text, NULL)
  /\ text = "long" <=> GitLab!FirstIsLong(places)
  /\ text = NULL => \A i \in DOMAIN places : places[i] = ""

LEMMA TextOfPlaces ==
  ASSUME NEW n \in 1 .. 4, NEW places \in [1 .. n -> GitLab!Names]
  PROVE  IsTextOf(TextAt(places), places)
<1> DEFINE first == GitLab!FirstGiven(places, "")
<1>1. IsFirst(first, places, n, "")
  BY FirstGivenIsFirst
<1> HIDE DEF first
<1>2. DOMAIN places = 1 .. n /\ n \in Nat /\ NULL # "long"
  <2>1. NULL # "long"
    BY NullAssumption DEF GitLab!Names
  <2> QED BY <2>1
<1>3. GitLab!FirstOf(places, "", GitLab!NullableText(first), NULL)
  BY <1>1, <1>2 DEF IsFirst, GitLab!FirstOf, GitLab!NullableText
<1>4. GitLab!NullableText(first) = "long" <=> first = "long"
  BY <1>2 DEF GitLab!NullableText
<1>5. first = "long" => GitLab!FirstIsLong(places)
  BY <1>1, <1>2 DEF IsFirst, GitLab!FirstIsLong
<1>6. ASSUME GitLab!FirstIsLong(places) PROVE first = "long"
  <2>1. PICK i \in 1 .. n : places[i] = "long" /\ \A j \in 1 .. i - 1 : places[j] = ""
    BY <1>2, <1>6 DEF GitLab!FirstIsLong
  <2>2. PICK k \in 1 .. n : first # "" /\ first = places[k] /\ \A j \in 1 .. k - 1 : places[j] = ""
    BY <1>1, <2>1 DEF IsFirst
  <2>3. i \in Nat /\ k \in Nat /\ 1 <= i /\ 1 <= k
    BY <1>2
  <2>4. ~(i < k)
    <3>1. SUFFICES ASSUME i < k PROVE FALSE
      OBVIOUS
    <3>2. i \in 1 .. k - 1
      BY <2>3, <3>1
    <3> QED BY <2>1, <2>2, <3>2
  <2>5. ~(k < i)
    <3>1. SUFFICES ASSUME k < i PROVE FALSE
      OBVIOUS
    <3>2. k \in 1 .. i - 1
      BY <2>3, <3>1
    <3> QED BY <2>1, <2>2, <3>2
  <2>6. i = k
    BY <2>3, <2>4, <2>5
  <2> QED BY <2>1, <2>2, <2>6
<1>7. ASSUME GitLab!NullableText(first) = NULL PROVE \A i \in DOMAIN places : places[i] = ""
  <2>1. SUFFICES ASSUME first # "" PROVE FALSE
    BY <1>1, <1>2 DEF IsFirst
  <2>2. first \in GitLab!Names
    BY <1>1, <2>1 DEF IsFirst
  <2> QED BY <1>7, <2>1, <2>2, NullAssumption DEF GitLab!NullableText
<1> QED BY <1>3, <1>4, <1>5, <1>6, <1>7 DEF first, TextAt, IsTextOf

LEMMA NumberOfPlaces ==
  ASSUME NEW places \in [1 .. 2 -> -IntMax .. IntMax]
  PROVE  GitLab!FirstOf(places, 0, NumberAt(places), NULL)
<1> DEFINE first == GitLab!FirstGiven(places, 0)
<1>1. IsFirst(first, places, 2, 0) /\ DOMAIN places = 1 .. 2
  BY FirstGivenIsFirst
<1> HIDE DEF first
<1>2. first \in -IntMax .. IntMax
  BY <1>1, Widths DEF IsFirst
<1>3. \A n \in -IntMax .. IntMax : Decimal[n] = Decimal[first] => n = first
  BY <1>2, Widths, SameNumeral
<1>4. Decimal[first] # ""
  <2>1. first \in DOMAIN Decimal
    BY <1>2, Widths, DecimalAssumption
  <2> QED BY <2>1, DecimalAssumption
<1>5. GitLab!ParseInt(Decimal[first]) = first
  BY <1>2, <1>3 DEF GitLab!ParseInt, GitLab!FormatInt
<1>6. Decimal[first] = Decimal[0] <=> first = 0
  BY <1>3, Widths
<1>7. GitLab!NullableInt(GitLab!FormatInt(first)) = IF first = 0 THEN NULL ELSE first
  BY <1>4, <1>5, <1>6 DEF GitLab!NullableInt, GitLab!FormatInt
<1>8. GitLab!FirstOf(places, 0, IF first = 0 THEN NULL ELSE first, NULL)
  BY <1>1 DEF IsFirst, GitLab!FirstOf
<1> QED BY <1>7, <1>8 DEF first, NumberAt

\* The rows the GitLab storage makes of a GitLab message.
LEMMA GitLabRows ==
  ASSUME NEW r \in GitLab!RequestType
  PROVE  /\ GitLab!Rows(GitLab!MessageOf(r)) # {} <=> r.event = "uuid" /\ r.webhook = "uuid"
         /\ \A s \in GitLab!Rows(GitLab!MessageOf(r)) :
              /\ s.event = r.event /\ s.webhook = r.webhook
              /\ s.kind = GitLab!ObjectKind(r) /\ s.payload = r.body
              /\ s.project_id = NumberAt(r.project_id)
              /\ s.user_id = NumberAt(r.user_id)
              /\ s.project_path = TextAt(r.project_path)
              /\ s.username = TextAt(r.username)
<1> DEFINE m == GitLab!MessageOf(r)
<1>1. /\ m.key = r.event /\ m.value = r.body
      /\ \A absent : GitLab!Header(m, "webhook_uuid", absent) = r.webhook
      /\ GitLab!Header(m, "object_kind", "") = GitLab!ObjectKind(r)
      /\ GitLab!Header(m, "project_id", "") = GitLab!FormatInt(GitLab!FirstGiven(r.project_id, 0))
      /\ GitLab!Header(m, "user_id", "") = GitLab!FormatInt(GitLab!FirstGiven(r.user_id, 0))
      /\ GitLab!Header(m, "project_path", "") = GitLab!FirstGiven(r.project_path, "")
      /\ GitLab!Header(m, "user_username", "") = GitLab!FirstGiven(r.username, "")
  BY DEF GitLab!MessageOf, GitLab!Header
<1> HIDE DEF m
<1>2. GitLab!Rows(m) =
        IF r.event = "uuid" /\ r.webhook = "uuid" THEN { GitLab!RowOf(m) } ELSE {}
  BY <1>1 DEF GitLab!Rows
<1>3. LET s == GitLab!RowOf(m)
      IN  /\ s.event = r.event /\ s.webhook = r.webhook
          /\ s.kind = GitLab!ObjectKind(r) /\ s.payload = r.body
          /\ s.project_id = NumberAt(r.project_id)
          /\ s.user_id = NumberAt(r.user_id)
          /\ s.project_path = TextAt(r.project_path)
          /\ s.username = TextAt(r.username)
  BY <1>1 DEF GitLab!RowOf, NumberAt, TextAt
<1> QED BY <1>2, <1>3 DEF m

\* The object kind of an accepted request is a given one.
LEMMA KindOfPlaces ==
  ASSUME NEW r \in GitLab!RequestType, GitLab!Acceptable(r)
  PROVE  GitLab!ObjectKind(r) # NULL /\ IsTextOf(GitLab!ObjectKind(r), << r.kind, r.name >>)
<1> DEFINE places == << r.kind, r.name >>
           kind   == GitLab!ObjectKind(r)
<1>1. places \in [1 .. 2 -> GitLab!Names]
  BY DEF GitLab!RequestType
<1>2. kind = GitLab!FirstGiven(places, "") /\ kind # ""
  BY DEF GitLab!ObjectKind, GitLab!Acceptable
<1> HIDE DEF places, kind
<1>3. IsTextOf(TextAt(places), places)
  BY <1>1, TextOfPlaces
<1>4. TextAt(places) = kind
  BY <1>2 DEF TextAt, GitLab!NullableText
<1>5. kind # NULL
  <2>1. SUFFICES ASSUME \A i \in DOMAIN places : places[i] = "" PROVE FALSE
    BY <1>3, <1>4 DEF IsTextOf
  <2>2. GitLab!FirstGiven(places, "") = ""
    BY <2>1 DEF GitLab!FirstGiven
  <2> QED BY <1>2, <2>2
<1> QED BY <1>3, <1>4, <1>5 DEF places, kind

\* What a GitLab request lists.
LEMMA GitLabPlaces ==
  ASSUME NEW r \in GitLab!RequestType
  PROVE  /\ r.project_id \in [1 .. 2 -> -IntMax .. IntMax]
         /\ r.user_id \in [1 .. 2 -> -IntMax .. IntMax]
         /\ r.project_path \in [1 .. 4 -> GitLab!Names]
         /\ r.username \in [1 .. 2 -> GitLab!Names]
BY DEF GitLab!RequestType

\* A GitLab row says what the request said, from the first place that said it.
LEMMA GitLabSays ==
  ASSUME NEW r \in GitLab!RequestType, GitLab!Acceptable(r),
         NEW s \in GitLab!Rows(GitLab!MessageOf(r))
  PROVE  GitLab!SaysTheSame(s, r)
<1>1. /\ GitLab!FirstOf(r.project_id, 0, s.project_id, NULL)
      /\ GitLab!FirstOf(r.user_id, 0, s.user_id, NULL)
  BY GitLabRows, GitLabPlaces, NumberOfPlaces
<1>2. IsTextOf(s.project_path, r.project_path) /\ IsTextOf(s.username, r.username)
  BY GitLabRows, GitLabPlaces, TextOfPlaces
<1>3. s.kind # NULL /\ IsTextOf(s.kind, << r.kind, r.name >>)
  BY GitLabRows, KindOfPlaces
<1> QED BY <1>1, <1>2, <1>3, GitLabRows DEF GitLab!SaysTheSame, IsTextOf

\* The table takes a GitLab row if and only if it has a place for the request.
LEMMA GitLabTaken ==
  ASSUME NEW r \in GitLab!RequestType, GitLab!Acceptable(r),
         NEW s \in GitLab!Rows(GitLab!MessageOf(r))
  PROVE  GitLab!Insertable(s) <=> ~GitLab!NeverStorable(r)
<1>1. IsTextOf(s.project_path, r.project_path) /\ IsTextOf(s.username, r.username)
  BY GitLabRows, GitLabPlaces, TextOfPlaces
<1>2. IsTextOf(s.kind, << r.kind, r.name >>)
  BY GitLabRows, KindOfPlaces
<1> QED BY <1>1, <1>2, GitLabRows DEF GitLab!Insertable, GitLab!NeverStorable, IsTextOf

\* A GitLab request of which no row is made has no place in the table.
LEMMA GitLabLost ==
  ASSUME NEW r \in GitLab!RequestType, GitLab!Rows(GitLab!MessageOf(r)) = {}
  PROVE  GitLab!NeverStorable(r)
BY GitLabRows DEF GitLab!NeverStorable

-----------------------------------------------------------------------------
(***************************************************************************)
(* The wrong consumer.                                                     *)
(***************************************************************************)

\* The GitHub table takes no row of a GitLab message: its target type is missing.
LEMMA GitLabAtGitHub ==
  ASSUME NEW r \in GitLab!RequestType, NEW s \in GitHub!Rows(GitLab!MessageOf(r))
  PROVE  ~GitHub!Insertable(s)
<1> DEFINE m == GitLab!MessageOf(r)
<1>1. GitHub!Header(m, "target_type", "") = ""
  BY DEF GitLab!MessageOf, GitHub!Header
<1> HIDE DEF m
<1>2. s.type = ""
  <2>1. PICK target, hook, user : s = GitHub!RowOf(m, target, hook, user)
    BY DEF GitHub!Rows, m
  <2>2. s.type = GitHub!Header(m, "target_type", "")
    BY <2>1 DEF GitHub!RowOf
  <2> QED BY <1>1, <2>2
<1>3. "" \notin GitHub!TargetTypes
  BY DEF GitHub!TargetTypes
<1> QED BY <1>2, <1>3 DEF GitHub!Insertable

\* The GitLab storage makes a row of a GitHub message if its key is a UUID; the
\* row is blank, and the table takes it unless it refuses the payload.
LEMMA GitHubAtGitLab ==
  ASSUME NEW r \in GitHub!RequestType
  PROVE  /\ GitLab!Rows(GitHub!MessageOf(r)) # {} <=> r.delivery = "uuid"
         /\ \A s \in GitLab!Rows(GitHub!MessageOf(r)) :
              /\ GitLab!SaysNothingBut(s, r.delivery, r.body)
              /\ GitLab!Insertable(s) <=> r.body # "json with nul"
<1> DEFINE m == GitHub!MessageOf(r)
<1>1. /\ m.key = r.delivery /\ m.value = r.body
      /\ \A absent : GitLab!Header(m, "webhook_uuid", absent) = absent
      /\ GitLab!Header(m, "object_kind", "") = ""
      /\ GitLab!Header(m, "project_id", "") = ""
      /\ GitLab!Header(m, "user_id", "") = ""
      /\ GitLab!Header(m, "project_path", "") = ""
      /\ GitLab!Header(m, "user_username", "") = ""
  BY DEF GitHub!MessageOf, GitLab!Header
<1> HIDE DEF m
<1>2. GitLab!Rows(m) = IF r.delivery = "uuid" THEN { GitLab!RowOf(m) } ELSE {}
  BY <1>1 DEF GitLab!Rows
<1>3. LET s == GitLab!RowOf(m)
      IN  /\ s.event = r.delivery /\ s.payload = r.body
          /\ s.webhook = "zero uuid" /\ s.kind = ""
          /\ s.project_id = NULL /\ s.user_id = NULL
          /\ s.project_path = NULL /\ s.username = NULL
  BY <1>1 DEF GitLab!RowOf, GitLab!NullableInt, GitLab!NullableText
<1>4. NULL # "long"
  BY NullAssumption DEF GitLab!Names
<1>5. /\ GitLab!SaysNothingBut(GitLab!RowOf(m), r.delivery, r.body)
      /\ GitLab!Insertable(GitLab!RowOf(m)) <=> r.body # "json with nul"
  BY <1>3, <1>4 DEF GitLab!SaysNothingBut, GitLab!Insertable
<1> QED BY <1>2, <1>5 DEF m

-----------------------------------------------------------------------------
(***************************************************************************)
(* The invariant.                                                          *)
(***************************************************************************)

\* The message and the rows a request comes to, by handler and by consumer.
Accepted ==
  IF provider = "github" THEN GitHub!Acceptable(request) ELSE GitLab!Acceptable(request)

TheMessage ==
  IF provider = "github" THEN GitHub!MessageOf(request) ELSE GitLab!MessageOf(request)

TheRows == IF consumer = "github" THEN GitHub!Rows(message) ELSE GitLab!Rows(message)

Taken == IF consumer = "github" THEN GitHub!Insertable(row) ELSE GitLab!Insertable(row)

MessageMade ==
  stage \notin {"received", "refused"} => Accepted /\ message = TheMessage

RowMade ==
  /\ stage \in {"parsed", "stored", "lost"} => consumer \in {"github", "gitlab"}
  /\ stage = "parsed" => row \in TheRows
  /\ stage = "stored" => row \in TheRows /\ Taken
  /\ stage = "lost" => TheRows = {} \/ (row \in TheRows /\ ~Taken)

DeliveryInv == TypeOK /\ MessageMade /\ RowMade

\* A message and a row are something, for they have fields.
LEMMA NothingIsEmpty == DOMAIN Nothing = {}
BY DEF Nothing

LEMMA MessagesAreSomething ==
  ASSUME NEW r
  PROVE  GitHub!MessageOf(r) # Nothing /\ GitLab!MessageOf(r) # Nothing
<1>1. DOMAIN GitHub!MessageOf(r) # {} /\ DOMAIN GitLab!MessageOf(r) # {}
  BY DEF GitHub!MessageOf, GitLab!MessageOf
<1> QED BY <1>1, NothingIsEmpty

LEMMA RowsAreSomething ==
  ASSUME NEW m
  PROVE  Nothing \notin GitHub!Rows(m) /\ Nothing \notin GitLab!Rows(m)
<1>1. \A target, hook, user : DOMAIN GitHub!RowOf(m, target, hook, user) # {}
  BY DEF GitHub!RowOf
<1>2. DOMAIN GitLab!RowOf(m) # {}
  BY DEF GitLab!RowOf
<1> QED BY <1>1, <1>2, NothingIsEmpty DEF GitHub!Rows, GitLab!Rows

LEMMA InvInit == Init => DeliveryInv
BY DEF Init, DeliveryInv, TypeOK, MessageMade, RowMade, Nothing

LEMMA InvHandle == DeliveryInv /\ Handle => DeliveryInv'
<1> SUFFICES ASSUME DeliveryInv, Handle PROVE DeliveryInv'
  OBVIOUS
<1>1. provider \in {"github", "gitlab"} /\ stage = "received" /\ message = Nothing /\ row = Nothing
  BY DEF DeliveryInv, TypeOK, Handle
<1>2. UNCHANGED << provider, request, consumer, row >>
  BY DEF Handle
<1>3. \/ Accepted /\ stage' = "accepted" /\ message' = TheMessage
      \/ stage' = "refused" /\ message' = Nothing
  BY <1>1 DEF Handle, Accept, Accepted, TheMessage
<1>4. Accepted' = Accepted /\ TheMessage' = TheMessage /\ TheMessage # Nothing
  BY <1>2, MessagesAreSomething DEF Accepted, TheMessage
<1>5. TypeOK'
  BY <1>1, <1>2, <1>3, <1>4 DEF DeliveryInv, TypeOK
<1>6. MessageMade' /\ RowMade'
  BY <1>3, <1>4 DEF MessageMade, RowMade
<1> QED BY <1>5, <1>6 DEF DeliveryInv

LEMMA InvPrepare == DeliveryInv /\ Prepare => DeliveryInv'
<1> SUFFICES ASSUME DeliveryInv, Prepare PROVE DeliveryInv'
  OBVIOUS
<1>1. /\ stage = "accepted" /\ message # Nothing /\ row = Nothing /\ Accepted /\ message = TheMessage
      /\ UNCHANGED << provider, request, message >> /\ consumer' \in {"github", "gitlab"}
  BY DEF DeliveryInv, TypeOK, MessageMade, Prepare
<1>2. \/ stage' = "parsed" /\ row' \in TheRows'
      \/ stage' = "lost" /\ TheRows' = {} /\ row' = Nothing
  BY <1>1 DEF Prepare, TheRows
<1>3. Accepted' = Accepted /\ TheMessage' = TheMessage
  BY <1>1 DEF Accepted, TheMessage
<1>4. row' \in TheRows' => row' # Nothing
  BY RowsAreSomething DEF TheRows
<1>5. TypeOK'
  BY <1>1, <1>2, <1>4 DEF DeliveryInv, TypeOK
<1>6. MessageMade' /\ RowMade'
  BY <1>1, <1>2, <1>3 DEF MessageMade, RowMade
<1> QED BY <1>5, <1>6 DEF DeliveryInv

LEMMA InvInsert == DeliveryInv /\ Insert => DeliveryInv'
<1> SUFFICES ASSUME DeliveryInv, Insert PROVE DeliveryInv'
  OBVIOUS
<1>1. /\ stage = "parsed" /\ row \in TheRows /\ row # Nothing /\ message # Nothing
      /\ consumer \in {"github", "gitlab"} /\ Accepted /\ message = TheMessage
      /\ UNCHANGED << provider, request, message, consumer, row >>
  BY DEF DeliveryInv, TypeOK, MessageMade, RowMade, Insert
<1>2. stage' = IF Taken THEN "stored" ELSE "lost"
  BY <1>1 DEF Insert, Taken
<1>3. Accepted' = Accepted /\ TheMessage' = TheMessage /\ TheRows' = TheRows /\ Taken' = Taken
  BY <1>1 DEF Accepted, TheMessage, TheRows, Taken
<1>4. TypeOK'
  BY <1>1, <1>2 DEF DeliveryInv, TypeOK
<1>5. MessageMade' /\ RowMade'
  BY <1>1, <1>2, <1>3 DEF MessageMade, RowMade
<1> QED BY <1>4, <1>5 DEF DeliveryInv

LEMMA InvStutter == DeliveryInv /\ UNCHANGED vars => DeliveryInv'
<1> SUFFICES ASSUME DeliveryInv, UNCHANGED vars PROVE DeliveryInv'
  OBVIOUS
<1>1. UNCHANGED << provider, request, stage, message, consumer, row >>
  BY DEF vars
<1>2. UNCHANGED << Accepted, TheMessage, TheRows, Taken >>
  BY <1>1 DEF Accepted, TheMessage, TheRows, Taken
<1> QED BY <1>1, <1>2 DEF DeliveryInv, TypeOK, MessageMade, RowMade

\* The invariant holds in all reachable states.
THEOREM InvHolds == Spec => []DeliveryInv
<1>1. DeliveryInv /\ [Next]_vars => DeliveryInv'
  BY InvHandle, InvPrepare, InvInsert, InvStutter DEF Next
<1> QED BY InvInit, <1>1, PTL DEF Spec

-----------------------------------------------------------------------------
(***************************************************************************)
(* The theorems.                                                           *)
(***************************************************************************)

\* What the invariant says of a delivery that has ended, by cases.
LEMMA OwnEnds ==
  ASSUME DeliveryInv, Ended, consumer = provider
  PROVE  \/ /\ provider = "github" /\ request \in GitHub!RequestType
            /\ \/ row \in GitHub!Rows(GitHub!MessageOf(request))
                  /\ stage = IF GitHub!Insertable(row) THEN "stored" ELSE "lost"
               \/ GitHub!Rows(GitHub!MessageOf(request)) = {} /\ stage = "lost"
         \/ /\ provider = "gitlab" /\ request \in GitLab!RequestType /\ GitLab!Acceptable(request)
            /\ \/ row \in GitLab!Rows(GitLab!MessageOf(request))
                  /\ stage = IF GitLab!Insertable(row) THEN "stored" ELSE "lost"
               \/ GitLab!Rows(GitLab!MessageOf(request)) = {} /\ stage = "lost"
<1>1. /\ stage \in {"stored", "lost"} /\ Accepted /\ message = TheMessage
      /\ stage = "stored" => row \in TheRows /\ Taken
      /\ stage = "lost" => TheRows = {} \/ (row \in TheRows /\ ~Taken)
  BY DEF DeliveryInv, MessageMade, RowMade, Ended
<1>2. CASE provider = "github" /\ request \in GitHubRequests
  <2>1. TheRows = GitHub!Rows(GitHub!MessageOf(request)) /\ (Taken <=> GitHub!Insertable(row))
    BY <1>1, <1>2 DEF TheRows, TheMessage, Taken
  <2> QED BY <1>1, <1>2, <2>1, RequestsAssumption
<1>3. CASE provider = "gitlab" /\ request \in GitLabRequests
  <2>1. /\ TheRows = GitLab!Rows(GitLab!MessageOf(request)) /\ (Taken <=> GitLab!Insertable(row))
        /\ GitLab!Acceptable(request)
    BY <1>1, <1>3 DEF TheRows, TheMessage, Taken, Accepted
  <2> QED BY <1>1, <1>3, <2>1, RequestsAssumption
<1> QED BY <1>2, <1>3 DEF DeliveryInv, TypeOK

\* Type correctness of the delivery; a message exists for the accepted requests
\* and no others.
THEOREM TypeCorrect == Spec => []TypeOK
<1>1. DeliveryInv => TypeOK
  BY DEF DeliveryInv
<1> QED BY InvHolds, <1>1, PTL

\* A row stored by its own provider's consumer says what the request said.
THEOREM RowsSayTheSame == Spec => []RowIsTheRequest
<1>1. DeliveryInv => RowIsTheRequest
  BY OwnEnds, GitHubSays, GitLabSays DEF RowIsTheRequest, Ended
<1> QED BY InvHolds, <1>1, PTL

\* The accepted webhooks that never become a row are those the table has no
\* place for, and no others.
THEOREM OnlyUnstorableLost == Spec => []LostExactly
<1>1. ASSUME DeliveryInv PROVE LostExactly
  <2>1. SUFFICES ASSUME Ended, consumer = provider
        PROVE  stage = "lost" <=>
                 \/ provider = "github" /\ GitHub!NeverStorable(request)
                 \/ provider = "gitlab" /\ GitLab!NeverStorable(request)
    BY DEF LostExactly
  <2>2. CASE provider = "github"
    BY <1>1, <2>1, <2>2, OwnEnds, GitHubTaken, GitHubLost
  <2>3. CASE provider = "gitlab"
    BY <1>1, <2>1, <2>3, OwnEnds, GitLabTaken, GitLabLost
  <2> QED BY <1>1, <2>2, <2>3 DEF DeliveryInv, TypeOK
<1> QED BY InvHolds, <1>1, PTL

\* The wrong consumer stores GitHub webhooks with a UUID and a storable payload,
\* as blank rows, and no GitLab webhook.
THEOREM ForeignRowsAreBlank == Spec => []ForeignRows
<1>1. ASSUME DeliveryInv PROVE ForeignRows
  <2>1. SUFFICES ASSUME Ended, consumer # provider
        PROVE  /\ stage = "stored" <=>
                    provider = "github" /\ request.delivery = "uuid" /\ request.body # "json with nul"
               /\ stage = "stored" => GitLab!SaysNothingBut(row, request.delivery, request.body)
    BY DEF ForeignRows
  <2>2. /\ stage \in {"stored", "lost"} /\ message = TheMessage /\ consumer \in {"github", "gitlab"}
        /\ stage = "stored" => row \in TheRows /\ Taken
        /\ stage = "lost" => TheRows = {} \/ (row \in TheRows /\ ~Taken)
    BY <1>1, <2>1 DEF DeliveryInv, MessageMade, RowMade, Ended
  <2>3. CASE provider = "github" /\ request \in GitHubRequests
    <3>1. TheRows = GitLab!Rows(GitHub!MessageOf(request)) /\ (Taken <=> GitLab!Insertable(row))
      BY <2>1, <2>2, <2>3 DEF TheRows, TheMessage, Taken
    <3>2. request \in GitHub!RequestType
      BY <2>3, RequestsAssumption
    <3> QED BY <2>2, <2>3, <3>1, <3>2, GitHubAtGitLab
  <2>4. CASE provider = "gitlab" /\ request \in GitLabRequests
    <3>1. TheRows = GitHub!Rows(GitLab!MessageOf(request)) /\ (Taken <=> GitHub!Insertable(row))
      BY <2>1, <2>2, <2>4 DEF TheRows, TheMessage, Taken
    <3>2. request \in GitLab!RequestType
      BY <2>4, RequestsAssumption
    <3> QED BY <2>2, <2>4, <3>1, <3>2, GitLabAtGitHub
  <2> QED BY <1>1, <2>3, <2>4 DEF DeliveryInv, TypeOK
<1> QED BY InvHolds, <1>1, PTL
=============================================================================
