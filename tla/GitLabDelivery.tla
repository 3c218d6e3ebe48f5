--------------------------- MODULE GitLabDelivery ---------------------------
(***************************************************************************)
(* What becomes of the content of one GitLab webhook on its way from the   *)
(* HTTP request to a row. A GitLab event gives its project and its user in *)
(* one of several places of the payload, or not at all; the row has NULL   *)
(* for what no place gives.                                                *)
(*                                                                         *)
(* 0 stands for an absent number of the payload and "" for an absent text, *)
(* as they do in the handler. IntMax stands for 2^63 - 1. Delivery puts    *)
(* these functions to work.                                                *)
(***************************************************************************)
EXTENDS Integers, FiniteSetsExt

CONSTANTS
  IntMax,     \* the largest int64, and the largest BIGINT
  NULL,       \* SQL's NULL, a nil pointer of the row
  Decimal     \* [integers -> texts], the decimal numeral of each

Keys   == {"", "text", "uuid"}
Names  == {"", "short", "other", "long"}
Bodies == {"empty", "garbage", "json", "json with nul"}

\* project_id and user_id list a number, project_path and username a name, for
\* each place of the payload the handler looks at, in its order.
RequestType ==
  [ token : BOOLEAN, body : Bodies, event : Keys, webhook : Keys, kind : Names, name : Names,
    project_id : [1 .. 2 -> -IntMax .. IntMax], user_id : [1 .. 2 -> -IntMax .. IntMax],
    project_path : [1 .. 4 -> Names], username : [1 .. 2 -> Names] ]

-----------------------------------------------------------------------------

\* Mutant of FirstGiven: the last place takes precedence.
LastGiven(places, absent) ==
  LET given == { i \in DOMAIN places : places[i] # absent }
  IN  IF given = {} THEN absent ELSE places[Max(given)]

\* The first of the places that gives a value: nested ones come first.
FirstGiven(places, absent) ==
  LET given == { i \in DOMAIN places : places[i] # absent }
  IN  IF given = {} THEN absent ELSE places[Min(given)]

ObjectKind(r) == FirstGiven(<< r.kind, r.name >>, "")

\* Handle's checks, any of which answers 400.
Acceptable(r) ==
  /\ r.body # "empty" /\ r.token
  /\ r.event # "" /\ r.webhook # ""
  /\ r.body # "garbage"
  /\ ObjectKind(r) # ""

\* strconv.FormatInt(n, 10)
FormatInt(n) == Decimal[n]

\* The message of an accepted request; an absent number is written as "0".
MessageOf(r) ==
  [ key |-> r.event, value |-> r.body,
    headers |-> [ event_uuid |-> r.event, webhook_uuid |-> r.webhook,
                  object_kind   |-> ObjectKind(r),
                  project_id    |-> FormatInt(FirstGiven(r.project_id, 0)),
                  project_path  |-> FirstGiven(r.project_path, ""),
                  user_username |-> FirstGiven(r.username, ""),
                  user_id       |-> FormatInt(FirstGiven(r.user_id, 0)) ] ]

-----------------------------------------------------------------------------

\* "" and "0" become NULL, another decimal its number: strconv.ParseInt. None
\* fails, for Handle has written them.
ParseInt(t)     == CHOOSE n \in -IntMax .. IntMax : FormatInt(n) = t
NullableInt(t)  == IF t \in {"", Decimal[0]} THEN NULL ELSE ParseInt(t)
NullableText(t) == IF t = "" THEN NULL ELSE t

\* A header that is not there leaves its field of the row as it is made.
Header(m, h, absent) == IF h \in DOMAIN m.headers THEN m.headers[h] ELSE absent

RowOf(m) ==
  [ event |-> m.key, webhook |-> Header(m, "webhook_uuid", "zero uuid"),
    kind         |-> Header(m, "object_kind", ""),
    project_id   |-> NullableInt(Header(m, "project_id", "")),
    project_path |-> NullableText(Header(m, "project_path", "")),
    username     |-> NullableText(Header(m, "user_username", "")),
    user_id      |-> NullableInt(Header(m, "user_id", "")),
    payload      |-> m.value ]

\* Mutant of Rows: a header that is not there does not parse.
RowsNeedHeaders(m) ==
  IF m.key = "uuid" /\ Header(m, "webhook_uuid", "") = "uuid" THEN { RowOf(m) } ELSE {}

\* prepareGitLabPayload: one row, if the two keys there are parse, or none.
Rows(m) ==
  IF m.key = "uuid" /\ Header(m, "webhook_uuid", "uuid") = "uuid" THEN { RowOf(m) } ELSE {}

\* What the columns of the table take.
Insertable(r) ==
  r.kind # "long" /\ r.project_path # "long" /\ r.username # "long"
    /\ r.payload # "json with nul"

-----------------------------------------------------------------------------

\* value is the one at the first place that gives one; there is none if and
\* only if value is none.
FirstOf(places, absent, value, none) ==
  \/ value = none /\ \A i \in DOMAIN places : places[i] = absent
  \/ \E i \in DOMAIN places :
       /\ value = places[i] /\ places[i] # absent
       /\ \A j \in 1 .. i - 1 : places[j] = absent

\* The row has what the payload gave, from the first place that gave it, and
\* NULL exactly where no place did.
SaysTheSame(row, r) ==
  /\ row.event = r.event /\ row.webhook = r.webhook
  /\ FirstOf(<< r.kind, r.name >>, "", row.kind, NULL) /\ row.kind # NULL
  /\ FirstOf(r.project_id, 0, row.project_id, NULL)
  /\ FirstOf(r.project_path, "", row.project_path, NULL)
  /\ FirstOf(r.username, "", row.username, NULL)
  /\ FirstOf(r.user_id, 0, row.user_id, NULL)
  /\ row.payload = r.body

\* A row with its event and its payload, and blank otherwise.
SaysNothingBut(row, event, payload) ==
  /\ row.event = event /\ row.payload = payload
  /\ row.webhook = "zero uuid" /\ row.kind = ""
  /\ { row.project_id, row.project_path, row.username, row.user_id } = {NULL}

\* The long text that is stored is the first of the given ones.
FirstIsLong(places) ==
  \E i \in DOMAIN places : places[i] = "long" /\ \A j \in 1 .. i - 1 : places[j] = ""

\* The table has no place for this request.
NeverStorable(r) ==
  \/ r.event # "uuid" \/ r.webhook # "uuid"
  \/ FirstIsLong(<< r.kind, r.name >>)
  \/ FirstIsLong(r.project_path) \/ FirstIsLong(r.username)
  \/ r.body = "json with nul"
=============================================================================
