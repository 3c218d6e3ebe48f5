--------------------------- MODULE GitHubDelivery ---------------------------
(***************************************************************************)
(* What becomes of the content of one GitHub webhook on its way from the   *)
(* HTTP request to a row: Handle checks the request and makes the key and  *)
(* the headers of a Kafka message, and githubstorage parses them again and *)
(* inserts a row the table's types may refuse.                             *)
(*                                                                         *)
(* A text is a string; the decimal numerals among them are those of the    *)
(* numbers 0 .. 2 * UintMax. IntMax and UintMax stand for 2^63 - 1 and     *)
(* 2^64 - 1. Delivery puts these functions to work.                        *)
(***************************************************************************)
EXTENDS Integers

CONSTANTS
  IntMax,     \* the largest int64, and the largest BIGINT
  UintMax,    \* the largest uint64
  Decimal     \* [integers -> texts], the decimal numeral of each

\* X-Hub-Signature-256 matches or not; the body is empty, not JSON of the
\* expected shape, JSON, or JSON with an escape PostgreSQL's JSONB refuses.
Bodies == {"empty", "garbage", "json", "json with nul"}

\* A long text exceeds the VARCHAR it is stored in.
Names == {"", "short", "long"}

Numerals == { Decimal[n] : n \in 0 .. 2 * UintMax }
Texts    == Numerals \cup {"", "text"}
Keys     == {"", "text", "uuid"}

\* The values of the github_target_type enumeration.
TargetTypes == {"repository", "organization", "integration", "business",
                "marketplace::listing", "sponsorslisting"}

RequestType ==
  [ signed : BOOLEAN, body : Bodies, event : Names, delivery : Keys,
    hook : Texts, target : Texts, type : TargetTypes \cup {"", "text"},
    login : Names, sender : -IntMax .. IntMax ]

-----------------------------------------------------------------------------

\* Handle's checks, any of which answers 400.
Acceptable(r) ==
  /\ r.body # "empty" /\ r.signed
  /\ r.event # "" /\ r.delivery # "" /\ r.hook # "" /\ r.target # "" /\ r.type # ""
  /\ r.body # "garbage"
  /\ r.login # "" /\ r.sender # 0

\* strconv.FormatInt(n, 10)
FormatInt(n) == Decimal[n]

\* The message of an accepted request: headers are taken over as they are, but
\* for the sender's, which come from the payload.
MessageOf(r) ==
  [ key |-> r.delivery, value |-> r.body,
    headers |-> [ event |-> r.event, target_type |-> r.type, target_id |-> r.target,
                  hook_id |-> r.hook, sender_login |-> r.login,
                  sender_id |-> FormatInt(r.sender) ] ]

-----------------------------------------------------------------------------

\* strconv.ParseUint(t, 10, 64) and strconv.ParseInt(t, 10, 64)
UintsOf(t) == { n \in 0 .. UintMax : Decimal[n] = t }
IntsOf(t)  == { n \in -IntMax .. IntMax : FormatInt(n) = t }

\* A header that is not there leaves its field of the row at "" or 0.
Header(m, h, absent) == IF h \in DOMAIN m.headers THEN m.headers[h] ELSE absent

RowOf(m, target, hook, user) ==
  [ delivery |-> m.key, event |-> Header(m, "event", ""), type |-> Header(m, "target_type", ""),
    target |-> target, hook |-> hook, login |-> Header(m, "sender_login", ""), user |-> user,
    payload |-> m.value ]

\* prepareGitHubPayload: one row, if the key and the numbers there are parse, or none.
Rows(m) ==
  { RowOf(m, target, hook, user) :
      target \in UintsOf(Header(m, "target_id", Decimal[0])),
      hook   \in UintsOf(Header(m, "hook_id", Decimal[0])),
      user   \in IF m.key = "uuid" THEN IntsOf(Header(m, "sender_id", Decimal[0])) ELSE {} }

\* Mutant of Insertable: the columns take any 64-bit number.
InsertableUnsigned(r) ==
  /\ r.event # "long" /\ r.login # "long"
  /\ r.type \in TargetTypes
  /\ r.payload # "json with nul"

\* What the driver and the columns of the table take.
Insertable(r) ==
  /\ r.event # "long" /\ r.login # "long"
  /\ r.type \in TargetTypes
  /\ r.target <= IntMax /\ r.hook <= IntMax
  /\ r.payload # "json with nul"

-----------------------------------------------------------------------------

\* The row says what the request said, its numbers written as the headers were.
SaysTheSame(row, r) ==
  /\ row.delivery = r.delivery /\ row.event = r.event
  /\ row.type = r.type /\ row.login = r.login
  /\ row.user = r.sender /\ row.payload = r.body
  /\ Decimal[row.target] = r.target /\ Decimal[row.hook] = r.hook

\* A numeral of a number a BIGINT can hold.
StorableNumeral(t) == \E n \in 0 .. IntMax : t = Decimal[n]

\* The table has no place for this request.
NeverStorable(r) ==
  \/ r.delivery # "uuid"
  \/ ~StorableNumeral(r.target) \/ ~StorableNumeral(r.hook)
  \/ r.type \notin TargetTypes
  \/ r.event = "long" \/ r.login = "long"
  \/ r.body = "json with nul"
=============================================================================
