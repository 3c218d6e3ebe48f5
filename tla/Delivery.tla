------------------------------ MODULE Delivery ------------------------------
(***************************************************************************)
(* One webhook on its way from the HTTP request to a row, when nothing     *)
(* fails: the handler of its provider checks it and makes a Kafka message  *)
(* of it, another program parses the message's headers again, and the      *)
(* types of the table take the row or refuse it. What each provider's      *)
(* handler and storage do is in GitHubDelivery and GitLabDelivery.         *)
(*                                                                         *)
(* A consumer takes any topic for its own (KC_TOPIC_GITHUB, for one, may   *)
(* name the GitLab topic), and so may meet the other provider's messages.  *)
(***************************************************************************)
EXTENDS Integers, Functions

CONSTANTS
  IntMax,           \* the largest int64, and the largest BIGINT
  UintMax,          \* the largest uint64
  NULL,             \* SQL's NULL, a nil pointer of a row
  Decimal,          \* [integers -> texts], the decimal numeral of each
  GitHubRequests,   \* the requests that arrive
  GitLabRequests

GitHub == INSTANCE GitHubDelivery
GitLab == INSTANCE GitLabDelivery

ASSUME WidthAssumption == IntMax \in Nat \ {0} /\ UintMax = 2 * IntMax + 1

\* No two integers have the same numeral, and the other texts are no numerals.
ASSUME DecimalAssumption ==
  /\ Decimal \in [-IntMax .. 2 * UintMax -> STRING] /\ IsInjective(Decimal)
  /\ \A n \in DOMAIN Decimal : Decimal[n] \notin {"", "text"}

ASSUME NullAssumption == NULL \notin GitLab!Names

ASSUME RequestsAssumption ==
  GitHubRequests \subseteq GitHub!RequestType /\ GitLabRequests \subseteq GitLab!RequestType

VARIABLES
  provider,  \* "github" or "gitlab": the handler and the topic
  request,   \* the webhook
  stage,     \* "received", "refused", "accepted", "parsed", "stored" or "lost"
  message,   \* the Kafka message
  consumer,  \* "nobody" yet, or the storage of the consumer that got the message
  row        \* what is inserted

vars == << provider, request, stage, message, consumer, row >>

Nothing == << >>

Init ==
  /\ \/ provider = "github" /\ request \in GitHubRequests
     \/ provider = "gitlab" /\ request \in GitLabRequests
  /\ stage = "received" /\ message = Nothing /\ consumer = "nobody" /\ row = Nothing

-----------------------------------------------------------------------------

\* Mutant of Handle: the handlers go on after they have answered 400.
HandleGoesOn ==
  /\ stage = "received"
  /\ \/ provider = "github" /\ message' = GitHub!MessageOf(request)
        /\ stage' = IF GitHub!Acceptable(request) THEN "accepted" ELSE "refused"
     \/ provider = "gitlab" /\ message' = GitLab!MessageOf(request)
        /\ stage' = IF GitLab!Acceptable(request) THEN "accepted" ELSE "refused"
  /\ UNCHANGED << provider, request, consumer, row >>

Accept(acceptable, m) ==
  \/ acceptable /\ stage' = "accepted" /\ message' = m
  \/ ~acceptable /\ stage' = "refused" /\ UNCHANGED message

\* Handle
Handle ==
  /\ stage = "received"
  /\ \/ provider = "github" /\ Accept(GitHub!Acceptable(request), GitHub!MessageOf(request))
     \/ provider = "gitlab" /\ Accept(GitLab!Acceptable(request), GitLab!MessageOf(request))
  /\ UNCHANGED << provider, request, consumer, row >>

\* The consumer's MessageStore, first half.
Prepare ==
  /\ stage = "accepted"
  /\ consumer' \in {"github", "gitlab"}
  /\ LET rows == IF consumer' = "github" THEN GitHub!Rows(message) ELSE GitLab!Rows(message)
     IN  \/ row' \in rows /\ stage' = "parsed"
         \/ rows = {} /\ stage' = "lost" /\ UNCHANGED row
  /\ UNCHANGED << provider, request, message >>

\* MessageStore, second half: Pool.Exec.
Insert ==
  /\ stage = "parsed"
  /\ stage' = IF \/ consumer = "github" /\ GitHub!Insertable(row)
                 \/ consumer = "gitlab" /\ GitLab!Insertable(row)
              THEN "stored" ELSE "lost"
  /\ UNCHANGED << provider, request, message, consumer, row >>

Next == Handle \/ Prepare \/ Insert

Spec == Init /\ [][Next]_vars

-----------------------------------------------------------------------------
(***************************************************************************)
(* Properties.                                                             *)
(***************************************************************************)

\* The types; a message exists for the accepted requests and no others.
TypeOK ==
  /\ \/ provider = "github" /\ request \in GitHubRequests
     \/ provider = "gitlab" /\ request \in GitLabRequests
  /\ stage \in {"received", "refused", "accepted", "parsed", "stored", "lost"}
  /\ consumer \in {"nobody", "github", "gitlab"}
  /\ (message = Nothing) <=> (stage \in {"received", "refused"})
  /\ stage \in {"parsed", "stored"} => row # Nothing
  /\ row # Nothing => stage \in {"parsed", "stored", "lost"}

Ended == stage \in {"stored", "lost"}

\* A row stored by its own provider's consumer says what the request said:
\* numbers survive being written as text in headers and parsed by another
\* program, the handler's 0 and "" are not mistaken for values, nor values for
\* them, and of the places a GitLab payload may have a value at, the row has the
\* first that gave one.
RowIsTheRequest ==
  stage = "stored" /\ consumer = provider =>
    \/ provider = "github" /\ GitHub!SaysTheSame(row, request)
    \/ provider = "gitlab" /\ GitLab!SaysTheSame(row, request)

\* The accepted webhooks that never become a row, although nothing fails, are
\* those the table has no place for and no others: the handler does not check
\* what the storage needs.
LostExactly ==
  Ended /\ consumer = provider =>
    (stage = "lost" <=>
       \/ provider = "github" /\ GitHub!NeverStorable(request)
       \/ provider = "gitlab" /\ GitLab!NeverStorable(request))

\* A consumer of the wrong topic: the GitHub table refuses every GitLab webhook,
\* for want of a target type. The GitLab table takes each GitHub webhook that
\* has a UUID and a storable payload, as a row that says nothing else.
ForeignRows ==
  Ended /\ consumer # provider =>
    /\ stage = "stored" <=>
         provider = "github" /\ request.delivery = "uuid" /\ request.body # "json with nul"
    /\ stage = "stored" => GitLab!SaysNothingBut(row, request.delivery, request.body)
=============================================================================
