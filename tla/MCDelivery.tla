----------------------------- MODULE MCDelivery -----------------------------
EXTENDS Delivery, TLC

MCDecimal == [ n \in -IntMax .. 2 * UintMax |-> ToString(n) ]

\* Every combination of what a GitHub request may have wrong or at a limit.
MCGitHubRequests ==
  [ signed : BOOLEAN, body : GitHub!Bodies, event : {"", "short", "long"}, delivery : GitHub!Keys,
    hook : {"", "text", "7", "8"}, target : {"", "0", "7", "8", "15", "16"},
    type : {"", "text", "business"}, login : GitHub!Names, sender : {-7, 0, 7} ]

\* For GitLab, every combination of headers with one payload, and every
\* payload with good headers.
AllHeaders ==
  [ token : BOOLEAN, body : GitLab!Bodies, event : GitLab!Keys, webhook : GitLab!Keys,
    kind : {"short"}, name : {""}, project_id : {<< 1, 2 >>},
    project_path : {<< "short", "", "", "" >>}, user_id : {<< 0, 2 >>},
    username : {<< "", "other" >>} ]

AllPayloads ==
  [ token : {TRUE}, body : {"json"}, event : {"uuid"}, webhook : {"uuid"},
    kind : {"", "short", "long"}, name : {"", "other"}, project_id : {0, -1, 1} \X {0, 2},
    project_path : {"", "short", "long"} \X {"", "other"} \X {"", "short"} \X {"", "long"},
    user_id : {0, 1} \X {0, 2}, username : {"", "short"} \X {"", "other", "long"} ]

MCGitLabRequests == AllHeaders \cup AllPayloads
=============================================================================
