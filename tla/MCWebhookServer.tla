-------------------------- MODULE MCWebhookServer --------------------------
(* Instances of WebhookServer for TLC. *)
EXTENDS WebhookServerProps, TLC

\* Requests and workers of a provider, and contexts, are interchangeable.
Symmetry == Permutations(GitHubRequests) \cup Permutations(GitLabRequests)
              \cup Permutations(WorkerIds) \cup Permutations(Contexts)
=============================================================================
