------------------------------ MODULE TagChoice ------------------------------
(* What a download promises about the tag it answers with, whoever changes    *)
(* the repository meanwhile: at one moment the tag is one of those that the   *)
(* reference designates in the repository as it is, at a later one it is in   *)
(* the repository, and the download fails for a reason only: nothing is       *)
(* designated, the tag has gone, or a request failed.                         *)
EXTENDS Naturals

CONSTANTS Wanted,            \* the references
          RegistryTags,      \* the tags that a repository can hold
          Designated(_, _),  \* the tags that answer a reference in a repository
          NoTag

VARIABLES state, wanted, repo, choice, answer,
          faults  \* how many times the repository changed or a request failed

vars == <<state, wanted, repo, choice, answer, faults>>

Init ==
  /\ state = "asked"
  /\ wanted \in Wanted
  /\ repo \in SUBSET RegistryTags
  /\ choice = NoTag /\ answer = NoTag
  /\ faults = 0

Choose ==
  /\ state = "asked" /\ state' = "chosen"
  /\ choice' \in Designated(wanted, repo)
  /\ UNCHANGED <<wanted, repo, answer, faults>>

Answer ==
  /\ state = "chosen" /\ state' = "answered"
  /\ choice \in repo
  /\ answer' = choice
  /\ UNCHANGED <<wanted, repo, choice, faults>>

Fail ==
  /\ \/ state = "asked" /\ Designated(wanted, repo) = {}
     \/ state = "chosen" /\ choice \notin repo
  /\ state' = "failed"
  /\ UNCHANGED <<wanted, repo, choice, answer, faults>>

RequestFails ==
  /\ state \in {"asked", "chosen"} /\ state' = "failed"
  /\ faults' = faults + 1
  /\ UNCHANGED <<wanted, repo, choice, answer>>

Change ==
  /\ repo' \in SUBSET RegistryTags /\ faults' = faults + 1
  /\ UNCHANGED <<state, wanted, choice, answer>>

Next == Choose \/ Answer \/ Fail \/ RequestFails \/ Change

Spec == Init /\ [][Next]_vars
=============================================================================
