-------------------------- MODULE VersionResolution --------------------------
(* From the reference a user names to the tag that is pulled: the version in  *)
(* the reference (download.go, bridge.go), the list of tags, the match, and   *)
(* the translation between "+" and "_" around the registry, whose tags other  *)
(* users add and delete meanwhile.                                            *)
(*                                                                            *)
(* A tag or version string is a record: its kind ("strict" for 1.2.3, "loose" *)
(* for v1 or 1.2, or any other "word"), its precedence as a semantic version  *)
(* (0 for 0.0.0-0, the lowest), and how build metadata is attached: not at    *)
(* all, with "_" (a registry tag) or with "+" (a version).  A reference can   *)
(* also carry a "digest" (repo@sha256:...), or a tag and a digest ("pinned",  *)
(* repo:1.0.0@sha256:...), of which the parser keeps the digest only.         *)
EXTENDS Naturals, FiniteSets, Functions

CONSTANTS Names,       \* the tags and versions considered
          NoTag,       \* the reference names none
          AnyVersion,  \* the constraint ">0.0.0-0"
          MaxChanges   \* bound on the changes and failures of the registry

Digests == {"digest", "pinned"}

Strings == [kind : {"strict", "loose", "word"} \cup Digests, rank : Nat, meta : {"none", "_", "+"}]

ASSUME NamesAssumption == Names \subseteq Strings /\ {NoTag, AnyVersion} \cap Strings = {}

ASSUME ChangesAssumption == MaxChanges \in Nat

VARIABLES pc,       \* where the download is
          ref,      \* the tag of the reference
          tags,     \* the tags of the repository
          chosen,   \* the tag that the version resolved to
          pulled,   \* the tag that was pulled
          seen,     \* history: the tags when they were listed (or first read)
          changes   \* how many times the registry changed or failed

vars == <<pc, ref, tags, chosen, pulled, seen, changes>>

-----------------------------------------------------------------------------
(* Strings. *)

IsRegistryTag(n) == n.meta # "+" /\ n.kind \notin Digests
IsSemver(n) == n.kind \in {"strict", "loose"} /\ n.meta # "_"  \* semver.NewVersion
IsStrictSemver(n) == IsSemver(n) /\ n.kind = "strict"          \* StrictNewVersion
ParsesInReference(n) == n.meta # "+"                           \* ParseReference

Plus(n) == IF n.meta = "_" THEN [n EXCEPT !.meta = "+"] ELSE n

(* Mutation: the tag is sent to the registry as it was listed. *)
RawReference(n) == n

parseReference(n) == IF n.meta = "+" THEN [n EXCEPT !.meta = "_"] ELSE n

-----------------------------------------------------------------------------
(* The two steps of the resolution. *)

(* Mutation: every reference is resolved through the list of tags. *)
IgnoreVersionInRef(t) == AnyVersion

getVersionFromRef(t) == IF t # NoTag /\ IsSemver(t) THEN t ELSE AnyVersion

VersionsOf(repo) == {v \in {Plus(n) : n \in repo} : IsStrictSemver(v)}

Listings(versions) ==
  {list \in [1..Cardinality(versions) -> versions] : Range(list) = versions}

(* Mutation: the order is not reversed. *)
AscendingTags(repo) ==
  {list \in Listings(VersionsOf(repo)) :
     \A i, j \in DOMAIN list : i < j => list[i].rank <= list[j].rank}

(* Every order that sort.Sort may return: it is not stable. *)
Tags(repo) ==
  {list \in Listings(VersionsOf(repo)) :
     \A i, j \in DOMAIN list : i < j => list[i].rank >= list[j].rank}

(* NoTag when no tag matches. *)
GetTagMatchingVersionOrConstraint(list, version) ==
  LET matching == {i \in DOMAIN list : list[i].rank > 0} IN
  IF version \in Range(list) THEN version
  ELSE IF version = AnyVersion /\ matching # {}
    THEN list[CHOOSE i \in matching : \A j \in matching : i <= j]
  ELSE NoTag

-----------------------------------------------------------------------------
Init ==
  /\ pc = "start"
  /\ ref \in Names \cup {NoTag}
  /\ tags \in SUBSET {n \in Names : IsRegistryTag(n)}
  /\ chosen = NoTag /\ pulled = NoTag
  /\ seen = tags
  /\ changes = 0

Unread == UNCHANGED <<ref, tags, changes>>

(* ParseReference, getVersionFromRef and the choice that getOciURI makes. *)
ResolveVersion ==
  /\ pc = "start"
  /\ IF ref # NoTag /\ ~ParsesInReference(ref)
       THEN pc' = "error" /\ UNCHANGED chosen
       ELSE LET version == getVersionFromRef(ref) IN
            IF version = AnyVersion
              THEN pc' = "list" /\ UNCHANGED chosen
              ELSE pc' = "pull" /\ chosen' = version
  /\ UNCHANGED <<pulled, seen>> /\ Unread

ListTags ==
  /\ pc = "list"
  /\ seen' = tags
  /\ \E list \in Tags(tags) :
       LET tag == GetTagMatchingVersionOrConstraint(list, AnyVersion) IN
       IF tag = NoTag
         THEN pc' = "error" /\ UNCHANGED chosen
         ELSE pc' = "pull" /\ chosen' = tag
  /\ UNCHANGED pulled /\ Unread

(* Mutation: the name that was listed is taken for the name of the tag. *)
PullListedName ==
  /\ pc = "pull"
  /\ IF parseReference(chosen) \in tags
       THEN pc' = "done" /\ pulled' = chosen
       ELSE pc' = "error" /\ UNCHANGED pulled
  /\ UNCHANGED <<chosen, seen>> /\ Unread

(* The path is cut at its first ":" and the tag appended (downloader.go:120): *)
(* repo@sha256 stays before the tag of a bare digest, which cannot parse;     *)
(* tag and digest are both cut from a pinned reference.                       *)
PullTag ==
  LET tag == parseReference(chosen) IN
  /\ pc = "pull"
  /\ IF tag \in tags /\ (ref = NoTag \/ ref.kind # "digest")
       THEN pc' = "done" /\ pulled' = tag
       ELSE pc' = "error" /\ UNCHANGED pulled
  /\ UNCHANGED <<chosen, seen>> /\ Unread

(* Another user pushes or deletes a tag. *)
ChangeTags ==
  /\ changes < MaxChanges /\ pc \notin {"done", "error"}
  /\ \E n \in {m \in Names : IsRegistryTag(m)} :
       tags' = IF n \in tags THEN tags \ {n} ELSE tags \cup {n}
  /\ changes' = changes + 1
  /\ UNCHANGED <<pc, ref, chosen, pulled, seen>>

(* Any request to the registry can fail. *)
RegistryFails ==
  /\ changes < MaxChanges /\ pc \in {"list", "pull"}
  /\ pc' = "error"
  /\ changes' = changes + 1
  /\ UNCHANGED <<ref, tags, chosen, pulled, seen>>

Finished == pc \in {"done", "error"} /\ UNCHANGED vars

Next == ResolveVersion \/ ListTags \/ PullTag \/ ChangeTags \/ RegistryFails \/ Finished

Spec == Init /\ [][Next]_vars

-----------------------------------------------------------------------------
(* Types of the variables: what is pulled is a tag that a registry can hold,  *)
(* with its metadata back behind "_".                                         *)
TypeOK ==
  /\ pc \in {"start", "list", "pull", "done", "error"}
  /\ ref \in Names \cup {NoTag}
  /\ tags \subseteq {n \in Names : IsRegistryTag(n)}
  /\ seen \subseteq {n \in Names : IsRegistryTag(n)}
  /\ chosen \in Names \cup {Plus(n) : n \in Names} \cup {NoTag}
  /\ pulled \in {n \in Names : IsRegistryTag(n)} \cup {NoTag}
  /\ changes \in 0..MaxChanges

(* A reference that carries a semantic version, and no digest with it, is     *)
(* never answered with another version, whatever the repository holds         *)
(* (bridge.go:33-36).                                                         *)
ExactVersionPulled ==
  pc = "done" /\ ref # NoTag /\ IsSemver(ref) => pulled = ref

(* A reference without a tag, or whose tag is no semantic version             *)
(* (download.go:94) or stands beside a digest, is answered with a strict      *)
(* version that nothing listed outranks, found under the name the registry    *)
(* has for it, even if tags came and went between the listing and the pull    *)
(* (downloader.go:139).                                                       *)
LatestPulled ==
  pc = "done" /\ (ref = NoTag \/ ~IsSemver(ref)) =>
    /\ pulled \in seen /\ pulled.kind = "strict"
    /\ \A n \in seen : IsStrictSemver(Plus(n)) => n.rank <= pulled.rank

(* The reference definition: the tags that a reference designates, and those  *)
(* of them that the repository holds.  A bare digest designates no tag; a     *)
(* pinned reference designates what its repository alone would.               *)
Designated(r, repo) ==
  IF r # NoTag /\ (~ParsesInReference(r) \/ r.kind = "digest") THEN {}
  ELSE IF r # NoTag /\ IsSemver(r) THEN {r}
  ELSE {n \in repo : /\ n.kind = "strict" /\ n.rank > 0
                     /\ \A m \in repo : m.kind = "strict" => m.rank <= n.rank}

Servable == Designated(ref, tags) \cap tags

(* In a repository that nobody changes, on a network that works, the download *)
(* answers a tag of the reference definition, and fails only when it has none.*)
ResolvesAsSpecified ==
  changes = 0 => /\ pc = "done" => pulled \in Servable
                 /\ pc = "error" => Servable = {}

(* README.md:16 downloads ...:mytag: the tag that is pulled would be the one  *)
(* that the reference names, a semantic version or not.                       *)
RequestedTagPulled ==
  pc = "done" /\ ref # NoTag /\ ref.kind = "word" => pulled = ref
-----------------------------------------------------------------------------
(* The abstract promise, and how this state represents it: a digest is never  *)
(* chosen, whatever PullTag is given, because its pull cannot succeed.        *)

Digest == ref # NoTag /\ ref.kind = "digest"

Phase ==
  IF pc \in {"start", "list"} \/ (pc = "pull" /\ Digest) THEN "asked"
  ELSE IF pc = "pull" THEN "chosen"
  ELSE IF pc = "done" THEN "answered"
  ELSE "failed"

Choice == INSTANCE TagChoice WITH
  Wanted <- Names \cup {NoTag},
  RegistryTags <- {n \in Names : IsRegistryTag(n)},
  Designated <- Designated,
  state <- Phase,
  wanted <- ref,
  repo <- tags,
  choice <- IF chosen = NoTag \/ Digest THEN NoTag ELSE parseReference(chosen),
  answer <- pulled,
  faults <- changes

(* However the repository changes between the steps, the listing, the match   *)
(* and the pull answer with a tag that was designated at one moment of the    *)
(* download and present at a later one, and fail only for want of one.        *)
ImplementsTagChoice == Choice!Spec
=============================================================================
