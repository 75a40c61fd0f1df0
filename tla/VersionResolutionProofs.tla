---------------------- MODULE VersionResolutionProofs ----------------------
(* What a download answers, for any set of tags, any order the sort may       *)
(* return and any changes of the repository between its steps.                *)
EXTENDS VersionResolution, FiniteSetTheorems, TLAPS

Exact == ref # NoTag /\ IsSemver(ref)

(* A tag that nothing listed outranks, above the lowest version of all. *)
Best(n, repo) ==
  /\ n \in repo /\ IsStrictSemver(Plus(n)) /\ n.rank > 0
  /\ \A m \in repo : IsStrictSemver(Plus(m)) => m.rank <= n.rank

(* Where the tag that is pulled comes from. *)
ChosenInv ==
  /\ pc \in {"list", "pull", "done"} => ref = NoTag \/ ParsesInReference(ref)
  /\ pc = "list" => ~Exact
  /\ pc \in {"pull", "done"} =>
       IF Exact THEN chosen = ref ELSE \E n \in seen : Best(n, seen) /\ chosen = Plus(n)
  /\ pc = "done" => pulled = parseReference(chosen)

(* What happened in a repository that nobody changes. *)
UnchangedInv ==
  changes = 0 =>
    /\ seen = tags
    /\ pc = "done" => pulled \in tags /\ (ref = NoTag \/ ref.kind # "digest")
    /\ pc = "error" => Servable = {}

-----------------------------------------------------------------------------
(* A registry tag comes back from "+" to the name that the registry has. *)
LEMMA TagRoundTrip ==
  ASSUME NEW n \in Names, IsRegistryTag(n)
  PROVE  /\ parseReference(Plus(n)) = n /\ n.rank \in Nat
         /\ Plus(n).rank = n.rank /\ Plus(n).kind = n.kind
         /\ IsStrictSemver(Plus(n)) <=> n.kind = "strict"
<1>1. n \in Strings
  BY NamesAssumption
<1>2. n = [kind |-> n.kind, rank |-> n.rank, meta |-> n.meta] /\ n.meta \in {"none", "_"}
  BY <1>1 DEF IsRegistryTag, Strings
<1>3. CASE n.meta = "_"
  <2> DEFINE version == [n EXCEPT !.meta = "+"]
             back == [version EXCEPT !.meta = "_"]
  <2>1. /\ version \in Strings /\ version.meta = "+"
        /\ version.kind = n.kind /\ version.rank = n.rank
    BY <1>1 DEF Strings
  <2>2. back \in Strings /\ back.kind = n.kind /\ back.rank = n.rank /\ back.meta = n.meta
    <3> HIDE DEF version
    <3> QED
      BY <1>3, <2>1 DEF Strings
  <2>3. back = n
    <3> HIDE DEF back
    <3>1. back = [kind |-> back.kind, rank |-> back.rank, meta |-> back.meta]
      BY <2>2 DEF Strings
    <3>2. n = [kind |-> n.kind, rank |-> n.rank, meta |-> n.meta]
      BY <1>2
    <3> QED
      BY <2>2, <3>1, <3>2
  <2>4. Plus(n) = version
    BY <1>3 DEF Plus
  <2>5. parseReference(Plus(n)) = back
    BY <2>1, <2>4 DEF parseReference
  <2>6. IsStrictSemver(Plus(n)) <=> n.kind = "strict"
    <3> HIDE DEF version
    <3> QED
      BY <2>1, <2>4 DEF IsStrictSemver, IsSemver
  <2>7. n.rank \in Nat
    BY <1>1 DEF Strings
  <2> QED
    BY <2>1, <2>3, <2>4, <2>5, <2>6, <2>7
<1>4. CASE n.meta = "none"
  <2>1. Plus(n) = n /\ parseReference(n) = n
    BY <1>4 DEF Plus, parseReference
  <2>2. n.rank \in Nat
    BY <1>1 DEF Strings
  <2> QED
    BY <1>4, <2>1, <2>2 DEF IsStrictSemver, IsSemver
<1> QED
  BY <1>2, <1>3, <1>4

(* No version is one of the values that stand for no version. *)
LEMMA VersionsAreNames ==
  ASSUME NEW n \in Names PROVE n \notin {NoTag, AnyVersion} /\ Plus(n) \notin {NoTag, AnyVersion}
<1>1. n \in Strings /\ Plus(n) \in Strings
  BY NamesAssumption DEF Plus, Strings
<1> QED
  BY <1>1, NamesAssumption

(* A set of natural numbers that is not empty has a least element. *)
LEMMA LeastExists ==
  ASSUME NEW S, S \subseteq Nat, S # {}
  PROVE  \E i \in S : \A j \in S : i <= j
<1> DEFINE R == {ss \in Nat \X Nat : ss[1] < ss[2]}
<1>1. IsWellFoundedOn(R, Nat)
  BY NatLessThanWellFounded DEF OpToRel
<1>2. PICK i \in S : \A j \in S : <<j, i>> \notin R
  <2> HIDE DEF R
  <2> QED
    BY <1>1, WFMin
<1>3. \A j \in S : ~(j < i)
  <2> TAKE j \in S
  <2>1. <<j, i>> \notin R /\ <<j, i>> \in Nat \X Nat
    BY <1>2
  <2> QED
    BY <2>1
<1> QED
  BY <1>3

(* The versions of a finite set can be put in descending order: take one of   *)
(* the lowest away, order the rest, and put it at the end.  A smallest set    *)
(* that cannot be ordered would be one that can. *)
Descending(versions) ==
  {list \in Listings(versions) :
     \A i, j \in DOMAIN list : i < j => list[i].rank >= list[j].rank}

LEMMA OneMoreVersion ==
  ASSUME NEW V \in SUBSET Strings, IsFiniteSet(V),
         NEW low \in V, \A v \in V : low.rank <= v.rank, Descending(V \ {low}) # {}
  PROVE  Descending(V) # {}
<1> DEFINE n == Cardinality(V)
           rest == V \ {low}
<1>1. n \in Nat /\ n > 0 /\ Cardinality(rest) = n - 1
  BY FS_CardinalityType, FS_EmptySet, FS_RemoveElement
<1>2. PICK list \in Descending(rest) : TRUE
  OBVIOUS
<1>3. /\ list \in [1..(n - 1) -> rest] /\ Range(list) = rest
      /\ \A i, j \in 1..(n - 1) : i < j => list[i].rank >= list[j].rank
  BY <1>1, <1>2 DEF Descending, Listings
<1> DEFINE longer == [i \in 1..n |-> IF i = n THEN low ELSE list[i]]
<1>4. /\ longer \in [1..n -> V] /\ longer[n] = low
      /\ \A i \in 1..(n - 1) : longer[i] = list[i]
  BY <1>1, <1>3
<1>5. Range(longer) = V
  <2>1. ASSUME NEW v \in V PROVE \E i \in 1..n : longer[i] = v
    <3>1. CASE v = low
      BY <1>1, <1>4, <3>1
    <3>2. CASE v # low
      <4>1. PICK i \in 1..(n - 1) : list[i] = v
        BY <1>3, <3>2 DEF Range
      <4> QED
        BY <1>1, <1>4, <4>1
    <3> QED
      BY <3>1, <3>2
  <2> QED
    BY <1>4, <2>1 DEF Range
<1>6. ASSUME NEW i \in 1..n, NEW j \in 1..n, i < j PROVE longer[i].rank >= longer[j].rank
  <2>1. i \in 1..(n - 1) /\ longer[i] = list[i] /\ list[i] \in V
    BY <1>1, <1>3, <1>4, <1>6
  <2>2. low.rank \in Nat /\ list[i].rank \in Nat
    BY <2>1 DEF Strings
  <2>3. CASE j = n
    BY <1>4, <2>1, <2>2, <2>3
  <2>4. CASE j # n
    BY <1>1, <1>3, <1>4, <1>6, <2>1, <2>4
  <2> QED
    BY <2>3, <2>4
<1>7. longer \in Descending(V)
  <2> HIDE DEF longer
  <2> QED
    BY <1>4, <1>5, <1>6 DEF Descending, Listings
<1> QED
  BY <1>7

LEMMA DescendingExists ==
  ASSUME NEW V \in SUBSET Strings, IsFiniteSet(V)
  PROVE  Descending(V) # {}
<1> DEFINE Unlisted(n) == {U \in SUBSET Strings : /\ IsFiniteSet(U) /\ Cardinality(U) = n
                                                  /\ Descending(U) = {}}
           Sizes == {n \in Nat : Unlisted(n) # {}}
<1> SUFFICES ASSUME Sizes # {} PROVE FALSE
  BY FS_CardinalityType
<1>1. PICK n \in Sizes : \A m \in Sizes : n <= m
  BY LeastExists
<1>2. PICK U \in SUBSET Strings : IsFiniteSet(U) /\ Cardinality(U) = n /\ Descending(U) = {}
  BY <1>1
<1>3. CASE U = {}
  <2> DEFINE none == [i \in 1..0 |-> 0]
  <2>1. none \in [1..0 -> {}] /\ Range(none) = {} /\ DOMAIN none = {}
    BY DEF Range
  <2>2. none \in Descending({})
    <3> HIDE DEF none
    <3> QED
      BY <2>1, FS_EmptySet DEF Descending, Listings
  <2> QED
    BY <1>2, <1>3, <2>2
<1>4. CASE U # {}
  <2> DEFINE ranks == {v.rank : v \in U}
  <2>1. ranks \subseteq Nat /\ ranks # {}
    <3>1. \A v \in U : v.rank \in Nat
      BY <1>2 DEF Strings
    <3> QED
      BY <1>4, <3>1
  <2>2. PICK low \in U : \A v \in U : low.rank <= v.rank
    <3>1. \E k \in ranks : \A m \in ranks : k <= m
      <4> HIDE DEF ranks
      <4> QED
        BY <2>1, LeastExists
    <3> QED
      BY <3>1
  <2>3. /\ IsFiniteSet(U \ {low}) /\ Cardinality(U \ {low}) = n - 1
        /\ n - 1 \in Nat
    <3>1. n \in Nat /\ n # 0
      BY <1>2, <1>4, FS_CardinalityType, FS_EmptySet
    <3>2. IsFiniteSet(U \ {low}) /\ Cardinality(U \ {low}) = Cardinality(U) - 1
      BY <1>2, <2>2, FS_RemoveElement
    <3> QED
      BY <1>2, <3>1, <3>2
  <2>4. n - 1 \notin Sizes
    BY <1>1, <2>3
  <2>5. Descending(U \ {low}) # {}
    BY <1>2, <2>3, <2>4
  <2> QED
    BY <1>2, <2>2, <2>5, OneMoreVersion
<1> QED
  BY <1>3, <1>4

(* Every repository has a listing in the order that sort.Sort promises,       *)
(* whatever versions it holds and however many have the same precedence: the  *)
(* model's ListTags is never stuck for want of an order (client.go:628-637).  *)
THEOREM ListingExists ==
  ASSUME NEW repo \in SUBSET {n \in Names : IsRegistryTag(n)}, IsFiniteSet(repo)
  PROVE  Tags(repo) # {}
<1> DEFINE strict == {n \in repo : IsStrictSemver(Plus(n))}
           plus == [n \in strict |-> Plus(n)]
<1>1. VersionsOf(repo) \in SUBSET Strings
  <2>1. \A n \in repo : Plus(n) \in Strings
    BY NamesAssumption DEF Plus, Strings
  <2> QED
    BY <2>1 DEF VersionsOf
<1>2. IsFiniteSet(VersionsOf(repo))
  <2>1. IsFiniteSet(strict)
    BY FS_Subset
  <2>2. plus \in Surjection(strict, VersionsOf(repo))
    BY DEF Surjection, VersionsOf
  <2> QED
    BY <2>1, <2>2, FS_Surjection
<1>3. Tags(repo) = Descending(VersionsOf(repo))
  BY DEF Tags, Descending
<1> QED
  BY <1>1, <1>2, <1>3, DescendingExists

(* The match in a sorted list: a version that nothing in the list outranks,   *)
(* or none when there is no version above the lowest of all.                  *)
LEMMA FirstMatchIsBest ==
  ASSUME NEW repo \in SUBSET {n \in Names : IsRegistryTag(n)}, NEW list \in Tags(repo)
  PROVE  LET tag == GetTagMatchingVersionOrConstraint(list, AnyVersion) IN
         \/ tag = NoTag /\ \A n \in repo : ~Best(n, repo)
         \/ tag # NoTag /\ \E n \in repo : Best(n, repo) /\ tag = Plus(n)
<1> DEFINE versions == VersionsOf(repo)
           matching == {i \in DOMAIN list : list[i].rank > 0}
           first == CHOOSE i \in matching : \A j \in matching : i <= j
           tag == GetTagMatchingVersionOrConstraint(list, AnyVersion)
<1>1. /\ list \in [1..Cardinality(versions) -> versions] /\ Range(list) = versions
      /\ \A i, j \in DOMAIN list : i < j => list[i].rank >= list[j].rank
  BY DEF Tags, Listings
<1>2. \A v \in versions : \E n \in repo : v = Plus(n) /\ IsStrictSemver(Plus(n))
  BY DEF VersionsOf
<1>3. AnyVersion \notin Range(list)
  BY <1>1, <1>2, VersionsAreNames
<1>4. tag = IF matching # {} THEN list[first] ELSE NoTag
  BY <1>3 DEF GetTagMatchingVersionOrConstraint
<1>5. \A n \in repo : IsStrictSemver(Plus(n)) => \E i \in DOMAIN list : list[i] = Plus(n)
  <2> TAKE n \in repo
  <2> HAVE IsStrictSemver(Plus(n))
  <2>1. Plus(n) \in Range(list)
    BY <1>1 DEF VersionsOf
  <2> QED
    BY <2>1 DEF Range
<1>6. DOMAIN list \subseteq Nat
  BY <1>1
<1>7. CASE matching = {}
  <2>1. \A n \in repo : ~Best(n, repo)
    BY <1>5, <1>7, TagRoundTrip DEF Best
  <2> QED
    BY <1>4, <1>7, <2>1
<1>8. CASE matching # {}
  <2>1. first \in matching /\ \A j \in matching : first <= j
    <3>1. matching \in SUBSET Nat
      BY <1>6
    <3>2. \E i \in matching : \A j \in matching : i <= j
      <4> HIDE DEF matching
      <4> QED
        BY <1>8, <3>1, LeastExists
    <3> QED
      BY <3>2
  <2>2. first \in DOMAIN list /\ list[first] \in versions /\ list[first].rank > 0
    BY <1>1, <2>1
  <2>3. PICK n \in repo : list[first] = Plus(n) /\ IsStrictSemver(Plus(n))
    BY <1>2, <2>2
  <2>4. n.rank = list[first].rank /\ n.rank \in Nat
    BY <2>3, TagRoundTrip
  <2>5. ASSUME NEW m \in repo, IsStrictSemver(Plus(m)) PROVE m.rank <= n.rank
    <3>1. PICK j \in DOMAIN list : list[j] = Plus(m)
      BY <1>5, <2>5
    <3>2. list[j].rank = m.rank /\ m.rank \in Nat
      BY <3>1, TagRoundTrip
    <3>3. CASE m.rank = 0
      BY <2>4, <3>3
    <3>4. CASE m.rank > 0
      <4>1. j \in matching /\ first <= j
        BY <2>1, <3>1, <3>2, <3>4
      <4>2. first = j \/ first < j
        BY <1>6, <2>2, <4>1
      <4> QED
        <5>1. list[first].rank >= list[j].rank
          <6> HIDE DEF first, matching
          <6>1. CASE first = j
            BY <3>2, <6>1
          <6>2. CASE first < j
            BY <1>1, <2>2, <6>2
          <6> QED
            BY <4>2, <6>1, <6>2
        <5> QED
          BY <2>4, <3>2, <5>1
    <3> QED
      BY <3>2, <3>3, <3>4
  <2>6. Best(n, repo) /\ tag = Plus(n)
    BY <1>4, <1>8, <2>2, <2>3, <2>4, <2>5 DEF Best
  <2> QED
    BY <2>6, VersionsAreNames
<1> QED
  BY <1>7, <1>8

-----------------------------------------------------------------------------
(* The types and the origin of what is pulled are inductive together. *)
LEMMA ChosenInvariant == Spec => [](TypeOK /\ ChosenInv)
<1> USE NamesAssumption, ChangesAssumption
<1>1. Init => TypeOK /\ ChosenInv
  BY DEF Init, TypeOK, ChosenInv
<1>2. TypeOK /\ ChosenInv /\ [Next]_vars => (TypeOK /\ ChosenInv)'
  <2> SUFFICES ASSUME TypeOK, ChosenInv, [Next]_vars PROVE (TypeOK /\ ChosenInv)'
    OBVIOUS
  <2> USE DEF TypeOK, ChosenInv, Exact, Unread
  <2>1. CASE ResolveVersion
    <3>1. ref \in Names => ref # AnyVersion
      BY VersionsAreNames
    <3> QED
      BY <2>1, <3>1 DEF ResolveVersion, getVersionFromRef
  <2>2. CASE ListTags
    <3> PICK list \in Tags(tags) :
          LET tag == GetTagMatchingVersionOrConstraint(list, AnyVersion) IN
          IF tag = NoTag THEN pc' = "error" /\ UNCHANGED chosen
                         ELSE pc' = "pull" /\ chosen' = tag
      BY <2>2 DEF ListTags
    <3> DEFINE tag == GetTagMatchingVersionOrConstraint(list, AnyVersion)
    <3>1. CASE tag = NoTag
      BY <2>2, <3>1 DEF ListTags
    <3>2. CASE tag # NoTag
      <4>1. PICK n \in tags : Best(n, tags) /\ tag = Plus(n)
        BY <3>2, FirstMatchIsBest
      <4>2. pc' = "pull" /\ chosen' = Plus(n) /\ seen' = tags /\ n \in Names
        BY <2>2, <3>2, <4>1 DEF ListTags
      <4> QED
        BY <2>2, <4>1, <4>2 DEF ListTags
    <3> QED
      BY <3>1, <3>2
  <2>3. CASE PullTag
    BY <2>3 DEF PullTag
  <2>4. CASE ChangeTags
    BY <2>4 DEF ChangeTags
  <2>5. CASE RegistryFails
    BY <2>5 DEF RegistryFails
  <2>6. CASE UNCHANGED vars
    BY <2>6 DEF vars
  <2> QED
    BY <2>1, <2>2, <2>3, <2>4, <2>5, <2>6 DEF Next, Finished
<1> QED
  BY <1>1, <1>2, PTL DEF Spec

(* What is pulled, by cases. *)
LEMMA PulledTag ==
  ASSUME TypeOK, ChosenInv, pc \in {"pull", "done"}
  PROVE  /\ Exact => ref \in Names /\ parseReference(chosen) = ref
         /\ ~Exact => Best(parseReference(chosen), seen)
<1>1. CASE Exact
  BY <1>1 DEF TypeOK, ChosenInv, Exact, parseReference, ParsesInReference
<1>2. CASE ~Exact
  BY <1>2, TagRoundTrip DEF TypeOK, ChosenInv
<1> QED
  BY <1>1, <1>2

(* The tags that a reference designates, by cases. *)
LEMMA DesignatedCases ==
  ASSUME NEW repo \in SUBSET {n \in Names : IsRegistryTag(n)}
  PROVE  Designated(ref, repo) =
           IF ref # NoTag /\ (~ParsesInReference(ref) \/ ref.kind = "digest") THEN {}
           ELSE IF Exact THEN {ref} ELSE {n \in repo : Best(n, repo)}
<1>1. \A n \in repo : IsStrictSemver(Plus(n)) <=> n.kind = "strict"
  BY TagRoundTrip
<1>2. {n \in repo : Best(n, repo)} =
        {n \in repo : /\ n.kind = "strict" /\ n.rank > 0
                      /\ \A m \in repo : m.kind = "strict" => m.rank <= n.rank}
  BY <1>1 DEF Best
<1> QED
  BY <1>2 DEF Designated, Exact

(* The tags that may answer a reference, by cases. *)
LEMMA ServableCases ==
  ASSUME TypeOK, ref = NoTag \/ (ParsesInReference(ref) /\ ref.kind # "digest")
  PROVE  Servable = IF Exact THEN {ref} \cap tags ELSE {n \in tags : Best(n, tags)}
<1>1. tags \in SUBSET {n \in Names : IsRegistryTag(n)}
  BY DEF TypeOK
<1> QED
  BY <1>1, DesignatedCases DEF Servable

LEMMA UnchangedInvariant == Spec => []UnchangedInv
<1> USE ChangesAssumption
<1>1. Init => UnchangedInv
  BY DEF Init, UnchangedInv
<1>2. TypeOK /\ ChosenInv /\ UnchangedInv /\ [Next]_vars => UnchangedInv'
  <2> SUFFICES ASSUME TypeOK, ChosenInv, UnchangedInv, [Next]_vars, changes' = 0
               PROVE  UnchangedInv'
    BY DEF UnchangedInv
  <2>1. ~ChangeTags /\ ~RegistryFails
    BY DEF ChangeTags, RegistryFails, TypeOK
  <2>2. changes = 0 /\ UNCHANGED <<ref, tags>> /\ seen = tags
    BY <2>1 DEF Next, ResolveVersion, ListTags, PullTag, Finished, Unread, vars, UnchangedInv
  <2>3. Servable' = Servable
    BY <2>2 DEF Servable, Designated
  <2>4. CASE ResolveVersion
    <3>1. pc' # "done" /\ seen' = seen
      BY <2>4 DEF ResolveVersion
    <3>2. pc' = "error" => ref # NoTag /\ ~ParsesInReference(ref)
      BY <2>4 DEF ResolveVersion
    <3> QED
      BY <2>2, <2>3, <3>1, <3>2 DEF UnchangedInv, Servable, Designated
  <2>5. CASE ListTags
    <3>1. pc' # "done" /\ seen' = tags
      BY <2>5 DEF ListTags
    <3>2. ASSUME pc' = "error" PROVE Servable = {}
      <4>1. PICK list \in Tags(tags) : GetTagMatchingVersionOrConstraint(list, AnyVersion) = NoTag
        BY <2>5, <3>2 DEF ListTags
      <4>2. tags \in SUBSET {n \in Names : IsRegistryTag(n)}
        BY DEF TypeOK
      <4>3. \A n \in tags : ~Best(n, tags)
        BY <4>1, <4>2, FirstMatchIsBest
      <4>4. ~Exact /\ (ref = NoTag \/ ParsesInReference(ref))
        BY <2>5 DEF ListTags, ChosenInv
      <4>5. CASE ref # NoTag /\ ref.kind = "digest"
        BY <4>5 DEF Servable, Designated
      <4>6. CASE ref = NoTag \/ ref.kind # "digest"
        BY <4>3, <4>4, <4>6, ServableCases
      <4> QED
        BY <4>5, <4>6
    <3> QED
      BY <2>2, <2>3, <3>1, <3>2 DEF UnchangedInv
  <2>6. CASE PullTag
    <3> DEFINE tag == parseReference(chosen)
    <3>1. pc = "pull" /\ seen' = seen
      BY <2>6 DEF PullTag
    <3>2. CASE tag \in tags /\ (ref = NoTag \/ ref.kind # "digest")
      <4>1. pc' = "done" /\ pulled' = tag
        BY <2>6, <3>2 DEF PullTag
      <4> QED
        BY <2>2, <3>1, <3>2, <4>1 DEF UnchangedInv
    <3>3. CASE ~(tag \in tags /\ (ref = NoTag \/ ref.kind # "digest"))
      <4>1. pc' = "error"
        BY <2>6, <3>3 DEF PullTag
      <4>2. Servable = {}
        <5>1. CASE ref # NoTag /\ ref.kind = "digest"
          BY <5>1 DEF Servable, Designated
        <5>2. CASE ref = NoTag \/ ref.kind # "digest"
          <6>1. tag \notin tags
            BY <3>3, <5>2
          <6>2. ref = NoTag \/ ParsesInReference(ref)
            BY <3>1 DEF ChosenInv
          <6>3. Exact /\ tag = ref
            BY <2>2, <3>1, <6>1, PulledTag DEF Best
          <6> QED
            BY <5>2, <6>1, <6>2, <6>3, ServableCases
        <5> QED
          BY <5>1, <5>2
      <4> QED
        BY <2>2, <2>3, <3>1, <4>1, <4>2 DEF UnchangedInv
    <3> QED
      BY <3>2, <3>3
  <2>7. CASE UNCHANGED vars
    BY <2>2, <2>3, <2>7 DEF vars, UnchangedInv
  <2> QED
    BY <2>1, <2>4, <2>5, <2>6, <2>7 DEF Next, Finished
<1> QED
  BY <1>1, <1>2, ChosenInvariant, PTL DEF Spec

-----------------------------------------------------------------------------
(* Every variable keeps its type. *)
THEOREM TypesHold == Spec => []TypeOK
BY ChosenInvariant, PTL

(* A reference with a semantic version is answered with that version or not   *)
(* at all, whatever the repository holds.                                     *)
THEOREM ExactVersionPulledHolds == Spec => []ExactVersionPulled
<1>1. TypeOK /\ ChosenInv => ExactVersionPulled
  BY PulledTag DEF ExactVersionPulled, Exact, ChosenInv
<1> QED
  BY <1>1, ChosenInvariant, PTL

(* A reference that names no semantic version, having no tag or one that is   *)
(* not a version, is answered with the latest version listed. *)
THEOREM LatestPulledHolds == Spec => []LatestPulled
<1>1. TypeOK /\ ChosenInv => LatestPulled
  <2> SUFFICES ASSUME TypeOK, ChosenInv, pc = "done", ~Exact PROVE LatestPulled
    BY DEF LatestPulled, Exact
  <2>1. Best(pulled, seen)
    BY PulledTag DEF ChosenInv
  <2>2. pulled.kind = "strict"
    BY <2>1, TagRoundTrip DEF TypeOK, Best
  <2> QED
    BY <2>1, <2>2 DEF LatestPulled, Best
<1> QED
  BY <1>1, ChosenInvariant, PTL

(* In an unchanged repository the answer is the reference definition's. *)
THEOREM ResolvesAsSpecifiedHolds == Spec => []ResolvesAsSpecified
<1>1. TypeOK /\ ChosenInv /\ UnchangedInv => ResolvesAsSpecified
  <2> SUFFICES ASSUME TypeOK, ChosenInv, UnchangedInv, changes = 0
               PROVE  (pc = "done" => pulled \in Servable) /\ (pc = "error" => Servable = {})
    BY DEF ResolvesAsSpecified
  <2>1. ASSUME pc = "done" PROVE pulled \in Servable
    <3>1. /\ pulled = parseReference(chosen) /\ pulled \in tags /\ seen = tags
          /\ ref = NoTag \/ (ParsesInReference(ref) /\ ref.kind # "digest")
      BY <2>1 DEF ChosenInv, UnchangedInv
    <3> QED
      BY <2>1, <3>1, PulledTag, ServableCases
  <2> QED
    BY <2>1 DEF UnchangedInv
<1> QED
  BY <1>1, ChosenInvariant, UnchangedInvariant, PTL

-----------------------------------------------------------------------------
(* The refinement of TagChoice. *)

ChoiceOf == IF chosen = NoTag \/ Digest THEN NoTag ELSE parseReference(chosen)

(* What has been chosen when the tag is pulled, as TagChoice sees it. *)
LEMMA ChoicePulled ==
  ASSUME TypeOK, ChosenInv, pc = "pull", ~Digest
  PROVE  ChoiceOf = parseReference(chosen)
<1>1. CASE Exact
  BY <1>1, VersionsAreNames DEF TypeOK, ChosenInv, Exact, ChoiceOf
<1>2. CASE ~Exact
  BY <1>2, VersionsAreNames DEF TypeOK, ChosenInv, ChoiceOf
<1> QED
  BY <1>1, <1>2

(* Whatever the repository becomes between the steps, a download answers with *)
(* a tag that was designated at one moment and present at a later one, and    *)
(* fails only for want of one or because a request failed.                    *)
THEOREM DownloadsKeepThePromise == Spec => ImplementsTagChoice
<1> USE ChangesAssumption
<1>1. Init => Choice!Init
  BY DEF Init, Choice!Init, Phase
<1>2. TypeOK /\ ChosenInv /\ [Next]_vars => [Choice!Next]_Choice!vars
  <2> SUFFICES ASSUME TypeOK, ChosenInv, [Next]_vars PROVE Choice!Next \/ UNCHANGED Choice!vars
    OBVIOUS
  <2> USE DEF Choice!vars, ChoiceOf
  <2>1. CASE ResolveVersion
    <3>1. CASE ref # NoTag /\ ~ParsesInReference(ref)
      <4>1. pc = "start" /\ pc' = "error" /\ UNCHANGED <<ref, tags, chosen, pulled, changes>>
        BY <2>1, <3>1 DEF ResolveVersion, Unread
      <4>2. Phase = "asked" /\ Phase' = "failed"
        BY <4>1 DEF Phase
      <4>3. Designated(ref, tags) = {}
        BY <3>1 DEF Designated
      <4> QED
        BY <4>1, <4>2, <4>3 DEF Choice!Next, Choice!Fail, Digest
    <3>2. CASE ~(ref # NoTag /\ ~ParsesInReference(ref)) /\ ~Exact
      <4>1. /\ pc = "start" /\ pc' = "list"
            /\ UNCHANGED <<ref, tags, chosen, pulled, changes>>
        BY <2>1, <3>2 DEF ResolveVersion, Unread, getVersionFromRef, Exact
      <4> QED
        BY <4>1 DEF Phase, Digest
    <3>3. CASE ~(ref # NoTag /\ ~ParsesInReference(ref)) /\ Exact
      <4>1. ref \in Names /\ ref # AnyVersion /\ ref # NoTag
        BY <3>3, VersionsAreNames DEF TypeOK, Exact
      <4>2. /\ pc = "start" /\ pc' = "pull" /\ chosen' = ref
            /\ UNCHANGED <<ref, tags, pulled, changes>>
        BY <2>1, <3>3, <4>1 DEF ResolveVersion, Unread, getVersionFromRef, Exact
      <4>3. ~Digest /\ parseReference(ref) = ref
        BY <3>3 DEF Exact, Digest, IsSemver, ParsesInReference, parseReference
      <4>4. Phase = "asked" /\ Phase' = "chosen" /\ ChoiceOf' = ref
        BY <4>1, <4>2, <4>3 DEF Phase, Digest
      <4>5. Designated(ref, tags) = {ref}
        BY <3>3, <4>3 DEF Designated, Exact, Digest
      <4> QED
        BY <4>2, <4>4, <4>5 DEF Choice!Next, Choice!Choose
    <3> QED
      BY <3>1, <3>2, <3>3
  <2>2. CASE ListTags
    <3>1. PICK list \in Tags(tags) :
            LET tag == GetTagMatchingVersionOrConstraint(list, AnyVersion) IN
            IF tag = NoTag THEN pc' = "error" /\ UNCHANGED chosen
                           ELSE pc' = "pull" /\ chosen' = tag
      BY <2>2 DEF ListTags
    <3> DEFINE tag == GetTagMatchingVersionOrConstraint(list, AnyVersion)
    <3>2. pc = "list" /\ UNCHANGED <<ref, tags, pulled, changes>>
      BY <2>2 DEF ListTags, Unread
    <3>3. tags \in SUBSET {n \in Names : IsRegistryTag(n)}
      BY DEF TypeOK
    <3>4. ~Exact /\ (ref = NoTag \/ ParsesInReference(ref))
      BY <3>2 DEF ChosenInv
    <3>5. CASE tag = NoTag
      <4>1. pc' = "error" /\ UNCHANGED chosen /\ \A n \in tags : ~Best(n, tags)
        BY <3>1, <3>3, <3>5, FirstMatchIsBest
      <4>2. Designated(ref, tags) = {}
        BY <3>3, <3>4, <4>1, DesignatedCases
      <4>3. Phase = "asked" /\ Phase' = "failed"
        BY <3>2, <4>1 DEF Phase
      <4> QED
        BY <3>2, <4>1, <4>2, <4>3 DEF Choice!Next, Choice!Fail, Digest
    <3>6. CASE tag # NoTag
      <4>1. PICK n \in tags : Best(n, tags) /\ tag = Plus(n)
        BY <3>3, <3>6, FirstMatchIsBest
      <4>2. pc' = "pull" /\ chosen' = Plus(n) /\ n \in Names /\ parseReference(Plus(n)) = n
        BY <3>1, <3>3, <3>6, <4>1, TagRoundTrip
      <4>3. CASE Digest
        BY <3>2, <4>2, <4>3 DEF Phase, Digest
      <4>4. CASE ~Digest
        <5>1. Phase = "asked" /\ Phase' = "chosen" /\ ~Digest'
          BY <3>2, <4>2, <4>4 DEF Phase, Digest
        <5>2. ChoiceOf' = n
          BY <4>2, <5>1, VersionsAreNames
        <5>3. n \in Designated(ref, tags)
          BY <3>3, <3>4, <4>1, <4>4, DesignatedCases DEF Digest
        <5> QED
          BY <3>2, <5>1, <5>2, <5>3 DEF Choice!Next, Choice!Choose
      <4> QED
        BY <4>3, <4>4
    <3> QED
      BY <3>5, <3>6
  <2>3. CASE PullTag
    <3>1. pc = "pull" /\ UNCHANGED <<ref, tags, chosen, changes>>
      BY <2>3 DEF PullTag, Unread
    <3>2. CASE Digest
      <4>1. pc' = "error" /\ pulled' = pulled
        BY <2>3, <3>2 DEF PullTag, Digest
      <4>2. Phase = "asked" /\ Phase' = "failed"
        BY <3>1, <3>2, <4>1 DEF Phase
      <4>3. Designated(ref, tags) = {}
        BY <3>2 DEF Designated, Digest
      <4> QED
        BY <3>1, <4>1, <4>2, <4>3 DEF Choice!Next, Choice!Fail, Digest
    <3>3. CASE ~Digest
      <4> DEFINE tag == parseReference(chosen)
      <4>1. Phase = "chosen" /\ ChoiceOf = tag /\ ChoiceOf' = ChoiceOf
        BY <3>1, <3>3, ChoicePulled DEF Phase, Digest
      <4>2. CASE tag \in tags
        <5>1. pc' = "done" /\ pulled' = tag
          BY <2>3, <3>3, <4>2 DEF PullTag, Digest
        <5> QED
          BY <3>1, <4>1, <4>2, <5>1 DEF Phase, Choice!Next, Choice!Answer
      <4>3. CASE tag \notin tags
        <5>1. pc' = "error" /\ pulled' = pulled
          BY <2>3, <4>3 DEF PullTag
        <5> QED
          BY <3>1, <4>1, <4>3, <5>1 DEF Phase, Choice!Next, Choice!Fail
      <4> QED
        BY <4>2, <4>3
    <3> QED
      BY <3>2, <3>3
  <2>4. CASE ChangeTags
    <3>1. tags' \in SUBSET {n \in Names : IsRegistryTag(n)}
      BY <2>4 DEF ChangeTags, TypeOK
    <3> QED
      BY <2>4, <3>1 DEF ChangeTags, Phase, Digest, Choice!Next, Choice!Change
  <2>5. CASE RegistryFails
    <3>1. Phase \in {"asked", "chosen"} /\ Phase' = "failed"
      BY <2>5 DEF RegistryFails, Phase
    <3> QED
      BY <2>5, <3>1 DEF RegistryFails, Digest, Choice!Next, Choice!RequestFails
  <2>6. CASE UNCHANGED vars
    BY <2>6 DEF vars, Phase, Digest
  <2> QED
    BY <2>1, <2>2, <2>3, <2>4, <2>5, <2>6 DEF Next, Finished
<1> QED
  BY <1>1, <1>2, ChosenInvariant, PTL DEF Spec, ImplementsTagChoice, Choice!Spec
=============================================================================
