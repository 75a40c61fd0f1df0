--------------------------- MODULE RegistryImage ---------------------------
(* registry.Client's Push and Pull of one tag, request by request: a push     *)
(* uploads the metadata and the wasm blob, then the manifest that makes the   *)
(* tag name them; a pull resolves the tag, fetches the manifest by digest,    *)
(* then the blobs of the two media types it allows.  Several of each run at   *)
(* once, any request can fail, and others retag or delete the image.          *)

CONSTANTS Pushers, Pullers,
          WasmOf,    \* pusher -> the bytes of its .wasm file
          Foreign,   \* manifests that other tools pushed
          Corrupt,   \* a metadata blob that is not JSON
          NoImage    \* no manifest, no image

Medias == {"metadata", "wasm", "other"}

Manifest(children) == [children |-> children]
Image(metadata, wasm) == [metadata |-> metadata, wasm |-> wasm]

ASSUME ForeignAssumption ==
  \A m \in Foreign : \A b \in m.children :
    b = [media |-> b.media, data |-> b.data] /\ b.media \in Medias

(* The metadata of a push was marshalled a moment before (client.go:520). *)
ASSUME CorruptAssumption == Corrupt \notin Pushers

VARIABLES push,       \* pusher -> where its Push is
          pull,       \* puller -> where its Pull is
          blobs,      \* the blobs in the registry, addressed by their content
          manifests,  \* the manifests in the registry, addressed by content
          tag,        \* the manifest that the tag names
          target,     \* puller -> the manifest that the tag named for it
          fetched,    \* puller -> the blobs in its memory store
          result      \* puller -> the image it returns

vars == <<push, pull, blobs, manifests, tag, target, fetched, result>>
pushing == <<push, blobs, manifests, tag>>
pulling == <<pull, target, fetched, result>>

-----------------------------------------------------------------------------
(* Manifests and images. *)

Blob(media, data) == [media |-> media, data |-> data]

PushedManifest(p) == Manifest({Blob("metadata", p), Blob("wasm", WasmOf[p])})

Children(m) == m.children

Allowed(m) == {b \in Children(m) : b.media \in {"metadata", "wasm"}}

OfMedia(m, media) == {b \in Children(m) : b.media = media}

(* What a manifest can be read as.  The loop keeps the last descriptor of a   *)
(* media type, of a list that concurrent copies filled: any one of them.      *)
ImagesOf(m) ==
  IF m = NoImage THEN {}
  ELSE [metadata : OfMedia(m, "metadata") \ {Blob("metadata", Corrupt)},
        wasm : OfMedia(m, "wasm")]

(* The manifests that the registry may ever hold. *)
Known == Foreign \cup {PushedManifest(p) : p \in Pushers}

ASSUME NoImageAssumption == NoImage \notin Known

Init ==
  /\ push = [p \in Pushers |-> "idle"]
  /\ pull = [q \in Pullers |-> "idle"]
  /\ tag \in Foreign \cup {NoImage}
  /\ manifests = IF tag = NoImage THEN {} ELSE {tag}
  /\ blobs = IF tag = NoImage THEN {} ELSE Children(tag)
  /\ target = [q \in Pullers |-> NoImage]
  /\ fetched = [q \in Pullers |-> {}]
  /\ result = [q \in Pullers |-> NoImage]

-----------------------------------------------------------------------------
(* Push. *)

MovePush(p, from, to) == push[p] = from /\ push' = [push EXCEPT ![p] = to]

(* The reference parses and the memory store holds blobs and manifest. *)
StartPush(p) ==
  /\ MovePush(p, "idle", "upload")
  /\ UNCHANGED <<blobs, manifests, tag, pulling>>

(* In any order; a blob that the registry has is not sent again. *)
PushBlob(p) ==
  /\ MovePush(p, "upload", "upload")
  /\ \E b \in Children(PushedManifest(p)) \ blobs : blobs' = blobs \cup {b}
  /\ UNCHANGED <<manifests, tag, pulling>>

(* Mutation: the manifest does not wait for the blobs. *)
PushManifestFirst(p) ==
  /\ MovePush(p, "upload", "ok")
  /\ manifests' = manifests \cup {PushedManifest(p)}
  /\ tag' = PushedManifest(p)
  /\ UNCHANGED <<blobs, pulling>>

(* The answer to the last request may be lost: the push has failed, and yet   *)
(* the tag names its image.                                                   *)
PushManifest(p) ==
  /\ \E end \in {"ok", "failed"} : MovePush(p, "upload", end)
  /\ Children(PushedManifest(p)) \subseteq blobs
  /\ manifests' = manifests \cup {PushedManifest(p)}
  /\ tag' = PushedManifest(p)
  /\ UNCHANGED <<blobs, pulling>>

PushFails(p) ==
  /\ MovePush(p, "idle", "failed") \/ MovePush(p, "upload", "failed")
  /\ UNCHANGED <<blobs, manifests, tag, pulling>>

-----------------------------------------------------------------------------
(* Pull. *)

MovePull(q, from, to) == pull[q] = from /\ pull' = [pull EXCEPT ![q] = to]

Resolve(q) ==
  /\ MovePull(q, "idle", "manifest")
  /\ tag # NoImage
  /\ target' = [target EXCEPT ![q] = tag]
  /\ UNCHANGED <<fetched, result, pushing>>

(* Mutation: the manifest is fetched by tag, after the digest was resolved. *)
FetchManifestByTag(q) ==
  /\ MovePull(q, "manifest", "blobs")
  /\ tag # NoImage
  /\ target' = [target EXCEPT ![q] = tag]
  /\ UNCHANGED <<fetched, result, pushing>>

FetchManifest(q) ==
  /\ MovePull(q, "manifest", "blobs")
  /\ target[q] \in manifests
  /\ UNCHANGED <<target, fetched, result, pushing>>

(* Mutation: the media types are not restricted. *)
FetchAnyBlob(q) ==
  /\ MovePull(q, "blobs", "blobs")
  /\ \E b \in (Children(target[q]) \cap blobs) \ fetched[q] :
       fetched' = [fetched EXCEPT ![q] = @ \cup {b}]
  /\ UNCHANGED <<target, result, pushing>>

FetchBlob(q) ==
  /\ MovePull(q, "blobs", "blobs")
  /\ \E b \in (Allowed(target[q]) \cap blobs) \ fetched[q] :
       fetched' = [fetched EXCEPT ![q] = @ \cup {b}]
  /\ UNCHANGED <<target, result, pushing>>

(* Mutation: the blobs that have arrived are enough. *)
ReadImageEarly(q) ==
  /\ MovePull(q, "blobs", "ok")
  /\ fetched[q] # {}
  /\ result' = [result EXCEPT ![q] =
       [metadata |-> CHOOSE b \in fetched[q] : TRUE, wasm |-> CHOOSE b \in fetched[q] : TRUE]]
  /\ UNCHANGED <<target, fetched, pushing>>

(* Both descriptors are found and both blobs are read from the memory store. *)
ReadImage(q) ==
  /\ MovePull(q, "blobs", "ok")
  /\ Allowed(target[q]) \subseteq fetched[q]
  /\ \E image \in ImagesOf(target[q]) : result' = [result EXCEPT ![q] = image]
  /\ UNCHANGED <<target, fetched, pushing>>

(* A request fails, or what was fetched is not an image: no result. *)
PullFails(q) ==
  /\ \E from \in {"idle", "manifest", "blobs"} : MovePull(q, from, "failed")
  /\ UNCHANGED <<target, fetched, result, pushing>>

-----------------------------------------------------------------------------
(* Someone deletes the manifest that the tag names; blobs stay. *)
Delete ==
  /\ tag # NoImage
  /\ manifests' = manifests \ {tag}
  /\ tag' = NoImage
  /\ UNCHANGED <<push, blobs, pulling>>

Finished ==
  /\ \A p \in Pushers : push[p] \in {"ok", "failed"}
  /\ \A q \in Pullers : pull[q] \in {"ok", "failed"}
  /\ UNCHANGED vars

Next ==
  \/ \E p \in Pushers : StartPush(p) \/ PushBlob(p) \/ PushManifest(p) \/ PushFails(p)
  \/ \E q \in Pullers :
       Resolve(q) \/ FetchManifest(q) \/ FetchBlob(q) \/ ReadImage(q) \/ PullFails(q)
  \/ Delete
  \/ Finished

Spec == Init /\ [][Next]_vars

-----------------------------------------------------------------------------
(* Types of the variables: the memory store of a pull holds only blobs of the *)
(* allowed media types.                                                       *)
TypeOK ==
  LET stored == UNION {Children(m) : m \in Known} IN
  /\ push \in [Pushers -> {"idle", "upload", "ok", "failed"}]
  /\ pull \in [Pullers -> {"idle", "manifest", "blobs", "ok", "failed"}]
  /\ blobs \subseteq stored /\ manifests \subseteq Known
  /\ tag \in Known \cup {NoImage}
  /\ target \in [Pullers -> Known \cup {NoImage}]
  /\ fetched \in [Pullers -> SUBSET {b \in stored : b.media \in {"metadata", "wasm"}}]
  /\ result \in [Pullers -> [metadata : stored, wasm : stored] \cup {NoImage}]

(* The tag never names a manifest that the registry lacks, or one whose blobs *)
(* it lacks, whichever pushes failed half way or crossed each other: whoever  *)
(* resolves the tag can fetch all of it (client.go:548).                      *)
TaggedComplete == tag # NoImage => tag \in manifests /\ Children(tag) \subseteq blobs

(* A pull that succeeds returns metadata that parses and a wasm of one        *)
(* manifest, each in its place, whatever was pushed between its requests and  *)
(* in whatever order its blobs came (client.go:392-407); of a manifest that   *)
(* this program pushed, the two blobs that were pushed together.              *)
PulledWhole ==
  \A q \in Pullers : pull[q] = "ok" =>
    /\ result[q].metadata.media = "metadata" /\ result[q].wasm.media = "wasm"
    /\ result[q].metadata.data # Corrupt
    /\ \/ \E m \in Foreign : {result[q].metadata, result[q].wasm} \subseteq Children(m)
       \/ \E p \in Pushers : result[q] = Image(Blob("metadata", p), Blob("wasm", WasmOf[p]))

Status(state) == CASE state = "idle" -> "idle"
                   [] state = "ok" -> "ok"
                   [] state = "failed" -> "stopped"
                   [] OTHER -> "busy"

Store == INSTANCE ImageStore WITH
  Pushed <- [p \in Pushers |-> Image(Blob("metadata", p), Blob("wasm", WasmOf[p]))],
  Initial <- {ImagesOf(m) : m \in Foreign \cup {NoImage}},
  current <- ImagesOf(tag),
  pushing <- [p \in Pushers |-> Status(push[p])],
  pulling <- [q \in Pullers |-> Status(pull[q])],
  taken <- [q \in Pullers |->
              CASE pull[q] = "ok" -> {result[q]}
                [] pull[q] = "failed" -> {}
                [] OTHER -> ImagesOf(target[q])]

(* Push and Pull, made of many requests, are an atomic replacement and an     *)
(* atomic reading of the image: a pull never mixes two pushes, and a push     *)
(* that has returned is what later pulls find until the tag changes again.    *)
(* What other tools pushed may be read as more than one image.                *)
ImplementsImageStore == Store!Spec
=============================================================================
