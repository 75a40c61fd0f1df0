------------------------- MODULE RegistryImageProofs -------------------------
(* What RegistryImage guarantees for any number of pushes, pulls and foreign  *)
(* manifests, and that it implements ImageStore.                              *)
EXTENDS RegistryImage, TLAPS

-----------------------------------------------------------------------------
(* The descriptors of a manifest. *)

(* Whatever it is read as, both blobs are the manifest's own. *)
LEMMA ImageOfManifest ==
  ASSUME NEW m \in Known, NEW image \in ImagesOf(m)
  PROVE  /\ image = Image(image.metadata, image.wasm)
         /\ {image.metadata, image.wasm} \subseteq Children(m)
         /\ image.metadata.media = "metadata" /\ image.wasm.media = "wasm"
         /\ image.metadata # Blob("metadata", Corrupt)
<1>1. image \in [metadata : OfMedia(m, "metadata") \ {Blob("metadata", Corrupt)},
                 wasm : OfMedia(m, "wasm")]
  BY NoImageAssumption DEF ImagesOf
<1> QED
  BY <1>1 DEF OfMedia, Image

(* What a push puts in the registry is read in one way only. *)
LEMMA PushedIsOneImage ==
  ASSUME NEW p \in Pushers
  PROVE  ImagesOf(PushedManifest(p)) = {Image(Blob("metadata", p), Blob("wasm", WasmOf[p]))}
<1> DEFINE m == PushedManifest(p)
           metadata == Blob("metadata", p)
           wasm == Blob("wasm", WasmOf[p])
<1>1. m # NoImage /\ Children(m) = {metadata, wasm}
  BY NoImageAssumption DEF Known, PushedManifest, Manifest, Children
<1>2. OfMedia(m, "metadata") = {metadata} /\ OfMedia(m, "wasm") = {wasm}
  <2>1. metadata.media = "metadata" /\ wasm.media = "wasm"
    BY DEF Blob
  <2> HIDE DEF m, metadata, wasm
  <2> QED
    BY <1>1, <2>1 DEF OfMedia
<1>3. Blob("metadata", Corrupt) # metadata
  BY CorruptAssumption DEF Blob
<1>4. ImagesOf(m) = [metadata : {metadata}, wasm : {wasm}]
  <2>1. {metadata} \ {Blob("metadata", Corrupt)} = {metadata}
    <3> HIDE DEF metadata
    <3> QED
      BY <1>3
  <2> HIDE DEF m, metadata, wasm
  <2> QED
    BY <1>1, <1>2, <2>1 DEF ImagesOf
<1> QED
  <2> HIDE DEF m, metadata, wasm
  <2>1. Image(metadata, wasm) \in [metadata : {metadata}, wasm : {wasm}]
    BY DEF Image
  <2>2. ASSUME NEW image \in [metadata : {metadata}, wasm : {wasm}]
        PROVE  image = Image(metadata, wasm)
    BY DEF Image
  <2>3. [metadata : {metadata}, wasm : {wasm}] = {Image(metadata, wasm)}
    BY <2>1, <2>2
  <2> QED
    BY <1>4, <2>3 DEF m, metadata, wasm

-----------------------------------------------------------------------------
(* Pushes.  The manifest is the last request of a push, and it waits for the  *)
(* blobs; blobs are never removed.                                            *)

(* The tag never names an image that cannot be fetched whole, however many    *)
(* pushes fail or cross each other.                                           *)
THEOREM TaggedCompleteHolds == Spec => []TaggedComplete
<1>1. Init => TaggedComplete
  BY DEF Init, TaggedComplete
<1>2. TaggedComplete /\ [Next]_vars => TaggedComplete'
  <2> SUFFICES ASSUME TaggedComplete, [Next]_vars PROVE TaggedComplete'
    OBVIOUS
  <2> USE DEF TaggedComplete
  <2>1. ASSUME NEW p \in Pushers, StartPush(p) \/ PushFails(p) PROVE TaggedComplete'
    BY <2>1 DEF StartPush, PushFails
  <2>2. ASSUME NEW p \in Pushers, PushBlob(p) PROVE TaggedComplete'
    BY <2>2 DEF PushBlob
  <2>3. ASSUME NEW p \in Pushers, PushManifest(p) PROVE TaggedComplete'
    BY <2>3 DEF PushManifest
  <2>4. CASE UNCHANGED <<blobs, manifests, tag>>
    BY <2>4
  <2>5. ASSUME NEW q \in Pullers,
               Resolve(q) \/ FetchManifest(q) \/ FetchBlob(q) \/ ReadImage(q) \/ PullFails(q)
        PROVE  TaggedComplete'
    BY <2>4, <2>5 DEF Resolve, FetchManifest, FetchBlob, ReadImage, PullFails, pushing
  <2>6. CASE Delete
    BY <2>6 DEF Delete
  <2>7. CASE UNCHANGED vars
    BY <2>4, <2>7 DEF vars
  <2> QED
    BY <2>1, <2>2, <2>3, <2>5, <2>6, <2>7 DEF Next, Finished
<1> QED
  BY <1>1, <1>2, PTL DEF Spec

-----------------------------------------------------------------------------
(* Pulls.  The digest that a pull resolved names one manifest to its end, so  *)
(* what it returns is the image of that manifest.                             *)

TagKnown == tag \in Known \cup {NoImage}

PullInv ==
  /\ push \in [Pushers -> {"idle", "upload", "ok", "failed"}]
  /\ pull \in [Pullers -> {"idle", "manifest", "blobs", "ok", "failed"}]
  /\ DOMAIN target = Pullers /\ DOMAIN result = Pullers
  /\ TagKnown
  /\ \A q \in Pullers :
       /\ pull[q] = "idle" => target[q] = NoImage
       /\ pull[q] \in {"manifest", "blobs", "ok"} => target[q] \in Known
       /\ pull[q] = "ok" => result[q] \in ImagesOf(target[q])

(* PullInv is inductive. *)
LEMMA PullInvariant == Spec => []PullInv
<1> USE DEF PullInv, TagKnown
<1>1. Init => PullInv
  BY DEF Init, Known
<1>2. PullInv /\ [Next]_vars => PullInv'
  <2> SUFFICES ASSUME PullInv, [Next]_vars PROVE PullInv'
    OBVIOUS
  <2>1. ASSUME NEW p \in Pushers, StartPush(p) PROVE PullInv'
    BY <2>1 DEF StartPush, MovePush, pulling
  <2>2. ASSUME NEW p \in Pushers, PushBlob(p) PROVE PullInv'
    BY <2>2 DEF PushBlob, MovePush, pulling
  <2>3. ASSUME NEW p \in Pushers, PushManifest(p) PROVE PullInv'
    BY <2>3 DEF PushManifest, MovePush, pulling, Known
  <2>4. ASSUME NEW p \in Pushers, PushFails(p) PROVE PullInv'
    BY <2>4 DEF PushFails, MovePush, pulling
  <2>5. ASSUME NEW q \in Pullers, Resolve(q) PROVE PullInv'
    BY <2>5 DEF Resolve, MovePull, pushing
  <2>6. ASSUME NEW q \in Pullers, FetchManifest(q) PROVE PullInv'
    BY <2>6 DEF FetchManifest, MovePull, pushing
  <2>7. ASSUME NEW q \in Pullers, FetchBlob(q) PROVE PullInv'
    BY <2>7 DEF FetchBlob, MovePull, pushing
  <2>8. ASSUME NEW q \in Pullers, ReadImage(q) PROVE PullInv'
    BY <2>8 DEF ReadImage, MovePull, pushing
  <2>9. ASSUME NEW q \in Pullers, PullFails(q) PROVE PullInv'
    BY <2>9 DEF PullFails, MovePull, pushing
  <2>10. CASE Delete
    BY <2>10 DEF Delete, pulling
  <2>11. CASE UNCHANGED vars
    BY <2>11 DEF vars
  <2> QED
    BY <2>1, <2>2, <2>3, <2>4, <2>5, <2>6, <2>7, <2>8, <2>9, <2>10, <2>11
    DEF Next, Finished
<1> QED
  BY <1>1, <1>2, PTL DEF Spec

(* What a pull returns is the metadata and the wasm of one manifest, each in  *)
(* its place, whatever was pushed, retagged or deleted between its requests   *)
(* and in whatever order the blobs of the manifest came.                      *)
THEOREM PulledWholeHolds == Spec => []PulledWhole
<1>1. PullInv => PulledWhole
  <2> SUFFICES ASSUME PullInv, NEW q \in Pullers, pull[q] = "ok"
               PROVE  /\ result[q].metadata.media = "metadata" /\ result[q].wasm.media = "wasm"
                      /\ result[q].metadata.data # Corrupt
                      /\ \/ \E m \in Foreign :
                              {result[q].metadata, result[q].wasm} \subseteq Children(m)
                         \/ \E p \in Pushers :
                              result[q] = Image(Blob("metadata", p), Blob("wasm", WasmOf[p]))
    BY DEF PulledWhole
  <2> DEFINE m == target[q]
  <2>1. m \in Known /\ result[q] \in ImagesOf(m)
    BY DEF PullInv
  <2>2. /\ {result[q].metadata, result[q].wasm} \subseteq Children(m)
        /\ result[q].metadata.media = "metadata" /\ result[q].wasm.media = "wasm"
        /\ result[q].metadata # Blob("metadata", Corrupt)
    BY <2>1, ImageOfManifest
  <2>3. CASE m \in Foreign
    <3>1. PICK b \in Children(m) : b = result[q].metadata
      BY <2>2
    <3>2. b = Blob(b.media, b.data)
      BY <2>3, <3>1, ForeignAssumption DEF Blob, Children
    <3> QED
      BY <2>2, <2>3, <3>1, <3>2
  <2>4. CASE \E p \in Pushers : m = PushedManifest(p)
    <3>1. PICK p \in Pushers : result[q] = Image(Blob("metadata", p), Blob("wasm", WasmOf[p]))
      BY <2>1, <2>4, PushedIsOneImage
    <3>2. result[q].metadata.data = p
      BY <3>1 DEF Image, Blob
    <3> QED
      BY <2>2, <3>1, <3>2, CorruptAssumption
  <2> QED
    BY <2>1, <2>3, <2>4 DEF Known
<1> QED
  BY <1>1, PullInvariant, PTL

Stored == UNION {Children(m) : m \in Known}

(* Every variable keeps its type: in particular a pull holds only blobs of the *)
(* media types it allows, and what it returns are blobs of known manifests.   *)
THEOREM TypeCorrect == Spec => []TypeOK
<1> USE DEF TypeOK, Stored
<1>1. Init => TypeOK
  BY DEF Init, Known
<1>2. PullInv /\ TypeOK /\ [Next]_vars => TypeOK'
  <2> SUFFICES ASSUME PullInv, TypeOK, [Next]_vars PROVE TypeOK'
    OBVIOUS
  <2>1. ASSUME NEW p \in Pushers, StartPush(p) PROVE TypeOK'
    BY <2>1 DEF StartPush, MovePush, pulling
  <2>2. ASSUME NEW p \in Pushers, PushBlob(p) PROVE TypeOK'
    <3>1. PushedManifest(p) \in Known
      BY DEF Known
    <3>2. Children(PushedManifest(p)) \subseteq Stored
      BY <3>1
    <3>3. blobs' \subseteq Stored
      BY <2>2, <3>2 DEF PushBlob
    <3> QED
      BY <2>2, <3>3 DEF PushBlob, MovePush, pulling
  <2>3. ASSUME NEW p \in Pushers, PushManifest(p) PROVE TypeOK'
    BY <2>3 DEF PushManifest, MovePush, pulling, Known
  <2>4. ASSUME NEW p \in Pushers, PushFails(p) PROVE TypeOK'
    BY <2>4 DEF PushFails, MovePush, pulling
  <2>5. ASSUME NEW q \in Pullers, Resolve(q) PROVE TypeOK'
    BY <2>5 DEF Resolve, MovePull, pushing
  <2>6. ASSUME NEW q \in Pullers, FetchManifest(q) PROVE TypeOK'
    BY <2>6 DEF FetchManifest, MovePull, pushing
  <2>7. ASSUME NEW q \in Pullers, FetchBlob(q) PROVE TypeOK'
    <3>1. PICK b \in Allowed(target[q]) \cap blobs : fetched' = [fetched EXCEPT ![q] = @ \cup {b}]
      BY <2>7 DEF FetchBlob
    <3>2. b \in {c \in Stored : c.media \in {"metadata", "wasm"}}
      BY <3>1 DEF Allowed
    <3>3. fetched' \in [Pullers -> SUBSET {c \in Stored : c.media \in {"metadata", "wasm"}}]
      BY <3>1, <3>2
    <3> QED
      BY <2>7, <3>3 DEF FetchBlob, MovePull, pushing
  <2>8. ASSUME NEW q \in Pullers, ReadImage(q) PROVE TypeOK'
    <3>1. PICK image \in ImagesOf(target[q]) : result' = [result EXCEPT ![q] = image]
      BY <2>8 DEF ReadImage
    <3>2. target[q] \in Known
      BY <2>8 DEF ReadImage, MovePull, PullInv
    <3>3. image \in [metadata : Stored, wasm : Stored]
      BY <3>1, <3>2, ImageOfManifest DEF Image
    <3>4. result' \in [Pullers -> [metadata : Stored, wasm : Stored] \cup {NoImage}]
      BY <3>1, <3>3
    <3> QED
      BY <2>8, <3>4 DEF ReadImage, MovePull, pushing
  <2>9. ASSUME NEW q \in Pullers, PullFails(q) PROVE TypeOK'
    BY <2>9 DEF PullFails, MovePull, pushing
  <2>10. CASE Delete
    BY <2>10 DEF Delete, pulling
  <2>11. CASE UNCHANGED vars
    BY <2>11 DEF vars
  <2> QED
    BY <2>1, <2>2, <2>3, <2>4, <2>5, <2>6, <2>7, <2>8, <2>9, <2>10, <2>11
    DEF Next, Finished
<1> QED
  BY <1>1, <1>2, PullInvariant, PTL DEF Spec

-----------------------------------------------------------------------------
(* Refinement: resolving the tag reads the image, the manifest replaces it,   *)
(* and no other request of a push or a pull changes anything a user can see.  *)

(* The phase of the promise that each state of a push or a pull belongs to. *)
LEMMA StatusFacts ==
  /\ Status("idle") = "idle" /\ Status("ok") = "ok" /\ Status("failed") = "stopped"
  /\ Status("upload") = "busy" /\ Status("manifest") = "busy" /\ Status("blobs") = "busy"
BY DEF Status

Taken(q) == CASE pull[q] = "ok" -> {result[q]}
              [] pull[q] = "failed" -> {}
              [] OTHER -> ImagesOf(target[q])

(* What a pull has read, by the state it is in. *)
LEMMA TakenFacts ==
  ASSUME NEW q \in Pullers
  PROVE  /\ pull[q] = "ok" => Taken(q) = {result[q]}
         /\ pull[q] = "failed" => Taken(q) = {}
         /\ pull[q] \in {"idle", "manifest", "blobs"} => Taken(q) = ImagesOf(target[q])
         /\ (pull[q] = "ok")' => Taken(q)' = {result'[q]}
         /\ (pull[q] = "failed")' => Taken(q)' = {}
         /\ (pull[q] \in {"idle", "manifest", "blobs"})' => Taken(q)' = ImagesOf(target'[q])
BY DEF Taken, ImagesOf, OfMedia

(* The manifest of a push replaces the image at once; the rest is invisible. *)
LEMMA PushStepsKeepThePromise ==
  ASSUME PullInv, NEW p \in Pushers, StartPush(p) \/ PushBlob(p) \/ PushManifest(p) \/ PushFails(p)
  PROVE  [Store!Next]_(Store!vars)
<1>1. UNCHANGED <<pull, target, fetched, result>>
  BY DEF StartPush, PushBlob, PushManifest, PushFails, pulling
<1>2. CASE StartPush(p)
  BY <1>1, <1>2, StatusFacts DEF StartPush, MovePush, PullInv, Store!Next, Store!StartPush
<1>3. CASE PushBlob(p)
  BY <1>1, <1>3, StatusFacts DEF PushBlob, MovePush, PullInv, Store!vars
<1>4. CASE PushManifest(p)
  <2>1. PICK end \in {"ok", "failed"} : MovePush(p, "upload", end)
    BY <1>4 DEF PushManifest
  <2>2. /\ Status(push[p]) = "busy" /\ Status(end) \in {"ok", "stopped"}
        /\ [r \in Pushers |-> Status(push[r])]'
             = [[r \in Pushers |-> Status(push[r])] EXCEPT ![p] = Status(end)]
    BY <2>1, StatusFacts DEF MovePush, PullInv
  <2>3. Store!Put(p)
    BY <1>1, <1>4, <2>2, PushedIsOneImage DEF PushManifest, PullInv, Store!Put
  <2> QED
    BY <2>3 DEF Store!Next
<1>5. CASE PushFails(p)
  BY <1>1, <1>5, StatusFacts DEF PushFails, MovePush, PullInv, Store!Next, Store!StopPush
<1> QED
  BY <1>2, <1>3, <1>4, <1>5

(* The other pulls have read what they had read. *)
LEMMA OthersKeepTaken ==
  ASSUME PullInv, NEW q \in Pullers, NEW to, pull' = [pull EXCEPT ![q] = to],
         \A o \in Pullers \ {q} : target'[o] = target[o] /\ result'[o] = result[o]
  PROVE  \A o \in Pullers \ {q} : Taken(o)' = Taken(o)
<1> SUFFICES ASSUME NEW o \in Pullers, o # q PROVE Taken(o)' = Taken(o)
  OBVIOUS
<1>1. pull'[o] = pull[o] /\ target'[o] = target[o] /\ result'[o] = result[o]
  BY DEF PullInv
<1>2. pull[o] \in {"idle", "manifest", "blobs", "ok", "failed"}
  BY DEF PullInv
<1> QED
  BY <1>1, <1>2, TakenFacts

(* Resolving the tag is the moment at which a pull reads the image. *)
LEMMA ResolvingTakes ==
  ASSUME PullInv, NEW q \in Pullers, Resolve(q)
  PROVE  Store!Take(q)
<1>1. /\ MovePull(q, "idle", "manifest") /\ target' = [target EXCEPT ![q] = tag]
      /\ UNCHANGED <<push, tag, result>>
  BY DEF Resolve, pushing
<1>2. pull'[q] = "manifest" /\ target'[q] = tag
  BY <1>1 DEF MovePull, PullInv
<1>3. Taken(q)' = ImagesOf(tag)
  BY <1>1, <1>2, TakenFacts
<1>4. \A o \in Pullers \ {q} : Taken(o)' = Taken(o)
  BY <1>1, OthersKeepTaken DEF MovePull, PullInv
<1>5. [o \in Pullers |-> Taken(o)]' = [[o \in Pullers |-> Taken(o)] EXCEPT ![q] = ImagesOf(tag)]
  BY <1>3, <1>4
<1>6. [o \in Pullers |-> Status(pull[o])]'
        = [[o \in Pullers |-> Status(pull[o])] EXCEPT ![q] = "busy"]
  BY <1>1, StatusFacts DEF MovePull, PullInv
<1>7. Status(pull[q]) = "idle"
  BY <1>1, StatusFacts DEF MovePull
<1> QED
  BY <1>1, <1>5, <1>6, <1>7 DEF Store!Take, Taken

(* Fetching what the digest names changes nothing that a user can see. *)
LEMMA FetchingIsQuiet ==
  ASSUME PullInv, NEW q \in Pullers, FetchManifest(q) \/ FetchBlob(q)
  PROVE  UNCHANGED Store!vars
<1>1. /\ \/ MovePull(q, "manifest", "blobs") \/ MovePull(q, "blobs", "blobs")
      /\ UNCHANGED <<push, tag, target, result>>
  BY DEF FetchManifest, FetchBlob, pushing
<1>2. pull[q] \in {"manifest", "blobs"} /\ pull' = [pull EXCEPT ![q] = "blobs"]
  BY <1>1 DEF MovePull
<1>3. pull'[q] = "blobs"
  BY <1>2 DEF PullInv
<1>4. Taken(q)' = Taken(q)
  BY <1>1, <1>2, <1>3, TakenFacts
<1>5. \A o \in Pullers \ {q} : Taken(o)' = Taken(o)
  BY <1>1, <1>2, OthersKeepTaken
<1>6. [o \in Pullers |-> Taken(o)]' = [o \in Pullers |-> Taken(o)]
  BY <1>4, <1>5
<1>7. [o \in Pullers |-> Status(pull[o])]' = [o \in Pullers |-> Status(pull[o])]
  BY <1>2, StatusFacts DEF PullInv
<1> QED
  BY <1>1, <1>6, <1>7 DEF Store!vars, Taken

(* A pull that succeeds returns the image it read when it resolved the tag. *)
LEMMA ReadingReturns ==
  ASSUME PullInv, NEW q \in Pullers, ReadImage(q)
  PROVE  Store!Return(q)
<1>1. /\ MovePull(q, "blobs", "ok") /\ UNCHANGED <<push, tag, target>>
      /\ \E image \in ImagesOf(target[q]) : result' = [result EXCEPT ![q] = image]
  BY DEF ReadImage, pushing
<1>2. PICK image \in ImagesOf(target[q]) : result' = [result EXCEPT ![q] = image]
  BY <1>1
<1>3. pull[q] = "blobs" /\ pull'[q] = "ok" /\ result'[q] = image
  BY <1>1, <1>2 DEF MovePull, PullInv
<1>4. Taken(q) = ImagesOf(target[q]) /\ Taken(q)' = {image}
  BY <1>3, TakenFacts
<1>5. \A o \in Pullers \ {q} : Taken(o)' = Taken(o)
  BY <1>1, <1>2, OthersKeepTaken DEF MovePull, PullInv
<1>6. [o \in Pullers |-> Taken(o)]' = [[o \in Pullers |-> Taken(o)] EXCEPT ![q] = {image}]
  BY <1>4, <1>5
<1>7. [o \in Pullers |-> Taken(o)][q] = ImagesOf(target[q])
  BY <1>4
<1>8. [o \in Pullers |-> Status(pull[o])]'
        = [[o \in Pullers |-> Status(pull[o])] EXCEPT ![q] = "ok"]
  BY <1>1, StatusFacts DEF MovePull, PullInv
<1>9. Status(pull[q]) = "busy"
  BY <1>3, StatusFacts
<1> QED
  BY <1>1, <1>6, <1>7, <1>8, <1>9 DEF Store!Return, Taken

(* A pull that fails returns no image, whatever it had fetched. *)
LEMMA FailingStops ==
  ASSUME PullInv, NEW q \in Pullers, PullFails(q)
  PROVE  Store!StopPull(q)
<1>1. /\ pull[q] \in {"idle", "manifest", "blobs"} /\ pull' = [pull EXCEPT ![q] = "failed"]
      /\ UNCHANGED <<push, tag, target, result>>
  BY DEF PullFails, MovePull, pushing
<1>2. Taken(q)' = {}
  BY <1>1, TakenFacts DEF PullInv
<1>3. \A o \in Pullers \ {q} : Taken(o)' = Taken(o)
  BY <1>1, OthersKeepTaken
<1>4. [o \in Pullers |-> Taken(o)]' = [[o \in Pullers |-> Taken(o)] EXCEPT ![q] = {}]
  BY <1>2, <1>3
<1>5. [o \in Pullers |-> Status(pull[o])]'
        = [[o \in Pullers |-> Status(pull[o])] EXCEPT ![q] = "stopped"]
  BY <1>1, StatusFacts DEF PullInv
<1>6. Status(pull[q]) \in {"idle", "busy"}
  BY <1>1, StatusFacts
<1> QED
  BY <1>1, <1>4, <1>5, <1>6 DEF Store!StopPull, Taken

(* Nothing has been pushed or pulled, and the tag names an image or none. *)
LEMMA InitKeepsThePromise ==
  ASSUME Init PROVE Store!Init
<1>1. ImagesOf(NoImage) = {}
  BY DEF ImagesOf
<1>2. \A q \in Pullers : Taken(q) = {}
  BY <1>1, TakenFacts DEF Init
<1>3. [q \in Pullers |-> Taken(q)] = [q \in Pullers |-> {}]
  BY <1>2
<1>4. /\ [p \in Pushers |-> Status(push[p])] = [p \in Pushers |-> "idle"]
      /\ [q \in Pullers |-> Status(pull[q])] = [q \in Pullers |-> "idle"]
  BY StatusFacts DEF Init
<1>5. ImagesOf(tag) \in {ImagesOf(m) : m \in Foreign \cup {NoImage}}
  BY DEF Init
<1> QED
  BY <1>3, <1>4, <1>5 DEF Store!Init, Taken

(* Push and Pull, each made of many requests that fail, cross and are         *)
(* overtaken, are an atomic replacement and an atomic reading of one image.   *)
THEOREM RequestsKeepThePromise == Spec => ImplementsImageStore
<1>1. Init => Store!Init
  BY InitKeepsThePromise
<1>2. PullInv /\ [Next]_vars => [Store!Next]_(Store!vars)
  <2> SUFFICES ASSUME PullInv, [Next]_vars PROVE [Store!Next]_(Store!vars)
    OBVIOUS
  <2>1. ASSUME NEW p \in Pushers,
               StartPush(p) \/ PushBlob(p) \/ PushManifest(p) \/ PushFails(p)
        PROVE  [Store!Next]_(Store!vars)
    BY <2>1, PushStepsKeepThePromise
  <2>2. ASSUME NEW q \in Pullers, Resolve(q) PROVE [Store!Next]_(Store!vars)
    BY <2>2, ResolvingTakes DEF Store!Next
  <2>3. ASSUME NEW q \in Pullers, FetchManifest(q) \/ FetchBlob(q)
        PROVE  [Store!Next]_(Store!vars)
    BY <2>3, FetchingIsQuiet
  <2>4. ASSUME NEW q \in Pullers, ReadImage(q) PROVE [Store!Next]_(Store!vars)
    BY <2>4, ReadingReturns DEF Store!Next
  <2>5. ASSUME NEW q \in Pullers, PullFails(q) PROVE [Store!Next]_(Store!vars)
    BY <2>5, FailingStops DEF Store!Next
  <2>6. CASE Delete
    <3>1. UNCHANGED <<push, pull, target, result>> /\ ImagesOf(tag)' = {}
      BY <2>6 DEF Delete, pulling, ImagesOf
    <3>2. Store!Delete
      BY <3>1 DEF Store!Delete
    <3> QED
      BY <3>2 DEF Store!Next
  <2>7. CASE UNCHANGED vars
    BY <2>7 DEF vars, Store!vars
  <2> QED
    BY <2>1, <2>2, <2>3, <2>4, <2>5, <2>6, <2>7 DEF Next, Finished
<1> QED
  BY <1>1, <1>2, PullInvariant, PTL DEF Spec, ImplementsImageStore, Store!Spec
=============================================================================
