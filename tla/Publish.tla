------------------------------ MODULE Publish ------------------------------
(* "pwo publish <wasm> <remote>": it chooses the metadata file, checks the    *)
(* remote, reads the two files one after the other while others may edit      *)
(* them, names the image after the metadata and pushes it with annotations    *)
(* made from the metadata.                                                    *)
(*                                                                            *)
(* A text is the sequence of its pieces: words, "+", "_", and "!" for any     *)
(* character that a reference cannot hold there.                              *)
EXTENDS Naturals, Sequences, Functions

CONSTANTS Metadatas,   \* the metadata files considered, see MetadataAssumption
          NoFile,      \* no such file
          None,        \* no flag, no choice, no annotation, no image
          MaxEvents    \* bound on the edits and failures meanwhile

Text == Seq(STRING)
Keys == {"title", "version", "description"}

ASSUME MetadataAssumption ==
  \A m \in Metadatas :
    /\ DOMAIN m = {"parses", "name", "version", "description", "annotations", "nullMaintainer"}
    /\ {m.parses, m.nullMaintainer} \subseteq BOOLEAN
    /\ {m.name, m.version, m.description} \subseteq Text
    /\ DOMAIN m.annotations \subseteq Keys /\ Range(m.annotations) \subseteq Text

ASSUME EventsAssumption == MaxEvents \in Nat

VARIABLES pc,      \* where the command is
          remote,  \* what the second argument is, see Remotes
          flag,    \* --metadata: the file it names
          files,   \* the metadata files
          exe,     \* the wasm file
          chosen,  \* which file holds the metadata
          meta,    \* the metadata as it was read
          wasm,    \* the wasm file as it was read
          image,   \* the image in the registry
          events   \* edits and failures so far

vars == <<pc, remote, flag, files, exe, chosen, meta, wasm, image, events>>
inputs == <<remote, flag, files, exe, events>>

(* <wasm>.yaml, Wasm.yaml, and a file whose name is neither YAML nor JSON: it *)
(* is rejected by its extension and never opened.                             *)
MetadataFiles == {"own", "common", "other"}
Wasms == {"directory", "old", "new"}

(* Another scheme, not a URL, a host alone, a repository, one with a tag or a *)
(* digest. *)
Remotes == {"http", "malformed", "host", "repository", "tagged"}

Directories ==
  {f \in [MetadataFiles -> Metadatas \cup {NoFile}] : f["other"] = NoFile}

ASSUME AbsenceAssumption ==
  /\ NoFile \notin Wasms /\ NoFile \notin Metadatas
  /\ None \notin MetadataFiles

Init ==
  /\ pc = "client"
  /\ remote \in Remotes
  /\ flag \in MetadataFiles \cup {None}
  /\ files \in Directories /\ exe \in Wasms \cup {NoFile}
  /\ chosen = None /\ meta = None /\ wasm = None /\ image = None
  /\ events = 0

Goto(from, to) == pc = from /\ pc' = to
Check(from, condition, to) == Goto(from, IF condition THEN to ELSE "failed")

-----------------------------------------------------------------------------
CreateClient == Goto("client", "guess") /\ UNCHANGED <<inputs, chosen, meta, wasm, image>>

(* Mutation: the shared Wasm.yaml is looked for first. *)
GuessCommonFirst ==
  LET guess == IF flag # None THEN flag
               ELSE IF files["common"] # NoFile THEN "common"
               ELSE IF files["own"] # NoFile THEN "own" ELSE None
  IN
  /\ Check("guess", guess # None, "remote")
  /\ chosen' = guess
  /\ UNCHANGED <<inputs, meta, wasm, image>>

GuessMetadata ==
  LET guess == IF flag # None THEN flag
               ELSE IF files["own"] # NoFile THEN "own"
               ELSE IF files["common"] # NoFile THEN "common" ELSE None
  IN
  /\ Check("guess", guess # None, "remote")
  /\ chosen' = guess
  /\ UNCHANGED <<inputs, meta, wasm, image>>

(* The scheme is looked at, then the URL is parsed. *)
CheckRemote ==
  /\ Check("remote", remote \notin {"http", "malformed"}, "stat")
  /\ UNCHANGED <<inputs, chosen, meta, wasm, image>>

StatWasm ==
  /\ Check("stat", exe \notin {NoFile, "directory"}, "metadata")
  /\ UNCHANGED <<inputs, chosen, meta, wasm, image>>

(* Mutation: what the file holds is not looked at. *)
TrustMetadata ==
  /\ Check("metadata", files[chosen] # NoFile, "read")
  /\ meta' = files[chosen]
  /\ UNCHANGED <<inputs, chosen, wasm, image>>

NewMetadataFromFile ==
  LET read == files[chosen] IN
  /\ pc = "metadata"
  /\ IF chosen # "other" /\ read # NoFile /\ read.parses
       THEN pc' = "read" /\ meta' = read
       ELSE pc' = "failed" /\ UNCHANGED meta
  /\ UNCHANGED <<inputs, chosen, wasm, image>>

(* Mutation: the file that os.Stat saw is taken to be still there. *)
TrustStat ==
  /\ Goto("read", "push")
  /\ wasm' = exe
  /\ UNCHANGED <<inputs, chosen, meta, image>>

ReadWasm ==
  /\ Check("read", exe \notin {NoFile, "directory"}, "push")
  /\ wasm' = IF exe \in {"old", "new"} THEN exe ELSE None
  /\ UNCHANGED <<inputs, chosen, meta, image>>

-----------------------------------------------------------------------------
(* The image. *)

Immutable == {"title", "version"}

(* addToMap leaves out what is blank; the home page, the source and the       *)
(* authors are made like the description. *)
generateChartOCIAnnotations(m) ==
  LET text == [title |-> m.name, version |-> m.version, description |-> m.description]
  IN [k \in {key \in Keys : text[key] # <<>>} |-> text[k]]

(* The loop that copies annotations, of the given keys only. *)
CopyOver(notes, annotations, keys) ==
  [k \in DOMAIN notes \cup keys |-> IF k \in keys THEN annotations[k] ELSE notes[k]]

(* Mutation: every annotation of the user is copied. *)
CopyAllAnnotations(m) ==
  CopyOver(generateChartOCIAnnotations(m), m.annotations, DOMAIN m.annotations)

generateOCIAnnotations(m) ==
  CopyOver(generateChartOCIAnnotations(m), m.annotations, DOMAIN m.annotations \ Immutable)

(* "+" is not allowed in a tag. *)
parseReference(version) ==
  [i \in DOMAIN version |-> IF version[i] = "+" THEN "_" ELSE version[i]]

(* path.Join drops an empty name. *)
Repository(r, m) == <<r>> \o m.name

(* The reference made of a remote, a name and a version parses. *)
Referable(r, m) ==
  /\ r = "repository" \/ (r = "host" /\ m.name # <<>>)
  /\ "!" \notin Range(m.name) \cup Range(m.version)

Image(r, m, w) ==
  [repository |-> Repository(r, m), tag |-> parseReference(m.version), metadata |-> m, wasm |-> w,
   annotations |-> generateOCIAnnotations(m)]

(* The reference is parsed first; a null maintainer is dereferenced next. *)
Push ==
  /\ pc = "push"
  /\ CASE ~Referable(remote, meta) -> pc' = "failed" /\ UNCHANGED image
       [] Referable(remote, meta) /\ meta.nullMaintainer -> pc' = "panicked" /\ UNCHANGED image
       [] OTHER -> pc' = "done" /\ image' = Image(remote, meta, wasm)
  /\ UNCHANGED <<inputs, chosen, meta, wasm>>

-----------------------------------------------------------------------------
Running == pc \notin {"done", "failed", "panicked"}

(* Somebody edits, replaces or removes a file. *)
Edit ==
  /\ Running /\ events < MaxEvents
  /\ \/ \E f \in {"own", "common"}, m \in Metadatas \cup {NoFile} :
          files' = [files EXCEPT ![f] = m] /\ UNCHANGED exe
     \/ exe' \in Wasms \cup {NoFile} /\ UNCHANGED files
  /\ events' = events + 1
  /\ UNCHANGED <<pc, remote, flag, chosen, meta, wasm, image>>

(* Creating the client, reading a file or pushing can fail at any time. *)
StepFails ==
  /\ pc \in {"client", "stat", "metadata", "read", "push"} /\ events < MaxEvents
  /\ pc' = "failed"
  /\ events' = events + 1
  /\ UNCHANGED <<remote, flag, files, exe, chosen, meta, wasm, image>>

(* Copying the image can also fail after the registry has taken its manifest. *)
PushAnswerLost ==
  /\ pc = "push" /\ Referable(remote, meta) /\ ~meta.nullMaintainer /\ events < MaxEvents
  /\ pc' = "failed" /\ image' = Image(remote, meta, wasm)
  /\ events' = events + 1
  /\ UNCHANGED <<remote, flag, files, exe, chosen, meta, wasm>>

Finished == ~Running /\ UNCHANGED vars

Next ==
  \/ CreateClient \/ GuessMetadata \/ CheckRemote \/ StatWasm
  \/ NewMetadataFromFile \/ ReadWasm \/ Push
  \/ Edit \/ StepFails \/ PushAnswerLost \/ Finished

Spec == Init /\ [][Next]_vars

-----------------------------------------------------------------------------
(* Types of the variables. *)
TypeOK ==
  /\ pc \in {"client", "guess", "remote", "stat", "metadata", "read", "push",
             "done", "failed", "panicked"}
  /\ remote \in Remotes
  /\ flag \in MetadataFiles \cup {None} /\ chosen \in MetadataFiles \cup {None}
  /\ files \in Directories /\ exe \in Wasms \cup {NoFile}
  /\ meta \in Metadatas \cup {None}
  /\ wasm \in {"old", "new", None}
  /\ events \in 0..MaxEvents

(* The file that --metadata, <wasm>.yaml and Wasm.yaml designate, in order. *)
Designated ==
  LET candidates == IF flag # None THEN <<flag>> ELSE <<"own", "common">>
      present == {i \in DOMAIN candidates : files[candidates[i]] # NoFile}
  IN IF present = {} THEN None
     ELSE candidates[CHOOSE i \in present : \A j \in present : i <= j]

FilesUsable ==
  /\ Designated \in {"own", "common"}
  /\ files[Designated] # NoFile /\ files[Designated].parses
  /\ exe \in {"old", "new"}

Publishable == FilesUsable /\ Referable(remote, files[Designated])

(* When nobody edits the files and nothing fails, the command publishes       *)
(* exactly the designated metadata and the wasm file; it fails only when a    *)
(* file is unusable or the remote, the name and the version do not make a     *)
(* reference (publish.go:50-58, uploader.go:34, client.go:502), which a       *)
(* remote that has a tag, as in README.md:12, never does; and it panics only, *)
(* publishing nothing, on a designated file whose maintainers have a null     *)
(* entry (utils.go:188).                                                      *)
PublishesAsSpecified ==
  events = 0 =>
    /\ pc = "done" => /\ Publishable
                      /\ image.metadata = files[Designated]
                      /\ image.wasm = exe
    /\ pc = "failed" => ~Publishable
    /\ pc = "panicked" => Publishable /\ files[Designated].nullMaintainer /\ image = None

(* Whatever is edited between the steps, a published image is made of files   *)
(* that were usable when they were read: parsed metadata from a file of a     *)
(* supported kind, with no null maintainer, and the bytes of a regular file;  *)
(* and it is published under a reference that the remote and its own metadata *)
(* make. So is an image that was published by a command that failed: its      *)
(* answer was lost.                                                           *)
PublishedIsUsable ==
  image # None => /\ image.metadata.parses /\ chosen # "other"
                  /\ ~image.metadata.nullMaintainer
                  /\ image.wasm \in {"old", "new"}
                  /\ Referable(remote, image.metadata)

(* As the listing of tags reads a tag back (client.go:618-626). *)
Plus(tag) == [i \in DOMAIN tag |-> IF tag[i] = "_" THEN "+" ELSE tag[i]]

(* A published image is found, by its repository and tag, as what its         *)
(* annotations say it is: the repository ends in the title, and a version     *)
(* without "_" is read back from the tag as the version that is annotated,    *)
(* whatever the user's own annotations say of the two. The other annotations  *)
(* of the user are kept (utils.go:143-163).                                   *)
AnnotationsAgree ==
  image # None =>
    LET m == image.metadata
        notes == image.annotations
    IN
    /\ image.repository = <<remote>> \o (IF "title" \in DOMAIN notes THEN notes["title"] ELSE <<>>)
    /\ "_" \notin Range(m.version) =>
         Plus(image.tag) = IF "version" \in DOMAIN notes THEN notes["version"] ELSE <<>>
    /\ \A k \in DOMAIN m.annotations \ Immutable : notes[k] = m.annotations[k]
=============================================================================
