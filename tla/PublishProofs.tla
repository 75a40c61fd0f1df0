--------------------------- MODULE PublishProofs ---------------------------
(* What Publish guarantees for any metadata files and any number of edits and *)
(* failures between its steps.                                                *)
EXTENDS Publish, SequenceTheorems, TLAPS

(* The steps at which something is known for good.                            *)
Chosen == {"remote", "stat", "metadata", "read", "push", "done", "panicked"}
Reading == {"read", "push", "done", "panicked"}

(* What the command has read, and where, whoever edits the files.             *)
ReadInv ==
  /\ pc \in Chosen => chosen \in MetadataFiles
  /\ pc \in Reading => chosen # "other" /\ meta \in Metadatas /\ meta.parses
  /\ pc \in {"push", "done", "panicked"} => wasm \in {"old", "new"}
  /\ pc = "done" =>
       image = Image(remote, meta, wasm) /\ ~meta.nullMaintainer /\ Referable(remote, meta)
  /\ image # None =>
       /\ pc \in {"done", "failed"} /\ image = Image(remote, meta, wasm)
       /\ chosen # "other" /\ meta \in Metadatas /\ meta.parses /\ ~meta.nullMaintainer
       /\ wasm \in {"old", "new"} /\ Referable(remote, meta)

(* What it has found when nobody edits them: each check that passed still     *)
(* holds, and only a check that does not hold makes it fail.                  *)
UneditedInv ==
  events = 0 =>
    /\ pc \in Chosen => (chosen = flag \/ (flag = None /\ chosen = Designated))
    /\ pc \in Chosen \ {"remote", "stat"} => exe \in {"old", "new"}
    /\ pc \in Reading => chosen = Designated /\ files[chosen] = meta
    /\ pc \in {"push", "done", "panicked"} => wasm = exe
    /\ pc \in {"done", "panicked"} => Referable(remote, meta)
    /\ pc = "panicked" => meta.nullMaintainer
    /\ pc = "failed" => ~Publishable

(* The files that are designated, by cases.                                   *)
LEMMA DesignatedCases ==
  ASSUME TypeOK
  PROVE  /\ flag # None => Designated = IF files[flag] # NoFile THEN flag ELSE None
         /\ flag = None => Designated = IF files["own"] # NoFile THEN "own"
                                        ELSE IF files["common"] # NoFile THEN "common" ELSE None
<1>1. ASSUME flag # None PROVE Designated = IF files[flag] # NoFile THEN flag ELSE None
  <2> DEFINE candidates == IF flag # None THEN <<flag>> ELSE <<"own", "common">>
             present == {i \in DOMAIN candidates : files[candidates[i]] # NoFile}
  <2>1. candidates = <<flag>> /\ DOMAIN candidates = {1} /\ candidates[1] = flag
    BY <1>1
  <2>2. CASE files[flag] # NoFile
    <3>1. present = {1}
      BY <2>1, <2>2
    <3>2. (CHOOSE i \in present : \A j \in present : i <= j) = 1
      BY <3>1
    <3> QED
      BY <2>1, <2>2, <3>1, <3>2 DEF Designated
  <2>3. CASE files[flag] = NoFile
    <3>1. present = {}
      BY <2>1, <2>3
    <3> QED
      BY <2>3, <3>1 DEF Designated
  <2> QED
    BY <2>2, <2>3
<1>2. ASSUME flag = None
      PROVE  Designated = IF files["own"] # NoFile THEN "own"
                          ELSE IF files["common"] # NoFile THEN "common" ELSE None
  <2> DEFINE candidates == IF flag # None THEN <<flag>> ELSE <<"own", "common">>
             present == {i \in DOMAIN candidates : files[candidates[i]] # NoFile}
  <2>1. /\ candidates = <<"own", "common">> /\ DOMAIN candidates = {1, 2}
        /\ candidates[1] = "own" /\ candidates[2] = "common"
    BY <1>2
  <2>2. CASE files["own"] # NoFile
    <3>1. 1 \in present /\ present \subseteq {1, 2}
      BY <2>1, <2>2
    <3>2. (CHOOSE i \in present : \A j \in present : i <= j) = 1
      BY <3>1
    <3> QED
      BY <2>1, <2>2, <3>1, <3>2 DEF Designated
  <2>3. CASE files["own"] = NoFile /\ files["common"] # NoFile
    <3>1. present = {2}
      BY <2>1, <2>3
    <3>2. (CHOOSE i \in present : \A j \in present : i <= j) = 2
      BY <3>1
    <3> QED
      BY <2>1, <2>3, <3>1, <3>2 DEF Designated
  <2>4. CASE files["own"] = NoFile /\ files["common"] = NoFile
    <3>1. present = {}
      BY <2>1, <2>4
    <3> QED
      BY <2>4, <3>1 DEF Designated
  <2> QED
    BY <2>2, <2>3, <2>4
<1> QED
  BY <1>1, <1>2

(* What does not change while nobody edits the files.                         *)
LEMMA InputsStay ==
  ASSUME UNCHANGED <<remote, flag, files, exe>>
  PROVE  Designated' = Designated /\ (Publishable <=> Publishable')
BY DEF Designated, Publishable, FilesUsable, Referable

(* The types and ReadInv are inductive together. *)
LEMMA ReadInvariant == Spec => [](TypeOK /\ ReadInv)
<1> USE MetadataAssumption, AbsenceAssumption, EventsAssumption
    DEF Wasms, MetadataFiles, Directories, Chosen, Reading
<1>1. Init => TypeOK /\ ReadInv
  BY DEF Init, TypeOK, ReadInv
<1>2. TypeOK /\ ReadInv /\ [Next]_vars => (TypeOK /\ ReadInv)'
  <2> SUFFICES ASSUME TypeOK, ReadInv, [Next]_vars PROVE (TypeOK /\ ReadInv)'
    OBVIOUS
  <2> USE DEF TypeOK, ReadInv, Goto, Check, inputs
  <2>1. CASE CreateClient
    BY <2>1 DEF CreateClient
  <2>2. CASE GuessMetadata
    <3>1. chosen' \in MetadataFiles \cup {None} /\ (pc' = "remote" => chosen' # None)
      BY <2>2 DEF GuessMetadata
    <3> QED
      BY <2>2, <3>1 DEF GuessMetadata
  <2>3. CASE CheckRemote
    BY <2>3 DEF CheckRemote
  <2>4. CASE StatWasm
    BY <2>4 DEF StatWasm
  <2>5. CASE NewMetadataFromFile
    BY <2>5 DEF NewMetadataFromFile
  <2>6. CASE ReadWasm
    BY <2>6 DEF ReadWasm
  <2>7. CASE Push
    BY <2>7 DEF Push
  <2>8. CASE Edit
    BY <2>8 DEF Edit, Running
  <2>9. CASE StepFails
    BY <2>9 DEF StepFails
  <2>10. CASE UNCHANGED vars
    BY <2>10 DEF vars, Image
  <2>11. CASE PushAnswerLost
    BY <2>11 DEF PushAnswerLost, Image
  <2> QED
    BY <2>1, <2>2, <2>3, <2>4, <2>5, <2>6, <2>7, <2>8, <2>9, <2>10, <2>11 DEF Next, Finished
<1> QED
  BY <1>1, <1>2, PTL DEF Spec

(* UneditedInv is inductive relative to them: with no edit and no failure so  *)
(* far, every step checks or reads what the specification speaks of.          *)
LEMMA UneditedInvariant == Spec => []UneditedInv
<1> USE MetadataAssumption, AbsenceAssumption, EventsAssumption
    DEF Wasms, MetadataFiles, Chosen, Reading
<1>1. Init => UneditedInv
  BY DEF Init, UneditedInv
<1>2. TypeOK /\ ReadInv /\ UneditedInv /\ [Next]_vars => UneditedInv'
  <2> SUFFICES ASSUME TypeOK, ReadInv, UneditedInv, [Next]_vars, events' = 0
               PROVE  UneditedInv'
    BY DEF UneditedInv
  <2> USE DEF Goto, Check, inputs
  <2>1. ~Edit /\ ~StepFails /\ ~PushAnswerLost
    BY DEF Edit, StepFails, PushAnswerLost, TypeOK
  <2>2. events = 0 /\ UNCHANGED <<remote, flag, files, exe>>
    BY <2>1 DEF Next, CreateClient, GuessMetadata, CheckRemote, StatWasm, NewMetadataFromFile,
                ReadWasm, Push, Finished, vars
  <2>3. Designated' = Designated /\ (Publishable <=> Publishable')
    BY <2>2, InputsStay
  <2>4. /\ files \in [MetadataFiles -> Metadatas \cup {NoFile}] /\ files["other"] = NoFile
        /\ exe \in Wasms \cup {NoFile} /\ flag \in MetadataFiles \cup {None}
    BY DEF TypeOK, Directories
  <2>5. CASE CreateClient
    BY <2>2, <2>3, <2>5 DEF CreateClient, UneditedInv
  <2>6. CASE GuessMetadata
    <3>1. CASE flag # None
      <4>1. flag \in MetadataFiles /\ chosen' = flag /\ pc' = "remote"
        BY <2>4, <2>6, <3>1 DEF GuessMetadata
      <4> QED
        BY <2>2, <4>1 DEF UneditedInv
    <3>2. CASE flag = None
      <4>1. chosen' = Designated
        <5>1. CASE files["own"] # NoFile
          BY <2>6, <3>2, <5>1, DesignatedCases DEF GuessMetadata
        <5>2. CASE files["own"] = NoFile /\ files["common"] # NoFile
          BY <2>6, <3>2, <5>2, DesignatedCases DEF GuessMetadata
        <5>3. CASE files["own"] = NoFile /\ files["common"] = NoFile
          BY <2>6, <3>2, <5>3, DesignatedCases DEF GuessMetadata
        <5> QED
          BY <5>1, <5>2, <5>3
      <4>2. pc' = IF Designated # None THEN "remote" ELSE "failed"
        BY <2>6, <4>1 DEF GuessMetadata
      <4>3. Designated = None => ~Publishable
        BY DEF Publishable, FilesUsable
      <4> QED
        BY <2>2, <2>3, <3>2, <4>1, <4>2, <4>3 DEF UneditedInv
    <3> QED
      BY <3>1, <3>2
  <2>7. CASE CheckRemote
    <3>1. remote \in {"http", "malformed"} => ~Publishable
      BY DEF Publishable, Referable
    <3> QED
      BY <2>2, <2>3, <2>7, <3>1 DEF CheckRemote, UneditedInv
  <2>8. CASE StatWasm
    <3>1. exe \notin {NoFile, "directory"} <=> exe \in {"old", "new"}
      BY <2>4
    <3> QED
      BY <2>2, <2>3, <2>8, <3>1 DEF StatWasm, UneditedInv, Publishable, FilesUsable
  <2>9. CASE NewMetadataFromFile
    <3>1. chosen \in MetadataFiles /\ (chosen = flag \/ (flag = None /\ chosen = Designated))
      BY <2>2, <2>9 DEF NewMetadataFromFile, UneditedInv, ReadInv
    <3>2. files[chosen] # NoFile => chosen = Designated
      BY <2>4, <3>1, DesignatedCases
    <3>3. files[chosen] = NoFile => Designated # chosen \/ files[Designated] = NoFile
      OBVIOUS
    <3>4. CASE chosen # "other" /\ files[chosen] # NoFile /\ files[chosen].parses
      <4>1. pc' = "read" /\ meta' = files[chosen] /\ chosen' = chosen
        BY <2>9, <3>4 DEF NewMetadataFromFile
      <4> QED
        BY <2>2, <2>3, <2>9, <3>1, <3>2, <3>4, <4>1 DEF NewMetadataFromFile, UneditedInv
    <3>5. CASE ~(chosen # "other" /\ files[chosen] # NoFile /\ files[chosen].parses)
      <4>1. pc' = "failed"
        BY <2>9, <3>5 DEF NewMetadataFromFile
      <4>2. flag # None => Designated = flag \/ Designated = None
        BY DesignatedCases
      <4>3. Designated # None => Designated = chosen
        BY <3>1, <4>2
      <4>4. ~FilesUsable
        BY <2>4, <3>5, <4>3 DEF FilesUsable
      <4> QED
        BY <2>2, <2>3, <4>1, <4>4 DEF UneditedInv, Publishable
    <3> QED
      BY <3>4, <3>5
  <2>10. CASE ReadWasm
    <3>1. exe \in {"old", "new"}
      BY <2>2, <2>10 DEF ReadWasm, UneditedInv
    <3>2. pc' = "push" /\ wasm' = exe
      BY <2>4, <2>10, <3>1 DEF ReadWasm
    <3> QED
      BY <2>2, <2>3, <2>10, <3>2 DEF ReadWasm, UneditedInv
  <2>11. CASE Push
    BY <2>2, <2>3, <2>11 DEF Push, UneditedInv, Publishable
  <2>12. CASE UNCHANGED vars
    BY <2>2, <2>3, <2>12 DEF vars, UneditedInv
  <2> QED
    BY <2>1, <2>5, <2>6, <2>7, <2>8, <2>9, <2>10, <2>11, <2>12 DEF Next, Finished
<1> QED
  BY <1>1, <1>2, ReadInvariant, PTL DEF Spec

-----------------------------------------------------------------------------
(* Every variable keeps its type. *)
THEOREM TypesHold == Spec => []TypeOK
BY ReadInvariant, PTL

(* Without edits and failures the command publishes the designated files, and *)
(* fails or panics for no other reason than an argument or a file.            *)
THEOREM PublishesAsSpecifiedHolds == Spec => []PublishesAsSpecified
<1>1. TypeOK /\ ReadInv /\ UneditedInv => PublishesAsSpecified
  <2> SUFFICES ASSUME TypeOK, ReadInv, UneditedInv, events = 0
               PROVE  /\ pc = "done" => /\ Publishable
                                        /\ image.metadata = files[Designated]
                                        /\ image.wasm = exe
                      /\ pc = "failed" => ~Publishable
                      /\ pc = "panicked" =>
                           Publishable /\ files[Designated].nullMaintainer /\ image = None
    BY DEF PublishesAsSpecified
  <2> USE DEF Chosen, Reading, MetadataFiles
  <2>1. pc \in {"done", "panicked"} =>
          /\ Publishable /\ files[Designated] = meta /\ wasm = exe
    BY AbsenceAssumption DEF TypeOK, ReadInv, UneditedInv, Publishable, FilesUsable
  <2>2. pc = "done" => image.metadata = meta /\ image.wasm = wasm
    BY DEF ReadInv, Image
  <2> QED
    BY <2>1, <2>2 DEF UneditedInv, ReadInv
<1> QED
  BY <1>1, ReadInvariant, UneditedInvariant, PTL

(* A published image is made of files that were usable when they were read,   *)
(* under a remote that the arguments could name.                              *)
THEOREM PublishedIsUsableHolds == Spec => []PublishedIsUsable
<1>1. ReadInv => PublishedIsUsable
  BY DEF ReadInv, PublishedIsUsable, Image, Reading, Chosen
<1> QED
  BY <1>1, ReadInvariant, PTL

(* A tag reads back as the version that it was made of, unless that had "_".  *)
LEMMA TagReadBack ==
  ASSUME NEW version \in Text, "_" \notin Range(version)
  PROVE  Plus(parseReference(version)) = version
<1> DEFINE tag == parseReference(version)
<1>1. \A i \in DOMAIN version : version[i] # "_"
  BY DEF Range
<1>2. DOMAIN tag = DOMAIN version /\ DOMAIN Plus(tag) = DOMAIN version
  BY DEF parseReference, Plus
<1>3. ASSUME NEW i \in DOMAIN version PROVE Plus(tag)[i] = version[i]
  <2>1. tag[i] = IF version[i] = "+" THEN "_" ELSE version[i]
    BY DEF parseReference
  <2>2. Plus(tag)[i] = IF tag[i] = "_" THEN "+" ELSE tag[i]
    BY <1>2 DEF Plus
  <2> QED
    BY <1>1, <2>1, <2>2
<1>4. version = [i \in DOMAIN version |-> version[i]]
  <2>1. version \in [1..Len(version) -> STRING]
    BY LenProperties DEF Text
  <2> QED
    BY <2>1
<1>5. Plus(tag) = [i \in DOMAIN tag |-> Plus(tag)[i]]
  BY DEF Plus
<1> QED
  BY <1>2, <1>3, <1>4, <1>5

(* The annotations of an image: those of its own keys are the metadata's, the *)
(* others the user's where the user gave one. *)
LEMMA Annotated ==
  ASSUME NEW m \in Metadatas
  PROVE  LET notes == generateOCIAnnotations(m) IN
         /\ "title" \in DOMAIN notes <=> m.name # <<>>
         /\ "title" \in DOMAIN notes => notes["title"] = m.name
         /\ "version" \in DOMAIN notes <=> m.version # <<>>
         /\ "version" \in DOMAIN notes => notes["version"] = m.version
         /\ \A k \in DOMAIN m.annotations \ Immutable : notes[k] = m.annotations[k]
<1> DEFINE own == generateChartOCIAnnotations(m)
           keys == DOMAIN m.annotations \ Immutable
           notes == generateOCIAnnotations(m)
<1>1. /\ DOMAIN notes = DOMAIN own \cup keys
      /\ \A k \in DOMAIN notes : notes[k] = IF k \in keys THEN m.annotations[k] ELSE own[k]
  BY DEF generateOCIAnnotations, CopyOver
<1>2. /\ "title" \in DOMAIN own <=> m.name # <<>>
      /\ "title" \in DOMAIN own => own["title"] = m.name
      /\ "version" \in DOMAIN own <=> m.version # <<>>
      /\ "version" \in DOMAIN own => own["version"] = m.version
  BY DEF generateChartOCIAnnotations, Keys
<1>3. "title" \notin keys /\ "version" \notin keys
  BY DEF Immutable
<1> QED
  <2> HIDE DEF own, keys, notes
  <2>1. \A k \in keys : notes[k] = m.annotations[k]
    BY <1>1
  <2> QED
    BY <1>1, <1>2, <1>3, <2>1 DEF notes, keys

(* A published image is found under what its annotations say it is.           *)
THEOREM AnnotationsAgreeHolds == Spec => []AnnotationsAgree
<1>1. ReadInv => AnnotationsAgree
  <2> SUFFICES ASSUME ReadInv, image # None PROVE AnnotationsAgree
    BY DEF AnnotationsAgree
  <2> DEFINE m == image.metadata
             notes == image.annotations
  <2>1. image = Image(remote, meta, wasm) /\ meta \in Metadatas
    BY DEF ReadInv
  <2>2. /\ m = meta /\ image.tag = parseReference(m.version)
        /\ image.repository = <<remote>> \o m.name /\ notes = generateOCIAnnotations(m)
    BY <2>1 DEF Image, Repository
  <2>3. m.version \in Text /\ m.name \in Text
    BY <2>1, <2>2, MetadataAssumption
  <2>4. m.name = IF "title" \in DOMAIN notes THEN notes["title"] ELSE <<>>
    BY <2>1, <2>2, Annotated
  <2>5. m.version = IF "version" \in DOMAIN notes THEN notes["version"] ELSE <<>>
    BY <2>1, <2>2, Annotated
  <2>6. \A k \in DOMAIN m.annotations \ Immutable : notes[k] = m.annotations[k]
    BY <2>1, <2>2, Annotated
  <2>7. "_" \notin Range(m.version) => Plus(image.tag) = m.version
    BY <2>2, <2>3, TagReadBack
  <2> QED
    <3> HIDE DEF m, notes
    <3>1. image.repository =
            <<remote>> \o (IF "title" \in DOMAIN notes THEN notes["title"] ELSE <<>>)
      BY <2>2, <2>4
    <3>2. "_" \notin Range(m.version) =>
            Plus(image.tag) = IF "version" \in DOMAIN notes THEN notes["version"] ELSE <<>>
      BY <2>5, <2>7
    <3> QED
      BY <2>6, <3>1, <3>2 DEF m, notes, AnnotationsAgree
<1> QED
  BY <1>1, ReadInvariant, PTL
=============================================================================
