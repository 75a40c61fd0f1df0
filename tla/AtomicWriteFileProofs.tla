------------------------ MODULE AtomicWriteFileProofs ------------------------
(* What AtomicWriteFile guarantees for any number of writers and blocks, and  *)
(* that on one device it implements AtomicFile.                               *)
EXTENDS AtomicWriteFile, TLAPS

-----------------------------------------------------------------------------
(* Types.  The temporary file of a writer that has created it, and the        *)
(* destination of one that has fallen back to copying, are files.             *)

FilesKnown ==
  \A w \in Writers :
    /\ pc[w] \in Writing \cup Falling => temp[w] \in Files
    /\ pc[w] \in {"fill", "copymode", "remove"} => dst \in Files
    /\ pc[w] = "fill" => done[w] < Blocks

FileInv == TypeOK /\ FilesKnown

(* The two shapes that a whole file and a fresh one have. *)
LEMMA FileShapes ==
  /\ \A w \in Writers \cup {Existing} : Complete(w) \in Files
  /\ \A mode \in {"private", "default", "asked"} : Empty(mode) \in Files
BY DEF Complete, Empty, Files, Data

(* FileInv is inductive. *)
LEMMA FileInvariant == Spec => []FileInv
<1> USE WriteAssumption DEF States, Writing, Falling, Stopped
<1>1. Init => FileInv
  BY FileShapes DEF Init, FileInv, FilesKnown, TypeOK
<1>2. FileInv /\ [Next]_vars => FileInv'
  <2> SUFFICES ASSUME FileInv, [Next]_vars PROVE FileInv'
    OBVIOUS
  <2> USE DEF FileInv, FilesKnown, TypeOK, Goto
  <2>0. ASSUME NEW w \in Writers, NEW from, Fail(w, from) PROVE FileInv'
    BY <2>0 DEF Fail
  <2>1. ASSUME NEW w \in Writers, CreateTemp(w) PROVE FileInv'
    BY <2>0, <2>1, FileShapes DEF CreateTemp
  <2>2. ASSUME NEW w \in Writers, CopyBlock(w) PROVE FileInv'
    <3>1. CASE /\ Goto(w, "copy", "copy") /\ done[w] < Blocks /\ UNCHANGED dst
               /\ temp' = [temp EXCEPT ![w].data[done[w] + 1] = w]
               /\ done' = [done EXCEPT ![w] = @ + 1]
      <4>1. temp[w] \in Files /\ done[w] + 1 \in 1..Blocks
        BY <3>1
      <4>2. [temp[w] EXCEPT !.data[done[w] + 1] = w] \in Files
        BY <4>1 DEF Files, Data
      <4>3. temp' = [temp EXCEPT ![w] = [temp[w] EXCEPT !.data[done[w] + 1] = w]]
        BY <3>1
      <4> QED
        BY <3>1, <4>1, <4>2, <4>3
    <3> QED
      BY <2>0, <2>2, <3>1 DEF CopyBlock
  <2>3. ASSUME NEW w \in Writers, CloseTemp(w) PROVE FileInv'
    BY <2>0, <2>3 DEF CloseTemp
  <2>4. ASSUME NEW w \in Writers, Chmod(w) PROVE FileInv'
    BY <2>0, <2>4 DEF Chmod, Files
  <2>5. ASSUME NEW w \in Writers, Rename(w) PROVE FileInv'
    BY <2>0, <2>5 DEF Rename
  <2>6. ASSUME NEW w \in Writers, CreateDestination(w) PROVE FileInv'
    <3>1. CASE /\ Goto(w, "create", "fill") /\ done' = [done EXCEPT ![w] = 0] /\ UNCHANGED temp
               /\ dst' = Empty(IF dst = Absent THEN "default" ELSE dst.mode)
      <4>1. dst' \in Files
        BY <3>1, FileShapes DEF Files
      <4> QED
        BY <3>1, <4>1
    <3> QED
      BY <2>0, <2>6, <3>1 DEF CreateDestination
  <2>7. ASSUME NEW w \in Writers, FillBlock(w) PROVE FileInv'
    <3> DEFINE k == done[w] + 1
    <3>1. CASE /\ Goto(w, "fill", IF k = Blocks THEN "copymode" ELSE "fill") /\ UNCHANGED temp
               /\ dst' = [dst EXCEPT !.data[k] = temp[w].data[k]]
               /\ done' = [done EXCEPT ![w] = k]
      <4>1. temp[w] \in Files /\ dst \in Files /\ k \in 1..Blocks
        BY <3>1
      <4>2. dst' \in Files
        BY <3>1, <4>1 DEF Files, Data
      <4>3. k # Blocks => k < Blocks
        BY <4>1
      <4> QED
        BY <3>1, <4>1, <4>2, <4>3
    <3> QED
      BY <2>0, <2>7, <3>1 DEF FillBlock
  <2>8. ASSUME NEW w \in Writers, CopyMode(w) PROVE FileInv'
    BY <2>0, <2>8 DEF CopyMode, Files
  <2>9. ASSUME NEW w \in Writers, RemoveTemp(w) PROVE FileInv'
    BY <2>0, <2>9 DEF RemoveTemp
  <2>10. ASSUME NEW w \in Writers, Kill(w) PROVE FileInv'
    BY <2>10 DEF Kill
  <2>11. CASE UNCHANGED vars
    BY <2>11 DEF vars
  <2> QED
    BY <2>1, <2>2, <2>3, <2>4, <2>5, <2>6, <2>7, <2>8, <2>9, <2>10, <2>11
    DEF Next, Step, Finished
<1> QED
  BY <1>1, <1>2, PTL DEF Spec

(* Every variable keeps its type, on one device and on two. *)
THEOREM TypeCorrect == Spec => []TypeOK
<1>1. FileInv => TypeOK
  BY DEF FileInv
<1> QED
  BY <1>1, FileInvariant, PTL

-----------------------------------------------------------------------------
(* The temporary file.  It belongs to one writer, so what has been copied to  *)
(* it stays, and it is the whole file when the writer turns to the destination.*)

TempOK(w) ==
  /\ pc[w] = "idle" => done[w] = 0
  /\ pc[w] = "copy" => \A k \in 1..done[w] : temp[w].data[k] = w
  /\ pc[w] = "chmod" => temp[w].data = [k \in 1..Blocks |-> w]
  /\ pc[w] \in {"rename"} \cup Falling => temp[w] = Complete(w)

TempInv == \A w \in Writers : TempOK(w)

(* TempInv is inductive relative to FileInv. *)
LEMMA TempInvariant == Spec => []TempInv
<1> USE WriteAssumption DEF States, Writing, Falling, Stopped
<1>1. Init => TempInv
  BY DEF Init, TempInv, TempOK
<1>2. FileInv /\ TempInv /\ [Next]_vars => TempInv'
  <2> SUFFICES ASSUME FileInv, TempInv, [Next]_vars PROVE TempInv'
    OBVIOUS
  <2> USE DEF FileInv, FilesKnown, TypeOK, Goto
  <2>1. ASSUME NEW w \in Writers, TempOK(w)',
               \A v \in Writers \ {w} : pc'[v] = pc[v] /\ temp'[v] = temp[v] /\ done'[v] = done[v]
        PROVE  TempInv'
    <3> SUFFICES ASSUME NEW v \in Writers, v # w PROVE TempOK(v)'
      BY <2>1 DEF TempInv
    <3>1. TempOK(v)
      BY DEF TempInv
    <3>2. pc'[v] = pc[v] /\ temp'[v] = temp[v] /\ done'[v] = done[v]
      BY <2>1
    <3>3. Complete(v)' = Complete(v)
      BY DEF Complete
    <3> QED
      BY <3>1, <3>2, <3>3 DEF TempOK
  <2>2. ASSUME NEW w \in Writers, NEW to \in Stopped \cup {"ok"}, pc' = [pc EXCEPT ![w] = to],
               \A v \in Writers \ {w} : temp'[v] = temp[v] /\ done'[v] = done[v]
        PROVE  TempInv'
    <3>1. TempOK(w)'
      BY <2>2 DEF TempOK
    <3> QED
      BY <2>1, <2>2, <3>1
  <2>3. ASSUME NEW w \in Writers, NEW from, Fail(w, from) PROVE TempInv'
    BY <2>2, <2>3 DEF Fail
  <2>4. ASSUME NEW w \in Writers, pc[w] \in {"rename"} \cup Falling, UNCHANGED temp,
               NEW to \in Falling, pc' = [pc EXCEPT ![w] = to],
               \A v \in Writers \ {w} : done'[v] = done[v]
        PROVE  TempInv'
    <3>1. pc'[w] = to /\ temp'[w] = Complete(w)
      BY <2>4 DEF TempInv, TempOK
    <3>2. TempOK(w)'
      BY <3>1 DEF TempOK, Complete
    <3> QED
      BY <2>1, <2>4, <3>2
  <2>5. ASSUME NEW w \in Writers, CreateTemp(w) PROVE TempInv'
    <3>1. CASE /\ Goto(w, "idle", "copy") /\ temp' = [temp EXCEPT ![w] = Empty("private")]
               /\ UNCHANGED <<done, dst>>
      <4>1. pc'[w] = "copy" /\ done'[w] = 0
        BY <3>1 DEF TempInv, TempOK
      <4>2. TempOK(w)'
        BY <4>1 DEF TempOK
      <4> QED
        BY <2>1, <3>1, <4>2
    <3> QED
      BY <2>3, <2>5, <3>1 DEF CreateTemp
  <2>6. ASSUME NEW w \in Writers, CopyBlock(w) PROVE TempInv'
    <3>1. CASE /\ Goto(w, "copy", "copy") /\ done[w] < Blocks
               /\ temp' = [temp EXCEPT ![w].data[done[w] + 1] = w]
               /\ done' = [done EXCEPT ![w] = @ + 1]
      <4>1. pc[w] = "copy" /\ temp[w] \in Files /\ done[w] \in 0..Blocks
        BY <3>1
      <4>2. pc'[w] = "copy" /\ done'[w] = done[w] + 1
        BY <3>1
      <4>3. temp'[w].data = [temp[w].data EXCEPT ![done[w] + 1] = w]
        BY <3>1, <4>1 DEF Files
      <4>4. ASSUME NEW k \in 1..(done[w] + 1) PROVE temp'[w].data[k] = w
        <5>1. k \in 1..Blocks /\ DOMAIN temp[w].data = 1..Blocks
          BY <3>1, <4>1 DEF Files, Data
        <5>2. CASE k = done[w] + 1
          BY <4>3, <5>1, <5>2
        <5>3. CASE k # done[w] + 1
          BY <4>1, <4>3, <5>1, <5>3 DEF TempInv, TempOK
        <5> QED
          BY <5>2, <5>3
      <4>5. TempOK(w)'
        BY <4>2, <4>4 DEF TempOK
      <4> QED
        BY <2>1, <3>1, <4>5
    <3> QED
      BY <2>3, <2>6, <3>1 DEF CopyBlock
  <2>7. ASSUME NEW w \in Writers, CloseTemp(w) PROVE TempInv'
    <3>1. CASE Goto(w, "copy", "chmod") /\ done[w] = Blocks /\ UNCHANGED <<temp, done, dst>>
      <4>1. pc'[w] = "chmod" /\ temp'[w].data = [k \in 1..Blocks |-> w]
        BY <3>1 DEF Files, Data, TempInv, TempOK
      <4>2. TempOK(w)'
        BY <4>1 DEF TempOK
      <4> QED
        BY <2>1, <3>1, <4>2
    <3> QED
      BY <2>3, <2>7, <3>1 DEF CloseTemp
  <2>8. ASSUME NEW w \in Writers, Chmod(w) PROVE TempInv'
    <3>1. CASE /\ Goto(w, "chmod", "rename") /\ UNCHANGED <<done, dst>>
               /\ temp' = [temp EXCEPT ![w].mode = "asked"]
      <4>1. temp[w] \in Files /\ temp[w].data = [k \in 1..Blocks |-> w]
        BY <3>1 DEF TempInv, TempOK
      <4>2. temp'[w] = [temp[w] EXCEPT !.mode = "asked"]
        BY <3>1
      <4>3. pc'[w] = "rename" /\ temp'[w] = Complete(w)
        BY <3>1, <4>1, <4>2 DEF Files, Complete
      <4>4. TempOK(w)'
        BY <4>3 DEF TempOK, Complete
      <4> QED
        BY <2>1, <3>1, <4>4
    <3> QED
      BY <2>3, <2>8, <3>1 DEF Chmod
  <2>9. ASSUME NEW w \in Writers, Rename(w) PROVE TempInv'
    <3>1. CASE /\ Goto(w, "rename", "ok") /\ temp' = [temp EXCEPT ![w] = Absent]
               /\ UNCHANGED done
      BY <2>2, <3>1
    <3>2. CASE Goto(w, "rename", "create") /\ UNCHANGED <<temp, done, dst>>
      BY <2>4, <3>2
    <3> QED
      BY <2>3, <2>9, <3>1, <3>2 DEF Rename
  <2>10. ASSUME NEW w \in Writers, CreateDestination(w) PROVE TempInv'
    BY <2>3, <2>4, <2>10 DEF CreateDestination
  <2>11. ASSUME NEW w \in Writers, FillBlock(w) PROVE TempInv'
    <3>1. CASE /\ Goto(w, "fill", IF done[w] + 1 = Blocks THEN "copymode" ELSE "fill")
               /\ done' = [done EXCEPT ![w] = done[w] + 1] /\ UNCHANGED temp
      BY <2>4, <3>1
    <3> QED
      BY <2>3, <2>11, <3>1 DEF FillBlock
  <2>12. ASSUME NEW w \in Writers, CopyMode(w) PROVE TempInv'
    BY <2>3, <2>4, <2>12 DEF CopyMode
  <2>13. ASSUME NEW w \in Writers, RemoveTemp(w) PROVE TempInv'
    BY <2>2, <2>3, <2>13 DEF RemoveTemp
  <2>14. ASSUME NEW w \in Writers, Kill(w) PROVE TempInv'
    BY <2>2, <2>14 DEF Kill
  <2>15. CASE UNCHANGED vars
    BY <2>15 DEF vars, TempInv, TempOK, Complete
  <2> QED
    BY <2>5, <2>6, <2>7, <2>8, <2>9, <2>10, <2>11, <2>12, <2>13, <2>14, <2>15
    DEF Next, Step, Finished
<1> QED
  BY <1>1, <1>2, FileInvariant, PTL DEF Spec

-----------------------------------------------------------------------------
(* One device.  Nobody falls back to copying, so only a rename touches the    *)
(* destination, and it replaces it by a whole file.                           *)

OneDeviceInv == (\A w \in Writers : pc[w] \notin Falling) /\ DestinationComplete

(* OneDeviceInv is inductive relative to TempInv, on one device. *)
LEMMA OneDeviceInvariant ==
  ASSUME ~CrossDevice PROVE Spec => []OneDeviceInv
<1> USE WriteAssumption DEF States, Writing, Falling, Stopped, OneDeviceInv, DestinationComplete
<1>1. Init => OneDeviceInv
  BY DEF Init
<1>2. FileInv /\ TempInv /\ OneDeviceInv /\ [Next]_vars => OneDeviceInv'
  <2> SUFFICES ASSUME FileInv, TempInv, OneDeviceInv, [Next]_vars PROVE OneDeviceInv'
    OBVIOUS
  <2> USE DEF FileInv, TypeOK, Goto
  <2>1. ASSUME NEW w \in Writers, NEW to \in States \ Falling,
               pc' = [pc EXCEPT ![w] = to], UNCHANGED dst
        PROVE  OneDeviceInv'
    BY <2>1
  <2>2. ASSUME NEW w \in Writers, NEW from, Fail(w, from) PROVE OneDeviceInv'
    BY <2>1, <2>2 DEF Fail
  <2>3. ASSUME NEW w \in Writers, CreateTemp(w) PROVE OneDeviceInv'
    BY <2>1, <2>2, <2>3 DEF CreateTemp
  <2>4. ASSUME NEW w \in Writers, CopyBlock(w) \/ CloseTemp(w) \/ Chmod(w) PROVE OneDeviceInv'
    BY <2>1, <2>2, <2>4 DEF CopyBlock, CloseTemp, Chmod
  <2>5. ASSUME NEW w \in Writers, Rename(w) PROVE OneDeviceInv'
    <3>1. CASE Goto(w, "rename", "ok") /\ dst' = temp[w]
      <4>1. dst' = Complete(w)
        BY <3>1 DEF TempInv, TempOK
      <4> QED
        BY <3>1, <4>1
    <3> QED
      BY <2>2, <2>5, <3>1 DEF Rename
  <2>6. ASSUME NEW w \in Writers,
               CreateDestination(w) \/ FillBlock(w) \/ CopyMode(w) \/ RemoveTemp(w)
        PROVE  OneDeviceInv'
    BY <2>6 DEF CreateDestination, FillBlock, CopyMode, RemoveTemp, Fail
  <2>7. ASSUME NEW w \in Writers, Kill(w) PROVE OneDeviceInv'
    BY <2>1, <2>7 DEF Kill
  <2>8. CASE UNCHANGED vars
    BY <2>8 DEF vars
  <2> QED
    BY <2>3, <2>4, <2>5, <2>6, <2>7, <2>8 DEF Next, Step, Finished
<1> QED
  BY <1>1, <1>2, FileInvariant, TempInvariant, PTL DEF Spec

(* On one device the destination is at all times absent or one whole file     *)
(* with the mode asked for, however many writers race, fail or are killed.    *)
THEOREM DestinationCompleteHolds ==
  ASSUME ~CrossDevice PROVE Spec => []DestinationComplete
<1>1. OneDeviceInv => DestinationComplete
  BY DEF OneDeviceInv
<1> QED
  BY <1>1, OneDeviceInvariant, PTL

-----------------------------------------------------------------------------
(* Refinement on one device: the rename installs the file, everything before   *)
(* it is invisible, and every failure or kill gives up.                       *)

(* The state of a writer as the promise sees it. *)
LEMMA StatusFacts ==
  /\ Status("idle") = "idle" /\ Status("ok") = "ok"
  /\ \A s \in Writing : Status(s) = "writing"
  /\ \A s \in Stopped : Status(s) = "stopped"
BY DEF Status, Writing, Falling, Stopped

(* A step of one writer is a step of the promise or leaves it unchanged. *)
LEMMA StepsKeepThePromise ==
  ASSUME ~CrossDevice, FileInv, TempInv, OneDeviceInv, [Next]_vars
  PROVE  [Promise!Next]_(Promise!vars)
<1> USE DEF Goto
<1>0. pc \in [Writers -> States]
  BY DEF FileInv, TypeOK
<1>1. ASSUME NEW w \in Writers, pc[w] \in Writing, NEW to \in Writing,
             pc' = [pc EXCEPT ![w] = to], UNCHANGED dst
      PROVE  [Promise!Next]_(Promise!vars)
  <2>1. [v \in Writers |-> Status(pc[v])]' = [v \in Writers |-> Status(pc[v])]
    BY <1>0, <1>1, StatusFacts
  <2> QED
    BY <1>1, <2>1 DEF Promise!vars
<1>2. ASSUME NEW w \in Writers, pc[w] \in {"idle"} \cup Writing, NEW to \in Stopped,
             pc' = [pc EXCEPT ![w] = to], UNCHANGED dst
      PROVE  [Promise!Next]_(Promise!vars)
  <2>1. [v \in Writers |-> Status(pc[v])]'
          = [[v \in Writers |-> Status(pc[v])] EXCEPT ![w] = "stopped"]
    BY <1>0, <1>2, StatusFacts
  <2>2. Status(pc[w]) \in {"idle", "writing"}
    BY <1>2, StatusFacts
  <2>3. Promise!GiveUp(w)
    BY <1>2, <2>1, <2>2 DEF Promise!GiveUp, Promise!Move
  <2> QED
    BY <2>3 DEF Promise!Next
<1>3. ASSUME NEW w \in Writers, NEW from \in {"idle"} \cup Writing, Fail(w, from)
      PROVE  [Promise!Next]_(Promise!vars)
  BY <1>2, <1>3 DEF Fail, Stopped
<1>4. ASSUME NEW w \in Writers, CreateTemp(w) PROVE [Promise!Next]_(Promise!vars)
  <2>1. CASE Goto(w, "idle", "copy") /\ UNCHANGED <<done, dst>>
    <3>1. [v \in Writers |-> Status(pc[v])]'
            = [[v \in Writers |-> Status(pc[v])] EXCEPT ![w] = "writing"]
      BY <1>0, <2>1, StatusFacts DEF Writing
    <3>2. Promise!Begin(w)
      BY <2>1, <3>1, StatusFacts DEF Promise!Begin, Promise!Move
    <3> QED
      BY <3>2 DEF Promise!Next
  <2> QED
    BY <1>3, <1>4, <2>1 DEF CreateTemp
<1>5. ASSUME NEW w \in Writers, CopyBlock(w) PROVE [Promise!Next]_(Promise!vars)
  BY <1>1, <1>3, <1>5 DEF CopyBlock, Writing
<1>6. ASSUME NEW w \in Writers, CloseTemp(w) PROVE [Promise!Next]_(Promise!vars)
  BY <1>1, <1>3, <1>6 DEF CloseTemp, Writing
<1>7. ASSUME NEW w \in Writers, Chmod(w) PROVE [Promise!Next]_(Promise!vars)
  BY <1>1, <1>3, <1>7 DEF Chmod, Writing
<1>8. ASSUME NEW w \in Writers, Rename(w) PROVE [Promise!Next]_(Promise!vars)
  <2>1. CASE Goto(w, "rename", "ok") /\ dst' = temp[w]
    <3>1. dst' = Complete(w)
      BY <2>1 DEF TempInv, TempOK
    <3>2. [v \in Writers |-> Status(pc[v])]'
            = [[v \in Writers |-> Status(pc[v])] EXCEPT ![w] = "ok"]
      BY <1>0, <2>1, StatusFacts
    <3>3. Status(pc[w]) = "writing"
      BY <2>1, StatusFacts DEF Writing
    <3>4. Promise!Install(w)
      BY <3>1, <3>2, <3>3 DEF Promise!Install, Promise!Move
    <3> QED
      BY <3>4 DEF Promise!Next
  <2> QED
    BY <1>3, <1>8, <2>1 DEF Rename, Writing
<1>9. ASSUME NEW w \in Writers,
             CreateDestination(w) \/ FillBlock(w) \/ CopyMode(w) \/ RemoveTemp(w)
      PROVE  [Promise!Next]_(Promise!vars)
  BY <1>9 DEF CreateDestination, FillBlock, CopyMode, RemoveTemp, Fail, OneDeviceInv, Falling
<1>10. ASSUME NEW w \in Writers, Kill(w) PROVE [Promise!Next]_(Promise!vars)
  BY <1>2, <1>10 DEF Kill, OneDeviceInv, Stopped
<1>11. CASE UNCHANGED vars
  BY <1>11 DEF vars, Promise!vars
<1> QED
  BY <1>4, <1>5, <1>6, <1>7, <1>8, <1>9, <1>10, <1>11 DEF Next, Step, Finished

(* On one device the system calls of any number of writers, with their        *)
(* failures and kills, are atomic replacements of the destination, and a call *)
(* that returns nil has made its own.                                         *)
THEOREM CallsKeepThePromise ==
  ASSUME ~CrossDevice PROVE Spec => ImplementsAtomicFile
<1>1. Init => Promise!Init
  BY StatusFacts DEF Init, Promise!Init
<1>2. FileInv /\ TempInv /\ OneDeviceInv /\ [Next]_vars => [Promise!Next]_(Promise!vars)
  BY StepsKeepThePromise
<1> QED
  BY <1>1, <1>2, FileInvariant, TempInvariant, OneDeviceInvariant, PTL
  DEF Spec, ImplementsAtomicFile, Promise!Spec

-----------------------------------------------------------------------------
(* One writer at the destination, on any devices.  As long as nobody else has *)
(* gone past its own temporary file, the destination is what this writer made *)
(* of it.                                                                     *)

Alone(w) == \A v \in Writers \ {w} : pc[v] \in {"idle"} \cup Writing

AloneOK(w) ==
  /\ pc[w] = "fill" => \A k \in 1..done[w] : dst.data[k] = w
  /\ pc[w] = "copymode" => dst.data = [k \in 1..Blocks |-> w]
  /\ pc[w] \in {"remove", "ok"} => dst = Complete(w)
  /\ pc[w] = "ok" => temp[w] = Absent

AloneInv == \A w \in Writers : Alone(w) => AloneOK(w)

(* The steps of the writer that is alone. *)
LEMMA OwnStepsKeepAlone ==
  ASSUME FileInv, TempInv, NEW w \in Writers, AloneOK(w), Step(w) \/ Kill(w)
  PROVE  AloneOK(w)'
<1> USE WriteAssumption DEF FileInv, FilesKnown, TypeOK, Goto, States, Writing, Falling, Stopped
<1>1. ASSUME NEW to \in {"copy", "chmod", "rename", "create"} \cup Stopped,
             pc' = [pc EXCEPT ![w] = to]
      PROVE  AloneOK(w)'
  BY <1>1 DEF AloneOK
<1>2. ASSUME NEW from, Fail(w, from) PROVE AloneOK(w)'
  BY <1>1, <1>2 DEF Fail
<1>3. ASSUME CreateTemp(w) \/ CopyBlock(w) \/ CloseTemp(w) \/ Chmod(w) PROVE AloneOK(w)'
  BY <1>1, <1>2, <1>3 DEF CreateTemp, CopyBlock, CloseTemp, Chmod
<1>4. ASSUME Rename(w) PROVE AloneOK(w)'
  <2>1. CASE Goto(w, "rename", "ok") /\ dst' = temp[w] /\ temp' = [temp EXCEPT ![w] = Absent]
    <3>1. pc'[w] = "ok" /\ dst' = Complete(w) /\ temp'[w] = Absent
      BY <2>1 DEF TempInv, TempOK
    <3> QED
      BY <3>1 DEF AloneOK, Complete
  <2> QED
    BY <1>1, <1>2, <1>4, <2>1 DEF Rename
<1>5. ASSUME CreateDestination(w) PROVE AloneOK(w)'
  <2>1. CASE Goto(w, "create", "fill") /\ done' = [done EXCEPT ![w] = 0]
    <3>1. pc'[w] = "fill" /\ done'[w] = 0
      BY <2>1
    <3> QED
      BY <3>1 DEF AloneOK
  <2> QED
    BY <1>2, <1>5, <2>1 DEF CreateDestination
<1>6. ASSUME FillBlock(w) PROVE AloneOK(w)'
  <2> DEFINE n == done[w] + 1
  <2>1. CASE /\ Goto(w, "fill", IF n = Blocks THEN "copymode" ELSE "fill")
             /\ dst' = [dst EXCEPT !.data[n] = temp[w].data[n]]
             /\ done' = [done EXCEPT ![w] = n]
    <3>1. /\ pc[w] = "fill" /\ dst \in Files /\ done[w] \in 0..Blocks /\ n \in 1..Blocks
          /\ pc'[w] = (IF n = Blocks THEN "copymode" ELSE "fill") /\ done'[w] = n
      BY <2>1
    <3>2. temp[w].data[n] = w
      BY <3>1 DEF TempInv, TempOK, Complete
    <3>3. DOMAIN dst.data = 1..Blocks /\ dst'.data = [dst.data EXCEPT ![n] = w]
      BY <2>1, <3>1, <3>2 DEF Files, Data
    <3>4. ASSUME NEW k \in 1..n PROVE dst'.data[k] = w
      <4>1. CASE k = n
        BY <3>1, <3>3, <4>1
      <4>2. CASE k # n
        BY <3>1, <3>3, <4>2 DEF AloneOK
      <4> QED
        BY <4>1, <4>2
    <3>5. CASE n = Blocks
      <4>1. dst'.data = [k \in 1..Blocks |-> w]
        BY <3>3, <3>4, <3>5
      <4> QED
        BY <3>1, <3>5, <4>1 DEF AloneOK
    <3>6. CASE n # Blocks
      BY <3>1, <3>4, <3>6 DEF AloneOK
    <3> QED
      BY <3>5, <3>6
  <2> QED
    BY <1>2, <1>6, <2>1 DEF FillBlock
<1>7. ASSUME CopyMode(w) PROVE AloneOK(w)'
  <2>1. CASE Goto(w, "copymode", "remove") /\ dst' = [dst EXCEPT !.mode = temp[w].mode]
    <3>1. dst \in Files /\ dst.data = [k \in 1..Blocks |-> w] /\ temp[w].mode = "asked"
      BY <2>1 DEF AloneOK, TempInv, TempOK, Complete
    <3>2. pc'[w] = "remove" /\ dst' = Complete(w)
      BY <2>1, <3>1 DEF Files, Complete
    <3> QED
      BY <3>2 DEF AloneOK, Complete
  <2> QED
    BY <1>2, <1>7, <2>1 DEF CopyMode
<1>8. ASSUME RemoveTemp(w) PROVE AloneOK(w)'
  <2>1. CASE /\ Goto(w, "remove", "ok") /\ temp' = [temp EXCEPT ![w] = Absent]
             /\ UNCHANGED <<done, dst>>
    <3>1. pc'[w] = "ok" /\ temp'[w] = Absent /\ dst' = Complete(w)
      BY <2>1 DEF AloneOK
    <3> QED
      BY <3>1 DEF AloneOK, Complete
  <2> QED
    BY <1>2, <1>8, <2>1 DEF RemoveTemp
<1>9. ASSUME Kill(w) PROVE AloneOK(w)'
  BY <1>1, <1>9 DEF Kill
<1> QED
  BY <1>3, <1>4, <1>5, <1>6, <1>7, <1>8, <1>9 DEF Step

(* A rival that is still at its own temporary file has not touched the        *)
(* destination on its way there.                                              *)
LEMMA RivalStepsKeepAlone ==
  ASSUME FileInv, NEW w \in Writers, NEW v \in Writers \ {w}, Alone(w)', Step(v) \/ Kill(v)
  PROVE  Alone(w) /\ UNCHANGED dst /\ UNCHANGED <<pc[w], temp[w], done[w]>>
<1> USE DEF FileInv, TypeOK, Goto, States, Writing, Falling, Stopped
<1>1. pc'[v] \in {"idle"} \cup Writing
  BY DEF Alone
<1>2. ASSUME NEW to, pc' = [pc EXCEPT ![v] = to], pc[v] \in {"idle"} \cup Writing, UNCHANGED dst,
             \A u \in Writers \ {v} : temp'[u] = temp[u] /\ done'[u] = done[u]
      PROVE  Alone(w) /\ UNCHANGED dst /\ UNCHANGED <<pc[w], temp[w], done[w]>>
  BY <1>2 DEF Alone
<1>3. ASSUME NEW from, Fail(v, from) PROVE FALSE
  BY <1>1, <1>3 DEF Fail
<1>4. CASE CreateTemp(v)
  BY <1>2, <1>3, <1>4 DEF CreateTemp
<1>5. CASE CopyBlock(v)
  BY <1>2, <1>3, <1>5 DEF CopyBlock
<1>6. CASE CloseTemp(v)
  BY <1>2, <1>3, <1>6 DEF CloseTemp
<1>7. CASE Chmod(v)
  BY <1>2, <1>3, <1>7 DEF Chmod
<1>8. CASE Rename(v) \/ CreateDestination(v) \/ CopyMode(v) \/ RemoveTemp(v) \/ Kill(v)
  BY <1>1, <1>3, <1>8 DEF Rename, CreateDestination, CopyMode, RemoveTemp, Kill
<1>9. CASE FillBlock(v)
  BY <1>1, <1>3, <1>9 DEF FillBlock
<1> QED
  BY <1>4, <1>5, <1>6, <1>7, <1>8, <1>9 DEF Step

(* When AtomicWriteFile returns nil and no rival has reached the destination, *)
(* the destination is the whole file and no temporary file is left, by the    *)
(* rename and by the copy fallback alike, for any number of blocks.           *)
THEOREM WrittenWhenAloneHolds == Spec => []WrittenWhenAlone
<1>1. Init => AloneInv
  BY DEF Init, AloneInv, AloneOK
<1>2. FileInv /\ TempInv /\ AloneInv /\ [Next]_vars => AloneInv'
  <2> SUFFICES ASSUME FileInv, TempInv, AloneInv, [Next]_vars, NEW w \in Writers, Alone(w)'
               PROVE  AloneOK(w)'
    BY DEF AloneInv
  <2>1. ASSUME NEW v \in Writers, v # w, Step(v) \/ Kill(v) PROVE AloneOK(w)'
    <3>1. Alone(w) /\ UNCHANGED dst /\ UNCHANGED <<pc[w], temp[w], done[w]>>
      BY <2>1, RivalStepsKeepAlone
    <3>2. AloneOK(w)
      BY <3>1 DEF AloneInv
    <3> QED
      BY <3>1, <3>2 DEF AloneOK, Complete
  <2>2. CASE Step(w) \/ Kill(w)
    <3>1. \A v \in Writers \ {w} : pc'[v] = pc[v]
      BY <2>2 DEF Step, Kill, CreateTemp, CopyBlock, CloseTemp, Chmod, Rename, CreateDestination,
                  FillBlock, CopyMode, RemoveTemp, Fail, Goto, FileInv, TypeOK
    <3>2. Alone(w)
      BY <3>1 DEF Alone
    <3> QED
      BY <2>2, <3>2, OwnStepsKeepAlone DEF AloneInv
  <2>3. CASE UNCHANGED vars
    <3>1. Alone(w)
      BY <2>3 DEF vars, Alone
    <3> QED
      BY <2>3, <3>1 DEF vars, AloneInv, AloneOK, Complete
  <2> QED
    BY <2>1, <2>2, <2>3 DEF Next, Finished
<1>3. AloneInv => WrittenWhenAlone
  BY DEF AloneInv, Alone, AloneOK, WrittenWhenAlone
<1> QED
  BY <1>1, <1>2, <1>3, FileInvariant, TempInvariant, PTL DEF Spec

-----------------------------------------------------------------------------
(* Leftovers.  The temporary file is private until it is whole, and is gone   *)
(* when the call succeeds.                                                    *)

LeftoverOK(w) ==
  /\ pc[w] \in {"idle", "ok"} => temp[w] = Absent
  /\ pc[w] \in {"copy", "chmod"} => temp[w].mode = "private"
  /\ temp[w] = Absent \/ temp[w].mode = "private" \/ temp[w] = Complete(w)

(* What a call that fails, succeeds or is killed leaves behind is a whole     *)
(* file or a private one, and nothing when it returns nil, on one device and  *)
(* on two, for any number of writers and blocks.                              *)
THEOREM LeftoversAreHarmlessHolds == Spec => []LeftoversAreHarmless
<1> USE WriteAssumption DEF States, Writing, Falling, Stopped
<1> DEFINE LeftoverInv == \A w \in Writers : LeftoverOK(w)
<1>1. Init => LeftoverInv
  BY DEF Init, LeftoverOK
<1>2. FileInv /\ TempInv /\ LeftoverInv /\ [Next]_vars => LeftoverInv'
  <2> SUFFICES ASSUME FileInv, TempInv, LeftoverInv, [Next]_vars, NEW w \in Writers
               PROVE  LeftoverOK(w)'
    OBVIOUS
  <2> USE DEF FileInv, FilesKnown, TypeOK, Goto
  <2>0. Complete(w)' = Complete(w) /\ LeftoverOK(w) /\ TempOK(w)
    BY DEF Complete, TempInv
  <2>1. ASSUME temp'[w] = temp[w],
               pc'[w] = pc[w] \/ pc'[w] \in Stopped \cup {"rename"} \cup Falling
                 \/ (pc[w] = "copy" /\ pc'[w] = "chmod")
        PROVE  LeftoverOK(w)'
    BY <2>0, <2>1 DEF LeftoverOK
  <2>2. ASSUME NEW v \in Writers, v # w, Step(v) \/ Kill(v)
        PROVE  temp'[w] = temp[w] /\ pc'[w] = pc[w]
    BY <2>2 DEF Step, Kill, CreateTemp, CopyBlock, CloseTemp, Chmod, Rename, CreateDestination,
                FillBlock, CopyMode, RemoveTemp, Fail
  <2>3. CASE CreateTemp(w)
    <3>1. CASE pc'[w] = "copy" /\ temp'[w] = Empty("private")
      BY <2>0, <3>1 DEF LeftoverOK, Empty
    <3> QED
      BY <2>1, <2>3, <3>1 DEF CreateTemp, Fail
  <2>4. CASE CopyBlock(w)
    <3>1. CASE /\ pc[w] = "copy" /\ pc'[w] = "copy" /\ done[w] < Blocks
               /\ temp' = [temp EXCEPT ![w].data[done[w] + 1] = w]
      <4>1. temp[w] \in Files /\ temp[w].mode = "private"
        BY <2>0, <3>1 DEF LeftoverOK
      <4>2. temp'[w].mode = "private"
        BY <3>1, <4>1 DEF Files
      <4> QED
        BY <2>0, <3>1, <4>2 DEF LeftoverOK
    <3> QED
      BY <2>1, <2>4, <3>1 DEF CopyBlock, Fail
  <2>5. CASE CloseTemp(w)
    BY <2>1, <2>5 DEF CloseTemp, Fail
  <2>6. CASE Chmod(w)
    <3>1. CASE /\ pc[w] = "chmod" /\ pc'[w] = "rename"
               /\ temp' = [temp EXCEPT ![w].mode = "asked"]
      <4>1. temp[w] \in Files /\ temp[w].data = [k \in 1..Blocks |-> w]
        BY <2>0, <3>1 DEF TempOK
      <4>2. temp'[w] = Complete(w)
        BY <3>1, <4>1 DEF Files, Complete
      <4> QED
        BY <2>0, <3>1, <4>2 DEF LeftoverOK
    <3> QED
      BY <2>1, <2>6, <3>1 DEF Chmod, Fail
  <2>7. CASE Rename(w) \/ RemoveTemp(w)
    <3>1. CASE pc'[w] = "ok" /\ temp'[w] = Absent
      BY <3>1 DEF LeftoverOK
    <3> QED
      BY <2>1, <2>7, <3>1 DEF Rename, RemoveTemp, Fail
  <2>8. CASE CreateDestination(w) \/ CopyMode(w)
    BY <2>1, <2>8 DEF CreateDestination, CopyMode, Fail
  <2>9. CASE FillBlock(w)
    BY <2>1, <2>9 DEF FillBlock, Fail
  <2>10. CASE Kill(w)
    BY <2>1, <2>10 DEF Kill
  <2>11. CASE UNCHANGED vars
    BY <2>1, <2>11 DEF vars
  <2> QED
    BY <2>1, <2>2, <2>3, <2>4, <2>5, <2>6, <2>7, <2>8, <2>9, <2>10, <2>11 DEF Next, Step, Finished
<1>3. LeftoverInv => LeftoversAreHarmless
  BY DEF LeftoverOK, LeftoversAreHarmless
<1> QED
  BY <1>1, <1>2, <1>3, FileInvariant, TempInvariant, PTL DEF Spec
=============================================================================
