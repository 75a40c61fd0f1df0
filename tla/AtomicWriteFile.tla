-------------------------- MODULE AtomicWriteFile --------------------------
(* utils.AtomicWriteFile, system call by system call, run by several          *)
(* processes that write the same destination (two "pwo download" of one       *)
(* extension): every call can fail and every process can be killed.           *)
EXTENDS Naturals

CONSTANTS Writers,      \* the processes, one call of AtomicWriteFile each
          Blocks,       \* length of a file, in the blocks a write is split into
          CrossDevice,  \* the temporary file and the destination are on two
                        \* devices: os.CreateTemp was given "" as directory
          Existing,     \* an earlier version of the destination
          Gap,          \* a block that has not been written yet
          Absent        \* no file

ASSUME WriteAssumption ==
  /\ Blocks \in Nat \ {0} /\ CrossDevice \in BOOLEAN
  /\ Existing \notin Writers \cup {Gap} /\ Gap \notin Writers

VARIABLES pc,     \* writer -> the system call it makes next
          temp,   \* writer -> its temporary file
          done,   \* writer -> blocks copied by the io.Copy it is in
          dst     \* the destination file

vars == <<pc, temp, done, dst>>

Writing == {"copy", "chmod", "rename"}               \* AtomicWriteFile
Falling == {"create", "fill", "copymode", "remove"}  \* renameByCopy
Stopped == {"failed", "killed"}
States == {"idle", "ok"} \cup Writing \cup Falling \cup Stopped

Data == [1..Blocks -> Writers \cup {Existing, Gap}]
Files == [data : Data, mode : {"private", "default", "asked"}]
Empty(mode) == [data |-> [k \in 1..Blocks |-> Gap], mode |-> mode]
Complete(w) == [data |-> [k \in 1..Blocks |-> w], mode |-> "asked"]

Init ==
  /\ pc = [w \in Writers |-> "idle"]
  /\ temp = [w \in Writers |-> Absent]
  /\ done = [w \in Writers |-> 0]
  /\ dst \in {Absent, Complete(Existing)}

Goto(w, from, to) == pc[w] = from /\ pc' = [pc EXCEPT ![w] = to]

(* Every error path returns at once and leaves the temporary file behind. *)
Fail(w, from) == Goto(w, from, "failed") /\ UNCHANGED <<temp, done, dst>>

(* Mutation: the temporary file is opened under the name of the destination.  *)
CreateInPlace(w) ==
  /\ Goto(w, "idle", "copy")
  /\ temp' = [temp EXCEPT ![w] = Empty("asked")]
  /\ dst' = Empty("asked")
  /\ UNCHANGED done

CreateTemp(w) ==
  \/ /\ Goto(w, "idle", "copy")
     /\ temp' = [temp EXCEPT ![w] = Empty("private")]
     /\ UNCHANGED <<done, dst>>
  \/ Fail(w, "idle")

(* Mutation: the copy goes on for one block after the end of the file. *)
CopyPastEnd(w) ==
  /\ Goto(w, "copy", "copy")
  /\ done[w] <= Blocks
  /\ temp' = [temp EXCEPT ![w].data = [k \in DOMAIN @ |-> IF k = done[w] + 1 THEN w ELSE @[k]]]
  /\ done' = [done EXCEPT ![w] = @ + 1]
  /\ UNCHANGED dst

CopyBlock(w) ==
  \/ /\ Goto(w, "copy", "copy")
     /\ done[w] < Blocks
     /\ temp' = [temp EXCEPT ![w].data[done[w] + 1] = w]
     /\ done' = [done EXCEPT ![w] = @ + 1]
     /\ UNCHANGED dst
  \/ Fail(w, "copy")

CloseTemp(w) ==
  \/ Goto(w, "copy", "chmod") /\ done[w] = Blocks /\ UNCHANGED <<temp, done, dst>>
  \/ Fail(w, "copy")

(* Mutation: the mode is set after the rename, if at all. *)
SkipChmod(w) == Goto(w, "chmod", "rename") /\ UNCHANGED <<temp, done, dst>>

Chmod(w) ==
  \/ /\ Goto(w, "chmod", "rename")
     /\ temp' = [temp EXCEPT ![w].mode = "asked"]
     /\ UNCHANGED <<done, dst>>
  \/ Fail(w, "chmod")

(* os.Rename replaces the destination at once, or reports EXDEV. *)
Rename(w) ==
  \/ /\ ~CrossDevice
     /\ Goto(w, "rename", "ok")
     /\ dst' = temp[w]
     /\ temp' = [temp EXCEPT ![w] = Absent]
     /\ UNCHANGED done
  \/ CrossDevice /\ Goto(w, "rename", "create") /\ UNCHANGED <<temp, done, dst>>
  \/ Fail(w, "rename")

(* os.Create truncates the file that is there, whoever is writing it. *)
CreateDestination(w) ==
  \/ /\ Goto(w, "create", "fill")
     /\ dst' = Empty(IF dst = Absent THEN "default" ELSE dst.mode)
     /\ done' = [done EXCEPT ![w] = 0]
     /\ UNCHANGED temp
  \/ Fail(w, "create")

FillBlock(w) ==
  LET k == done[w] + 1 IN
  \/ /\ Goto(w, "fill", IF k = Blocks THEN "copymode" ELSE "fill")
     /\ dst' = [dst EXCEPT !.data[k] = temp[w].data[k]]
     /\ done' = [done EXCEPT ![w] = k]
     /\ UNCHANGED temp
  \/ Fail(w, "fill")

(* Mutation: the copy does not take the mode of its source. *)
SkipCopyMode(w) == Goto(w, "copymode", "remove") /\ UNCHANGED <<temp, done, dst>>

CopyMode(w) ==
  \/ /\ Goto(w, "copymode", "remove")
     /\ dst' = [dst EXCEPT !.mode = temp[w].mode]
     /\ UNCHANGED <<temp, done>>
  \/ Fail(w, "copymode")

(* Mutation: the fallback forgets the source once it has been copied.         *)
KeepTemp(w) == Goto(w, "remove", "ok") /\ UNCHANGED <<temp, done, dst>>

RemoveTemp(w) ==
  \/ /\ Goto(w, "remove", "ok")
     /\ temp' = [temp EXCEPT ![w] = Absent]
     /\ UNCHANGED <<done, dst>>
  \/ Fail(w, "remove")

Kill(w) ==
  /\ pc[w] \in Writing \cup Falling
  /\ pc' = [pc EXCEPT ![w] = "killed"]
  /\ UNCHANGED <<temp, done, dst>>

Finished == (\A w \in Writers : pc[w] \in Stopped \cup {"ok"}) /\ UNCHANGED vars

Step(w) ==
  \/ CreateTemp(w) \/ CopyBlock(w) \/ CloseTemp(w) \/ Chmod(w) \/ Rename(w)
  \/ CreateDestination(w) \/ FillBlock(w) \/ CopyMode(w) \/ RemoveTemp(w)

Next == (\E w \in Writers : Step(w) \/ Kill(w)) \/ Finished

Spec == Init /\ [][Next]_vars

-----------------------------------------------------------------------------
(* Types of the variables. *)
TypeOK ==
  /\ pc \in [Writers -> States]
  /\ temp \in [Writers -> Files \cup {Absent}]
  /\ done \in [Writers -> 0..Blocks]
  /\ dst \in Files \cup {Absent}

(* Whoever opens the destination, at whatever moment and after whatever       *)
(* failure or kill, finds no file or one writer's whole file with the mode    *)
(* the caller asked for (files.go:18).                                        *)
DestinationComplete ==
  dst = Absent \/ \E w \in Writers \cup {Existing} : dst = Complete(w)

(* When AtomicWriteFile returns nil and no rival has reached the destination, *)
(* the destination is the writer's whole file and its temporary file is gone, *)
(* by the rename and by the copy fallback alike (files.go:43-45).             *)
WrittenWhenAlone ==
  \A w \in Writers :
    pc[w] = "ok" /\ (\A v \in Writers \ {w} : pc[v] \in {"idle"} \cup Writing)
      => dst = Complete(w) /\ temp[w] = Absent

(* Every error return leaves the temporary file behind (files.go:27-41), and  *)
(* so does a kill: what is left belongs to a call that did not return nil,    *)
(* and is the whole file or one that nobody else may read, never a part of a  *)
(* file under the mode the caller asked for.                                  *)
LeftoversAreHarmless ==
  \A w \in Writers : temp[w] # Absent =>
    /\ pc[w] # "ok"
    /\ temp[w].mode = "private" \/ temp[w] = Complete(w)

Status(state) == CASE state \in Stopped -> "stopped"
                   [] state \in Writing \cup Falling -> "writing"
                   [] OTHER -> state

Promise == INSTANCE AtomicFile WITH
  Originals <- {Absent, Complete(Existing)},
  Version <- [w \in Writers |-> Complete(w)],
  file <- dst,
  status <- [w \in Writers |-> Status(pc[w])]

(* On one device the calls of several processes, with their failures and      *)
(* kills, are atomic replacements of the destination in some order, and a     *)
(* call that returns nil has made its replacement.                            *)
ImplementsAtomicFile == Promise!Spec
=============================================================================
