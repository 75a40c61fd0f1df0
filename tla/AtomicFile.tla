----------------------------- MODULE AtomicFile -----------------------------
(* What AtomicWriteFile promises (files.go:18): each write replaces the whole *)
(* file at once or leaves it alone, and it has replaced it when it succeeds.  *)
CONSTANTS Writers,    \* the callers, one write each
          Originals,  \* what the file may be at first
          Version     \* writer -> the file it writes

VARIABLES file, status

vars == <<file, status>>

Init == file \in Originals /\ status = [w \in Writers |-> "idle"]

Move(w, from, to) == status[w] = from /\ status' = [status EXCEPT ![w] = to]

Begin(w) == Move(w, "idle", "writing") /\ UNCHANGED file

Install(w) == Move(w, "writing", "ok") /\ file' = Version[w]

GiveUp(w) ==
  /\ Move(w, "idle", "stopped") \/ Move(w, "writing", "stopped")
  /\ UNCHANGED file

Next == \E w \in Writers : Begin(w) \/ Install(w) \/ GiveUp(w)

Spec == Init /\ [][Next]_vars
=============================================================================
