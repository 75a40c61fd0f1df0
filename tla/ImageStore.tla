----------------------------- MODULE ImageStore -----------------------------
(* What a registry and its client promise for one tag: a push replaces the    *)
(* image at once or not at all, and a pull returns a whole image that the tag *)
(* named at one moment of the pull.  What other tools pushed can be read as   *)
(* several images, or as none; what a push puts there as exactly one.         *)
CONSTANTS Pushers, Pullers,
          Pushed,    \* pusher -> the image it pushes
          Initial    \* the sets of images that the tag may name at first

VARIABLES current,   \* the images that what the tag names can be read as
          pushing,   \* pusher -> "idle", "busy", "ok" or "stopped"
          pulling,   \* puller -> "idle", "busy", "ok" or "stopped"
          taken      \* puller -> the images it may have read

vars == <<current, pushing, pulling, taken>>

Init ==
  /\ current \in Initial
  /\ pushing = [p \in Pushers |-> "idle"]
  /\ pulling = [q \in Pullers |-> "idle"]
  /\ taken = [q \in Pullers |-> {}]

StartPush(p) ==
  /\ pushing[p] = "idle" /\ pushing' = [pushing EXCEPT ![p] = "busy"]
  /\ UNCHANGED <<current, pulling, taken>>

(* A push that has stopped may have put its image, one that is ok has.        *)
Put(p) ==
  /\ pushing[p] = "busy"
  /\ \E end \in {"ok", "stopped"} : pushing' = [pushing EXCEPT ![p] = end]
  /\ current' = {Pushed[p]}
  /\ UNCHANGED <<pulling, taken>>

StopPush(p) ==
  /\ pushing[p] \in {"idle", "busy"} /\ pushing' = [pushing EXCEPT ![p] = "stopped"]
  /\ UNCHANGED <<current, pulling, taken>>

Delete == current' = {} /\ UNCHANGED <<pushing, pulling, taken>>

Take(q) ==
  /\ pulling[q] = "idle" /\ pulling' = [pulling EXCEPT ![q] = "busy"]
  /\ taken' = [taken EXCEPT ![q] = current]
  /\ UNCHANGED <<current, pushing>>

Return(q) ==
  /\ pulling[q] = "busy" /\ pulling' = [pulling EXCEPT ![q] = "ok"]
  /\ \E image \in taken[q] : taken' = [taken EXCEPT ![q] = {image}]
  /\ UNCHANGED <<current, pushing>>

StopPull(q) ==
  /\ pulling[q] \in {"idle", "busy"} /\ pulling' = [pulling EXCEPT ![q] = "stopped"]
  /\ taken' = [taken EXCEPT ![q] = {}]
  /\ UNCHANGED <<current, pushing>>

Next ==
  \/ \E p \in Pushers : StartPush(p) \/ Put(p) \/ StopPush(p)
  \/ \E q \in Pullers : Take(q) \/ Return(q) \/ StopPull(q)
  \/ Delete

Spec == Init /\ [][Next]_vars
=============================================================================
