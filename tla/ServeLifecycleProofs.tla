------------------------ MODULE ServeLifecycleProofs ------------------------
(* What ServeLifecycle guarantees for any set of requests, stuck or not.      *)
EXTENDS ServeLifecycle, TLAPS

(* The counter is what Add has added, less what Done has taken. *)
Counted ==
  /\ main = "start" <=> server = "none"
  /\ main = "wait" => counter = IF server = "gone" THEN 0 ELSE 1
  /\ main # "wait" => counter = IF server = "gone" THEN -1 ELSE 0
  /\ counter < 0 => process # "running"

(* The listener is that of a server that is past Serve; it fails, and the     *)
(* server with it, or it closes for a cancellation.                           *)
ListenerInv ==
  /\ server \in Before \cup {"none"} => listener = "none"
  /\ server = "serving" => listener \in {"open", "closed"}
  /\ listener = "open" => server = "serving"
  /\ listener = "closed" \/ stopper \in {"draining", "completed", "expired"}
       => ctx = "cancelled"
  /\ stopper \in {"draining", "expired"} => listener = "closed"
  /\ listener = "closed" => stopper \in {"draining", "completed", "expired"}
  /\ server \in {"none", "start"} => stopper = "none"

(* A connection was accepted by an open listener. *)
HandlersAccepted == InFlight # {} => listener # "none"

Inv == TypeOK /\ Counted /\ ListenerInv /\ HandlersAccepted /\ EndsAfterListen /\ CompletedIsDrained

LEMMA InvHolds == Spec => []Inv
<1> USE DEF Before, Ends
<1>1. Init => Inv
  BY DEF Init, Inv, TypeOK, Counted, ListenerInv, HandlersAccepted, EndsAfterListen,
         CompletedIsDrained, InFlight
<1>2. Inv /\ [Next]_vars => Inv'
  <2> SUFFICES ASSUME Inv, [Next]_vars PROVE Inv'
    OBVIOUS
  <2> USE DEF Inv, TypeOK, Counted, ListenerInv, HandlersAccepted, EndsAfterListen,
              CompletedIsDrained, InFlight, Goto
  <2>1. CASE Launch
    BY <2>1 DEF Launch
  <2>2. CASE Add
    BY <2>2 DEF Add
  <2>3. CASE Wait
    BY <2>3 DEF Wait
  <2>4. CASE Start
    BY <2>4 DEF Start
  <2>5. CASE Bind
    BY <2>5 DEF Bind
  <2>6. CASE Serve
    BY <2>6 DEF Serve
  <2>7. CASE StopServing
    BY <2>7 DEF StopServing
  <2>8. CASE Done
    BY <2>8 DEF Done
  <2>9. CASE Shutdown
    BY <2>9 DEF Shutdown
  <2>10. CASE Drained
    BY <2>10 DEF Drained
  <2>11. CASE GraceExpires
    BY <2>11 DEF GraceExpires
  <2>12. ASSUME NEW r \in Requests, Accept(r) PROVE Inv'
    BY <2>12 DEF Accept
  <2>13. ASSUME NEW r \in Requests, Begin(r) \/ Leave(r) \/ Answer(r) PROVE Inv'
    BY <2>13 DEF Begin, Leave, Answer
  <2>14. CASE Cancel
    BY <2>14 DEF Cancel
  <2>15. CASE Kill
    BY <2>15 DEF Kill
  <2>16. CASE UNCHANGED vars
    BY <2>16 DEF vars
  <2>17. CASE AcceptFails
    BY <2>17 DEF AcceptFails
  <2> QED
    BY <2>1, <2>2, <2>3, <2>4, <2>5, <2>6, <2>7, <2>8, <2>9, <2>10, <2>11, <2>12, <2>13,
       <2>14, <2>15, <2>16, <2>17 DEF Next, Main, Server, Stopper, Ended
<1> QED
  BY <1>1, <1>2, PTL DEF Spec

-----------------------------------------------------------------------------
(* Every variable keeps its type; the counter never leaves -1..1.             *)
THEOREM TypesHold == Spec => []TypeOK
BY InvHolds, PTL DEF Inv

(* The command exits only after the server has gone, and panics only when the *)
(* server went before wg.Add.                                                 *)
THEOREM CommandOutlivesServer == Spec => []EndsAfterListen
BY InvHolds, PTL DEF Inv

(* A shutdown that reports its completion has left no request in flight, and  *)
(* none starts afterwards.                                                    *)
THEOREM ShutdownDrains == Spec => []CompletedIsDrained
BY InvHolds, PTL DEF Inv

(* The command ends by itself only after its server has gone, and a server    *)
(* that has accepted a connection goes only when its listener has failed or   *)
(* was closed for a cancellation.                                             *)
THEOREM CutForAReasonHolds == Spec => []CutForAReason
<1>1. Inv => CutForAReason
  BY DEF Inv, TypeOK, ListenerInv, HandlersAccepted, EndsAfterListen, CutForAReason
<1> QED
  BY <1>1, InvHolds, PTL

-----------------------------------------------------------------------------
(* A cancellation that comes too early.  The shutdown goroutine runs once: it  *)
(* finds no listener, reports its completion, and leaves nobody to close the   *)
(* listener that Listen opens afterwards (server.go:82-96).                    *)

Lost == stopper = "completed" /\ listener # "closed"
EndsByError == process \in {"exited", "panicked"} => listener \in {"none", "failed"}

(* From then on the command ends by itself only if Listen fails, at its bind   *)
(* or while it serves: a command that serves goes on serving, its context      *)
(* cancelled, until its listener fails or it is killed.                        *)
THEOREM LostCancellation == Spec => [](Lost => []EndsByError)
<1>1. Inv /\ Lost /\ [Next]_vars => Lost'
  <2> SUFFICES ASSUME Inv, Lost, [Next]_vars PROVE Lost'
    OBVIOUS
  <2> USE DEF Inv, TypeOK, ListenerInv, Lost, Goto, Before
  <2>1. CASE Main \/ Server
    BY <2>1 DEF Main, Server, Launch, Add, Wait, Start, Bind, Serve, StopServing, Done
  <2>2. CASE Stopper
    BY <2>2 DEF Stopper, Shutdown, Drained, GraceExpires
  <2>3. CASE Cancel \/ Kill \/ Ended \/ UNCHANGED vars \/ AcceptFails
              \/ \E r \in Requests : Accept(r) \/ Begin(r) \/ Leave(r) \/ Answer(r)
    BY <2>3 DEF Cancel, Kill, Ended, AcceptFails, Accept, Begin, Leave, Answer, vars
  <2> QED
    BY <2>1, <2>2, <2>3 DEF Next
<1>2. Inv /\ Lost => EndsByError
  BY DEF Inv, TypeOK, ListenerInv, EndsAfterListen, Lost, EndsByError
<1> QED
  BY <1>1, <1>2, InvHolds, PTL DEF Spec

-----------------------------------------------------------------------------
(* Liveness, from the fairness of FairSpec.  The prover has no rule for       *)
(* ENABLED, so where a goroutine can run is a hypothesis, []BlocksOnlyInWaits, *)
(* an invariant that TLC checks; everything else is proved.                   *)

Over == process # "running"
Gone == server = "gone" /\ process = "running"
Leaving == server = "done" /\ process = "running"
Closed == server = "serving" /\ listener = "closed" /\ process = "running"
Cancelled == ctx = "cancelled" /\ server = "serving" /\ stopper = "waiting"

(* What a step may do to a server that is on its way out. *)
LEMMA WayOut ==
  ASSUME Inv, [Next]_vars
  PROVE  /\ Gone => (Gone \/ Over)'
         /\ Leaving => (Leaving \/ Gone \/ Over)'
         /\ Closed => (Closed \/ Leaving \/ Over)'
         /\ Cancelled /\ ~Over => (Cancelled \/ Closed \/ Leaving \/ Over)'
<1> USE DEF Inv, TypeOK, Counted, ListenerInv, Goto, Before, Ends,
            Gone, Leaving, Closed, Cancelled, Over
<1>1. CASE Main
  BY <1>1 DEF Main, Launch, Add, Wait
<1>2. CASE Server
  BY <1>2 DEF Server, Start, Bind, Serve, StopServing, Done
<1>3. CASE Stopper
  BY <1>3 DEF Stopper, Shutdown, Drained, GraceExpires
<1>4. CASE Cancel \/ Kill \/ Ended \/ UNCHANGED vars \/ AcceptFails
            \/ \E r \in Requests : Accept(r) \/ Begin(r) \/ Leave(r) \/ Answer(r)
  BY <1>4 DEF Cancel, Kill, Ended, AcceptFails, Accept, Begin, Leave, Answer, vars
<1> QED
  BY <1>1, <1>2, <1>3, <1>4 DEF Next

(* A command whose server is gone ends: the counter is zero by then, or the   *)
(* process has panicked.                                                      *)
THEOREM EndsWithServerHolds == FairSpec /\ []BlocksOnlyInWaits => EndsWithServer
<1>1. Inv /\ Leaving /\ <<Server>>_vars => (Gone \/ Over)'
  BY DEF Inv, TypeOK, Goto, Leaving, Gone, Over, Server, Start, Bind, Serve, StopServing, Done
<1>2. Inv /\ Gone => main = "wait" /\ counter = 0
  BY DEF Inv, TypeOK, Counted, Gone
<1>3. Inv /\ Gone /\ <<Main>>_vars => Over'
  BY <1>2 DEF Inv, TypeOK, Goto, Gone, Over, Main, Launch, Add, Wait
<1>4. BlocksOnlyInWaits /\ Leaving => ENABLED <<Server>>_vars
  BY DEF BlocksOnlyInWaits, Leaving
<1>5. Inv /\ BlocksOnlyInWaits /\ Gone => ENABLED <<Main>>_vars
  BY <1>2 DEF BlocksOnlyInWaits, Gone
<1>6. server = "done" => Leaving \/ Over
  BY DEF Leaving, Over
<1>7. FairSpec /\ []BlocksOnlyInWaits => (server = "done" ~> Over)
  BY <1>1, <1>3, <1>4, <1>5, <1>6, WayOut, InvHolds, PTL DEF FairSpec, Spec
<1> QED
  BY <1>7 DEF EndsWithServer, Over

(* A cancellation that finds the server serving ends the command, whatever    *)
(* becomes of the requests: the shutdown closes the listener before it waits, *)
(* Listen returns, and the command follows its server.                        *)
THEOREM CancelEndsHolds == FairSpec /\ []BlocksOnlyInWaits => CancelEnds
<1>1. Inv /\ Cancelled /\ <<Stopper>>_vars => (Closed \/ Over)'
  BY DEF Inv, TypeOK, ListenerInv, Goto, Cancelled, Closed, Over, Before,
         Stopper, Shutdown, Drained, GraceExpires
<1>2. Inv /\ Closed /\ <<Server>>_vars => (Leaving \/ Over)'
  BY DEF Inv, TypeOK, Goto, Closed, Leaving, Over, Server, Start, Bind, Serve, StopServing, Done
<1>3. /\ BlocksOnlyInWaits /\ Cancelled => Over \/ ENABLED <<Stopper>>_vars
      /\ BlocksOnlyInWaits /\ Closed => ENABLED <<Server>>_vars
  BY DEF BlocksOnlyInWaits, Cancelled, Closed, Over
<1>4. FairSpec /\ []BlocksOnlyInWaits => (Cancelled ~> Leaving \/ Over)
  BY <1>1, <1>2, <1>3, WayOut, InvHolds, PTL DEF FairSpec, Spec
<1>5. FairSpec /\ []BlocksOnlyInWaits => (server = "done" ~> Over)
  BY EndsWithServerHolds DEF EndsWithServer, Over
<1>6. Leaving => server = "done"
  BY DEF Leaving
<1>7. FairSpec /\ []BlocksOnlyInWaits => (Cancelled ~> Over)
  BY <1>4, <1>5, <1>6, PTL
<1> QED
  BY <1>7 DEF CancelEnds, Cancelled, Over
=============================================================================
