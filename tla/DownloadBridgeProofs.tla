------------------------ MODULE DownloadBridgeProofs ------------------------
(* What DownloadBridge guarantees for any number of requests and references.  *)
EXTENDS DownloadBridge, TLAPS

(* The groups of variables, in every proof of this module. *)
USE DEF disk, calls, clients, registry, handler

-----------------------------------------------------------------------------
(* Types.  TypeOK is not inductive alone: a handler that has called Do indexes *)
(* the registry by its reference and the directories by the call it was given, *)
(* which must then be a reference and a request.                              *)

InDo == {"wait"} \cup Leading \cup Returned

HandlerKnown ==
  \A r \in Requests :
    /\ pc[r] \in {"do"} \cup InDo => ref[r] \in Refs
    /\ pc[r] \in InDo => call[r] \in Requests

HandlerInv == TypeOK /\ HandlerKnown

(* Where every handler begins. *)
LEMMA HandlersBegin ==
  Init => \A r \in Requests : /\ pc[r] = "idle" /\ outcome[r] = "pending" /\ call[r] = Nobody
                              /\ reply[r] = NoReply
                              /\ getter[r] = Nobody /\ lister[r] = Nobody /\ found[r] = 0
<1> SUFFICES ASSUME Init, NEW r \in Requests
             PROVE  /\ pc[r] = "idle" /\ outcome[r] = "pending" /\ call[r] = Nobody
                    /\ reply[r] = NoReply
                    /\ getter[r] = Nobody /\ lister[r] = Nobody /\ found[r] = 0
  OBVIOUS
<1>1. pc[r] = "idle" /\ outcome[r] = "pending" /\ call[r] = Nobody
  BY DEF Init
<1>2. reply[r] = NoReply
  BY Zenon DEF Init
<1>3. getter[r] = Nobody /\ lister[r] = Nobody /\ found[r] = 0
  BY DEF Init
<1> QED
  BY <1>1, <1>2, <1>3

(* HandlerInv is inductive. *)
LEMMA HandlerInvariant == Spec => []HandlerInv
<1> USE DEF States, InDo, Leading, Returned, Statuses, Outcomes
<1>1. Init => HandlerInv
  BY DEF Init, HandlerInv, HandlerKnown, TypeOK, NoReply
<1>2. HandlerInv /\ [Next]_vars => HandlerInv'
  <2> SUFFICES ASSUME HandlerInv, [Next]_vars PROVE HandlerInv'
    OBVIOUS
  <2> USE DEF HandlerInv, HandlerKnown, TypeOK
  <2>1. ASSUME NEW r \in Requests, NEW f \in Refs \cup {NoRef}, Receive(r, f)
        PROVE  HandlerInv'
    BY <2>1 DEF Receive, Goto
  <2>2. ASSUME NEW r \in Requests, Reject(r) PROVE HandlerInv'
    BY <2>2 DEF Reject, Respond, Goto
  <2>3. ASSUME NEW r \in Requests, MakeTempDir(r) PROVE HandlerInv'
    <3>1. CASE Goto(r, "received", "do") /\ dirs' = dirs \cup {r} /\ UNCHANGED reply
      BY <2>3, <3>1 DEF MakeTempDir, Goto, Respond
    <3>2. CASE Respond(r, "received", 500, {}) /\ UNCHANGED dirs
      BY <2>3, <3>2 DEF MakeTempDir, Goto, Respond
    <3> QED
      BY <2>3, <3>1, <3>2 DEF MakeTempDir
  <2>4. ASSUME NEW r \in Requests, Join(r) PROVE HandlerInv'
    BY <2>4 DEF Join, Goto
  <2>5. ASSUME NEW r \in Requests, Lead(r) PROVE HandlerInv'
    BY <2>5 DEF Lead, Goto
  <2>6. ASSUME NEW r \in Requests, Settle(r) PROVE HandlerInv'
    BY <2>6 DEF Settle, Goto
  <2>7. ASSUME NEW r \in Requests, Wake(r) PROVE HandlerInv'
    BY <2>7 DEF Wake, Goto
  <2>8. ASSUME NEW r \in Requests, CreateClient(r) PROVE HandlerInv'
    BY <2>8 DEF CreateClient, Goto, Finish
  <2>9. ASSUME NEW r \in Requests, ParseRef(r) PROVE HandlerInv'
    <3>1. CASE Finish(r, "parse", "nil")
      BY <2>9, <3>1 DEF ParseRef, Goto, Finish
    <3>2. CASE Finish(r, "parse", "error")
      BY <2>9, <3>2 DEF ParseRef, Goto, Finish
    <3>3. CASE Goto(r, "parse", "share") /\ UNCHANGED outcome
      BY <2>9, <3>3 DEF ParseRef, Goto, Finish
    <3> QED
      BY <2>9, <3>1, <3>2, <3>3 DEF ParseRef
  <2>10. ASSUME NEW r \in Requests, SetRegistryClient(r) PROVE HandlerInv'
    BY <2>10 DEF SetRegistryClient, Goto
  <2>11. ASSUME NEW r \in Requests, ReadGetterClient(r) PROVE HandlerInv'
    BY <2>11 DEF ReadGetterClient, Goto
  <2>12. ASSUME NEW r \in Requests, ReadListerClient(r) PROVE HandlerInv'
    BY <2>12 DEF ReadListerClient, Goto
  <2>13. ASSUME NEW r \in Requests, ListTags(r) PROVE HandlerInv'
    <3>1. CASE Goto(r, "tags", "pull") /\ found' = [found EXCEPT ![r] = revision[ref[r]]]
      BY <2>13, <3>1 DEF ListTags, Goto, Finish
    <3>2. CASE Finish(r, "tags", "error") /\ UNCHANGED found
      BY <2>13, <3>2 DEF ListTags, Goto, Finish
    <3> QED
      BY <2>13, <3>1, <3>2 DEF ListTags
  <2>14. ASSUME NEW r \in Requests, PullImage(r) PROVE HandlerInv'
    <3>1. CASE Goto(r, "pull", "write")
      BY <2>14, <3>1 DEF PullImage, Goto, Finish
    <3>2. CASE Finish(r, "pull", "error") /\ UNCHANGED found
      BY <2>14, <3>2 DEF PullImage, Goto, Finish
    <3> QED
      BY <2>14, <3>1, <3>2 DEF PullImage
  <2>15. ASSUME NEW r \in Requests, WriteFile(r) PROVE HandlerInv'
    <3>1. CASE Finish(r, "write", "file")
      <4>1. stored' \in [Requests -> SUBSET Contents]
        <5>1. {[ref |-> ref[r], rev |-> found[r]]} \in SUBSET Contents
          BY <3>1 DEF Finish, Goto, Contents
        <5> QED
          BY <2>15, <3>1, <5>1 DEF WriteFile, Finish, Goto
      <4>2. stored' \in [Requests -> SUBSET Contents] => HandlerInv'
        BY <2>15, <3>1 DEF WriteFile, Goto, Finish
      <4> QED
        BY <4>1, <4>2
    <3>2. CASE Finish(r, "write", "error") /\ UNCHANGED stored
      BY <2>15, <3>2 DEF WriteFile, Goto, Finish, Contents
    <3> QED
      BY <2>15, <3>1, <3>2 DEF WriteFile
  <2>16. ASSUME NEW r \in Requests, Return(r) PROVE HandlerInv'
    <3>1. CASE Goto(r, "return", "panic")
      BY <2>16, <3>1 DEF Return, Goto, Respond
    <3>2. CASE Respond(r, "return", 500, {})
      BY <2>16, <3>2 DEF Return, Goto, Respond
    <3>3. CASE Goto(r, "return", "send") /\ UNCHANGED reply
      BY <2>16, <3>3 DEF Return, Goto, Respond
    <3> QED
      BY <2>16, <3>1, <3>2, <3>3 DEF Return
  <2>17. ASSUME NEW r \in Requests, Recover(r) PROVE HandlerInv'
    BY <2>17 DEF Recover, Goto, Respond
  <2>18. ASSUME NEW r \in Requests, SendFile(r) PROVE HandlerInv'
    <3>1. CASE Respond(r, "send", 200, stored[call[r]])
      BY <2>18, <3>1 DEF SendFile, Goto, Respond
    <3>2. CASE Respond(r, "send", 404, {})
      BY <2>18, <3>2 DEF SendFile, Goto, Respond
    <3> QED
      BY <2>18, <3>1, <3>2 DEF SendFile
  <2>19. ASSUME NEW f \in Refs, Publish(f) PROVE HandlerInv'
    BY <2>19 DEF Publish, handler
  <2>20. CASE UNCHANGED vars
    BY <2>20 DEF vars
  <2>21. ASSUME NEW f \in Refs, Withdraw(f) PROVE HandlerInv'
    BY <2>21 DEF Withdraw, handler
  <2> QED
    BY <2>1, <2>2, <2>3, <2>4, <2>5, <2>6, <2>7, <2>8, <2>9, <2>10, <2>11,
       <2>12, <2>13, <2>14, <2>15, <2>16, <2>17, <2>18, <2>19, <2>20, <2>21
    DEF Next, ServerStep, RegistryStep, Quiescent
<1> QED
  BY <1>1, <1>2, PTL DEF Spec

(* Every variable keeps its type, for any number of requests and references. *)
THEOREM TypeCorrect == Spec => []TypeOK
<1>1. HandlerInv => TypeOK
  BY DEF HandlerInv
<1> QED
  BY <1>1, HandlerInvariant, PTL

-----------------------------------------------------------------------------
(* Flights.  The registered flight of a reference and the handler that runs   *)
(* its download determine each other, and a handler holds the call of a       *)
(* handler that still leads or has settled with an outcome.                   *)

LeadersRegistered ==
  \A r \in Requests :
    pc[r] \in Leading => flight[ref[r]] = r /\ call[r] = r

FlightsLed ==
  \A f \in Refs :
    flight[f] # Nobody => pc[flight[f]] \in Leading /\ ref[flight[f]] = f

CallsAnswered ==
  \A r \in Requests :
    /\ pc[r] \in InDo =>
         /\ ref[call[r]] = ref[r]
         /\ pc[call[r]] \in Leading \/ Settled(call[r])
    /\ pc[r] = "wait" /\ Settled(call[r]) => outcome[call[r]] # "pending"
    /\ pc[r] = "settle" => outcome[r] # "pending"

FlightInv == LeadersRegistered /\ FlightsLed /\ CallsAnswered

(* FlightInv is inductive relative to HandlerInv. *)
LEMMA FlightInvariant == Spec => []FlightInv
<1> USE RequestsAssumption DEF States, InDo, Leading, Returned, Settled
<1>1. Init => FlightInv
  BY DEF Init, FlightInv, LeadersRegistered, FlightsLed, CallsAnswered
<1>2. HandlerInv /\ FlightInv /\ [Next]_vars => FlightInv'
  <2> SUFFICES ASSUME HandlerInv, FlightInv, [Next]_vars PROVE FlightInv'
    OBVIOUS
  <2> USE DEF HandlerInv, HandlerKnown, TypeOK,
              FlightInv, LeadersRegistered, FlightsLed, CallsAnswered
  <2>1. ASSUME NEW r \in Requests, NEW f \in Refs \cup {NoRef}, Receive(r, f)
        PROVE  FlightInv'
    BY <2>1 DEF Receive, Goto
  <2>2. ASSUME NEW r \in Requests, Reject(r) PROVE FlightInv'
    BY <2>2 DEF Reject, Respond, Goto
  <2>3. ASSUME NEW r \in Requests, MakeTempDir(r) PROVE FlightInv'
    <3>1. CASE Goto(r, "received", "do") /\ UNCHANGED reply
      BY <2>3, <3>1 DEF MakeTempDir, Goto, Respond
    <3>2. CASE Respond(r, "received", 500, {}) /\ UNCHANGED dirs
      BY <2>3, <3>2 DEF MakeTempDir, Goto, Respond
    <3> QED
      BY <2>3, <3>1, <3>2 DEF MakeTempDir
  <2>4. ASSUME NEW r \in Requests, Join(r) PROVE FlightInv'
    BY <2>4 DEF Join, Goto
  <2>5. ASSUME NEW r \in Requests, Lead(r) PROVE FlightInv'
    BY <2>5 DEF Lead, Goto
  <2>6. ASSUME NEW r \in Requests, Settle(r) PROVE FlightInv'
    BY <2>6 DEF Settle, Goto
  <2>7. ASSUME NEW r \in Requests, Wake(r) PROVE FlightInv'
    BY <2>7 DEF Wake, Goto
  <2>8. ASSUME NEW r \in Requests, CreateClient(r) PROVE FlightInv'
    <3>1. CASE Goto(r, "client", "parse") /\ UNCHANGED outcome
      BY <2>8, <3>1 DEF CreateClient, Goto, Finish
    <3>2. CASE Finish(r, "client", "nil")
      BY <2>8, <3>2 DEF CreateClient, Goto, Finish
    <3> QED
      BY <2>8, <3>1, <3>2 DEF CreateClient
  <2>9. ASSUME NEW r \in Requests, ParseRef(r) PROVE FlightInv'
    <3>1. CASE Finish(r, "parse", "nil")
      BY <2>9, <3>1 DEF ParseRef, Goto, Finish
    <3>2. CASE Finish(r, "parse", "error")
      BY <2>9, <3>2 DEF ParseRef, Goto, Finish
    <3>3. CASE Goto(r, "parse", "share") /\ UNCHANGED outcome
      BY <2>9, <3>3 DEF ParseRef, Goto, Finish
    <3> QED
      BY <2>9, <3>1, <3>2, <3>3 DEF ParseRef
  <2>10. ASSUME NEW r \in Requests, SetRegistryClient(r) PROVE FlightInv'
    BY <2>10 DEF SetRegistryClient, Goto
  <2>11. ASSUME NEW r \in Requests, ReadGetterClient(r) PROVE FlightInv'
    BY <2>11 DEF ReadGetterClient, Goto
  <2>12. ASSUME NEW r \in Requests, ReadListerClient(r) PROVE FlightInv'
    BY <2>12 DEF ReadListerClient, Goto
  <2>13. ASSUME NEW r \in Requests, ListTags(r) PROVE FlightInv'
    <3>1. CASE Goto(r, "tags", "pull") /\ UNCHANGED outcome
      BY <2>13, <3>1 DEF ListTags, Goto, Finish
    <3>2. CASE Finish(r, "tags", "error") /\ UNCHANGED found
      BY <2>13, <3>2 DEF ListTags, Goto, Finish
    <3> QED
      BY <2>13, <3>1, <3>2 DEF ListTags
  <2>14. ASSUME NEW r \in Requests, PullImage(r) PROVE FlightInv'
    <3>1. CASE Goto(r, "pull", "write") /\ UNCHANGED outcome
      BY <2>14, <3>1 DEF PullImage, Goto, Finish
    <3>2. CASE Finish(r, "pull", "error") /\ UNCHANGED found
      BY <2>14, <3>2 DEF PullImage, Goto, Finish
    <3> QED
      BY <2>14, <3>1, <3>2 DEF PullImage
  <2>15. ASSUME NEW r \in Requests, WriteFile(r) PROVE FlightInv'
    <3>1. CASE Finish(r, "write", "file")
      BY <2>15, <3>1 DEF WriteFile, Goto, Finish
    <3>2. CASE Finish(r, "write", "error") /\ UNCHANGED stored
      BY <2>15, <3>2 DEF WriteFile, Goto, Finish
    <3> QED
      BY <2>15, <3>1, <3>2 DEF WriteFile
  <2>16. ASSUME NEW r \in Requests, Return(r) PROVE FlightInv'
    <3>1. CASE Goto(r, "return", "panic")
      BY <2>16, <3>1 DEF Return, Goto, Respond
    <3>2. CASE Respond(r, "return", 500, {})
      BY <2>16, <3>2 DEF Return, Goto, Respond
    <3>3. CASE Goto(r, "return", "send") /\ UNCHANGED reply
      BY <2>16, <3>3 DEF Return, Goto, Respond
    <3> QED
      BY <2>16, <3>1, <3>2, <3>3 DEF Return
  <2>17. ASSUME NEW r \in Requests, Recover(r) PROVE FlightInv'
    BY <2>17 DEF Recover, Goto, Respond
  <2>18. ASSUME NEW r \in Requests, SendFile(r) PROVE FlightInv'
    <3>1. Goto(r, "send", "done") /\ UNCHANGED <<ref, flight, call, outcome>>
      BY <2>18 DEF SendFile, Respond
    <3> QED
      BY <3>1 DEF Goto
  <2>19. ASSUME NEW f \in Refs, Publish(f) PROVE FlightInv'
    BY <2>19 DEF Publish, handler
  <2>20. CASE UNCHANGED vars
    BY <2>20 DEF vars
  <2>21. ASSUME NEW f \in Refs, Withdraw(f) PROVE FlightInv'
    BY <2>21 DEF Withdraw, handler
  <2> QED
    BY <2>1, <2>2, <2>3, <2>4, <2>5, <2>6, <2>7, <2>8, <2>9, <2>10, <2>11,
       <2>12, <2>13, <2>14, <2>15, <2>16, <2>17, <2>18, <2>19, <2>20, <2>21
    DEF Next, ServerStep, RegistryStep, Quiescent
<1> QED
  BY <1>1, <1>2, HandlerInvariant, PTL DEF Spec

(* For any number of concurrent requests, at most one handler runs the        *)
(* download of a reference: two leaders would both be its registered flight.  *)
THEOREM SingleFlightHolds == Spec => []SingleFlight
<1>1. FlightInv => SingleFlight
  BY DEF FlightInv, LeadersRegistered, SingleFlight
<1> QED
  BY <1>1, FlightInvariant, PTL

(* No handler is ever left waiting for a call that nobody runs, or for the    *)
(* call of another reference.                                                 *)
THEOREM WaitersHaveALeaderHolds == Spec => []WaitersHaveALeader
<1>1. HandlerInv /\ FlightInv => WaitersHaveALeader
  BY DEF HandlerInv, HandlerKnown, InDo, FlightInv, LeadersRegistered,
         CallsAnswered, WaitersHaveALeader, Settled
<1> QED
  BY <1>1, HandlerInvariant, FlightInvariant, PTL
-----------------------------------------------------------------------------
(* Progress.  What a handler has not done yet shows in the state: no outcome   *)
(* before its download ends, no call before Do, no reply before the answer.   *)

ProgressInv ==
  \A r \in Requests :
    /\ pc[r] \in {"idle", "received", "do", "wait"} \cup (Leading \ {"settle"})
         => outcome[r] = "pending"
    /\ pc[r] \in {"idle", "received", "do"} => call[r] = Nobody
    /\ pc[r] \in {"do"} \cup InDo => r \in dirs
    /\ pc[r] # "done" => reply[r] = NoReply

(* ProgressInv is inductive relative to HandlerInv. *)
LEMMA ProgressInvariant == Spec => []ProgressInv
<1> USE DEF States, InDo, Leading, Returned
<1>1. Init => ProgressInv
  BY HandlersBegin DEF ProgressInv
<1>2. HandlerInv /\ ProgressInv /\ [Next]_vars => ProgressInv'
  <2> SUFFICES ASSUME HandlerInv, ProgressInv, [Next]_vars PROVE ProgressInv'
    OBVIOUS
  <2> USE DEF HandlerInv, HandlerKnown, TypeOK, ProgressInv
  <2>1. ASSUME NEW r \in Requests, NEW f \in Refs \cup {NoRef}, Receive(r, f)
        PROVE  ProgressInv'
    BY <2>1 DEF Receive, Goto
  <2>2. ASSUME NEW r \in Requests, Reject(r) PROVE ProgressInv'
    BY <2>2 DEF Reject, Respond, Goto
  <2>3. ASSUME NEW r \in Requests, MakeTempDir(r) PROVE ProgressInv'
    <3>1. CASE Goto(r, "received", "do") /\ UNCHANGED reply
      BY <2>3, <3>1 DEF MakeTempDir, Goto, Respond
    <3>2. CASE Respond(r, "received", 500, {}) /\ UNCHANGED dirs
      BY <2>3, <3>2 DEF MakeTempDir, Goto, Respond
    <3> QED
      BY <2>3, <3>1, <3>2 DEF MakeTempDir
  <2>4. ASSUME NEW r \in Requests, Join(r) PROVE ProgressInv'
    BY <2>4 DEF Join, Goto
  <2>5. ASSUME NEW r \in Requests, Lead(r) PROVE ProgressInv'
    BY <2>5 DEF Lead, Goto
  <2>6. ASSUME NEW r \in Requests, Settle(r) PROVE ProgressInv'
    BY <2>6 DEF Settle, Goto
  <2>7. ASSUME NEW r \in Requests, Wake(r) PROVE ProgressInv'
    BY <2>7 DEF Wake, Goto
  <2>8. ASSUME NEW r \in Requests, CreateClient(r) PROVE ProgressInv'
    <3>1. CASE Goto(r, "client", "parse") /\ UNCHANGED outcome
      BY <2>8, <3>1 DEF CreateClient, Goto, Finish
    <3>2. CASE Finish(r, "client", "nil")
      BY <2>8, <3>2 DEF CreateClient, Goto, Finish
    <3> QED
      BY <2>8, <3>1, <3>2 DEF CreateClient
  <2>9. ASSUME NEW r \in Requests, ParseRef(r) PROVE ProgressInv'
    <3>1. CASE Finish(r, "parse", "nil")
      BY <2>9, <3>1 DEF ParseRef, Goto, Finish
    <3>2. CASE Finish(r, "parse", "error")
      BY <2>9, <3>2 DEF ParseRef, Goto, Finish
    <3>3. CASE Goto(r, "parse", "share") /\ UNCHANGED outcome
      BY <2>9, <3>3 DEF ParseRef, Goto, Finish
    <3> QED
      BY <2>9, <3>1, <3>2, <3>3 DEF ParseRef
  <2>10. ASSUME NEW r \in Requests, SetRegistryClient(r) PROVE ProgressInv'
    BY <2>10 DEF SetRegistryClient, Goto
  <2>11. ASSUME NEW r \in Requests, ReadGetterClient(r) PROVE ProgressInv'
    BY <2>11 DEF ReadGetterClient, Goto
  <2>12. ASSUME NEW r \in Requests, ReadListerClient(r) PROVE ProgressInv'
    BY <2>12 DEF ReadListerClient, Goto
  <2>13. ASSUME NEW r \in Requests, ListTags(r) PROVE ProgressInv'
    <3>1. CASE Goto(r, "tags", "pull") /\ UNCHANGED outcome
      BY <2>13, <3>1 DEF ListTags, Goto, Finish
    <3>2. CASE Finish(r, "tags", "error") /\ UNCHANGED found
      BY <2>13, <3>2 DEF ListTags, Goto, Finish
    <3> QED
      BY <2>13, <3>1, <3>2 DEF ListTags
  <2>14. ASSUME NEW r \in Requests, PullImage(r) PROVE ProgressInv'
    <3>1. CASE Goto(r, "pull", "write") /\ UNCHANGED outcome
      BY <2>14, <3>1 DEF PullImage, Goto, Finish
    <3>2. CASE Finish(r, "pull", "error") /\ UNCHANGED found
      BY <2>14, <3>2 DEF PullImage, Goto, Finish
    <3> QED
      BY <2>14, <3>1, <3>2 DEF PullImage
  <2>15. ASSUME NEW r \in Requests, WriteFile(r) PROVE ProgressInv'
    <3>1. CASE Finish(r, "write", "file")
      BY <2>15, <3>1 DEF WriteFile, Goto, Finish
    <3>2. CASE Finish(r, "write", "error") /\ UNCHANGED stored
      BY <2>15, <3>2 DEF WriteFile, Goto, Finish
    <3> QED
      BY <2>15, <3>1, <3>2 DEF WriteFile
  <2>16. ASSUME NEW r \in Requests, Return(r) PROVE ProgressInv'
    <3>1. CASE Goto(r, "return", "panic") /\ UNCHANGED reply
      BY <2>16, <3>1 DEF Return, Goto, Respond
    <3>2. CASE Respond(r, "return", 500, {})
      BY <2>16, <3>2 DEF Return, Goto, Respond
    <3>3. CASE Goto(r, "return", "send") /\ UNCHANGED reply
      BY <2>16, <3>3 DEF Return, Goto, Respond
    <3> QED
      BY <2>16, <3>1, <3>2, <3>3 DEF Return
  <2>17. ASSUME NEW r \in Requests, Recover(r) PROVE ProgressInv'
    BY <2>17 DEF Recover, Goto, Respond
  <2>18. ASSUME NEW r \in Requests, SendFile(r) PROVE ProgressInv'
    BY <2>18 DEF SendFile, Goto, Respond
  <2>19. ASSUME NEW f \in Refs, Publish(f) PROVE ProgressInv'
    BY <2>19 DEF Publish, handler
  <2>20. CASE UNCHANGED vars
    BY <2>20 DEF vars
  <2>21. ASSUME NEW f \in Refs, Withdraw(f) PROVE ProgressInv'
    BY <2>21 DEF Withdraw, handler
  <2> QED
    BY <2>1, <2>2, <2>3, <2>4, <2>5, <2>6, <2>7, <2>8, <2>9, <2>10, <2>11,
       <2>12, <2>13, <2>14, <2>15, <2>16, <2>17, <2>18, <2>19, <2>20, <2>21
    DEF Next, ServerStep, RegistryStep, Quiescent
<1> QED
  BY <1>1, <1>2, HandlerInvariant, PTL DEF Spec

-----------------------------------------------------------------------------
(* Contents.  What a leader has found is never older than its flight, and its *)
(* outcome is a file only while that file, of its own reference, is there.    *)

Fresh(r) == 0 < found[r] /\ opened[r] <= found[r] /\ found[r] <= revision[ref[r]]

FreshInv ==
  \A r \in Requests :
    /\ pc[r] \in Leading => opened[r] <= revision[ref[r]]
    /\ pc[r] = "pull" /\ ref[r] \notin Pinned => Fresh(r)
    /\ pc[r] = "write" => Fresh(r)
    /\ outcome[r] = "file" =>
         /\ ref[r] \in Refs /\ r \in dirs /\ Fresh(r)
         /\ stored[r] = {[ref |-> ref[r], rev |-> found[r]]}

(* FreshInv is inductive relative to HandlerInv and ProgressInv. *)
LEMMA FreshInvariant == Spec => []FreshInv
<1> USE DEF States, InDo, Leading, Returned
<1>1. Init => FreshInv
  BY HandlersBegin DEF FreshInv
<1>2. HandlerInv /\ ProgressInv /\ FreshInv /\ [Next]_vars => FreshInv'
  <2> SUFFICES ASSUME HandlerInv, ProgressInv, FreshInv, [Next]_vars PROVE FreshInv'
    OBVIOUS
  <2> USE DEF HandlerInv, HandlerKnown, TypeOK, ProgressInv, FreshInv, Fresh
  <2>1. ASSUME NEW r \in Requests, NEW f \in Refs \cup {NoRef}, Receive(r, f)
        PROVE  FreshInv'
    BY <2>1 DEF Receive, Goto
  <2>2. ASSUME NEW r \in Requests, Reject(r) PROVE FreshInv'
    BY <2>2 DEF Reject, Respond, Goto
  <2>3. ASSUME NEW r \in Requests, MakeTempDir(r) PROVE FreshInv'
    <3>1. CASE Goto(r, "received", "do") /\ UNCHANGED reply
      BY <2>3, <3>1 DEF MakeTempDir, Goto, Respond
    <3>2. CASE Respond(r, "received", 500, {}) /\ UNCHANGED dirs
      BY <2>3, <3>2 DEF MakeTempDir, Goto, Respond
    <3> QED
      BY <2>3, <3>1, <3>2 DEF MakeTempDir
  <2>4. ASSUME NEW r \in Requests, Join(r) PROVE FreshInv'
    BY <2>4 DEF Join, Goto
  <2>5. ASSUME NEW r \in Requests, Lead(r) PROVE FreshInv'
    BY <2>5 DEF Lead, Goto
  <2>6. ASSUME NEW r \in Requests, Settle(r) PROVE FreshInv'
    BY <2>6 DEF Settle, Goto
  <2>7. ASSUME NEW r \in Requests, Wake(r) PROVE FreshInv'
    BY <2>7 DEF Wake, Goto
  <2>8. ASSUME NEW r \in Requests, CreateClient(r) PROVE FreshInv'
    <3>1. CASE Goto(r, "client", "parse") /\ UNCHANGED outcome
      BY <2>8, <3>1 DEF CreateClient, Goto, Finish
    <3>2. CASE Finish(r, "client", "nil")
      BY <2>8, <3>2 DEF CreateClient, Goto, Finish
    <3> QED
      BY <2>8, <3>1, <3>2 DEF CreateClient
  <2>9. ASSUME NEW r \in Requests, ParseRef(r) PROVE FreshInv'
    <3>1. CASE Finish(r, "parse", "nil")
      BY <2>9, <3>1 DEF ParseRef, Goto, Finish
    <3>2. CASE Finish(r, "parse", "error")
      BY <2>9, <3>2 DEF ParseRef, Goto, Finish
    <3>3. CASE Goto(r, "parse", "share") /\ UNCHANGED outcome
      BY <2>9, <3>3 DEF ParseRef, Goto, Finish
    <3> QED
      BY <2>9, <3>1, <3>2, <3>3 DEF ParseRef
  <2>10. ASSUME NEW r \in Requests, SetRegistryClient(r) PROVE FreshInv'
    BY <2>10 DEF SetRegistryClient, Goto
  <2>11. ASSUME NEW r \in Requests, ReadGetterClient(r) PROVE FreshInv'
    BY <2>11 DEF ReadGetterClient, Goto
  <2>12. ASSUME NEW r \in Requests, ReadListerClient(r) PROVE FreshInv'
    BY <2>12 DEF ReadListerClient, Goto
  <2>13. ASSUME NEW r \in Requests, ListTags(r) PROVE FreshInv'
    <3>1. CASE Goto(r, "tags", "pull") /\ UNCHANGED outcome
      BY <2>13, <3>1 DEF ListTags, Holds, Goto, Finish
    <3>2. CASE Finish(r, "tags", "error") /\ UNCHANGED found
      BY <2>13, <3>2 DEF ListTags, Goto, Finish
    <3> QED
      BY <2>13, <3>1, <3>2 DEF ListTags
  <2>14. ASSUME NEW r \in Requests, PullImage(r) PROVE FreshInv'
    <3>1. CASE Goto(r, "pull", "write") /\ UNCHANGED outcome
      BY <2>14, <3>1 DEF PullImage, Holds, Goto, Finish
    <3>2. CASE Finish(r, "pull", "error") /\ UNCHANGED found
      BY <2>14, <3>2 DEF PullImage, Goto, Finish
    <3> QED
      BY <2>14, <3>1, <3>2 DEF PullImage
  <2>15. ASSUME NEW r \in Requests, WriteFile(r) PROVE FreshInv'
    <3>1. CASE Finish(r, "write", "file")
      BY <2>15, <3>1 DEF WriteFile, Goto, Finish
    <3>2. CASE Finish(r, "write", "error") /\ UNCHANGED stored
      BY <2>15, <3>2 DEF WriteFile, Goto, Finish
    <3> QED
      BY <2>15, <3>1, <3>2 DEF WriteFile
  <2>16. ASSUME NEW r \in Requests, Return(r) PROVE FreshInv'
    <3>1. CASE Goto(r, "return", "panic") /\ UNCHANGED reply
      BY <2>16, <3>1 DEF Return, Goto, Respond
    <3>2. CASE Respond(r, "return", 500, {})
      BY <2>16, <3>2 DEF Return, Goto, Respond
    <3>3. CASE Goto(r, "return", "send") /\ UNCHANGED reply
      BY <2>16, <3>3 DEF Return, Goto, Respond
    <3> QED
      BY <2>16, <3>1, <3>2, <3>3 DEF Return
  <2>17. ASSUME NEW r \in Requests, Recover(r) PROVE FreshInv'
    BY <2>17 DEF Recover, Goto, Respond
  <2>18. ASSUME NEW r \in Requests, SendFile(r) PROVE FreshInv'
    BY <2>18 DEF SendFile, Goto, Respond
  <2>19. ASSUME NEW f \in Refs, Publish(f) PROVE FreshInv'
    BY <2>19 DEF Publish, handler
  <2>20. CASE UNCHANGED vars
    BY <2>20 DEF vars
  <2>21. ASSUME NEW f \in Refs, Withdraw(f) PROVE FreshInv'
    BY <2>21 DEF Withdraw, handler
  <2> QED
    BY <2>1, <2>2, <2>3, <2>4, <2>5, <2>6, <2>7, <2>8, <2>9, <2>10, <2>11,
       <2>12, <2>13, <2>14, <2>15, <2>16, <2>17, <2>18, <2>19, <2>20, <2>21
    DEF Next, ServerStep, RegistryStep, Quiescent
<1> QED
  BY <1>1, <1>2, HandlerInvariant, ProgressInvariant, PTL DEF Spec

-----------------------------------------------------------------------------
(* Answers.  After Do a handler acts on the outcome of its call, and once it  *)
(* has answered, its reply is one that this outcome allows.                   *)

AnswersOf(l) ==
  IF outcome[l] = "file"
    THEN {[status |-> 200, body |-> stored[l]], [status |-> 404, body |-> {}]}
    ELSE {[status |-> 500, body |-> {}]}

AnswerInv ==
  \A r \in Requests :
    /\ pc[r] = "send" => outcome[call[r]] = "file"
    /\ pc[r] = "panic" => outcome[call[r]] = "nil"
    /\ pc[r] = "return" => outcome[call[r]] # "pending"
    /\ pc[r] = "done" /\ call[r] = Nobody => reply[r].status # 200
    /\ pc[r] = "done" /\ call[r] # Nobody =>
         /\ call[r] \in Requests /\ ref[call[r]] = ref[r]
         /\ outcome[call[r]] # "pending" /\ reply[r] \in AnswersOf(call[r])

(* A response that the call of a handler allows, if it has one. *)
Allowed(r, status, body) ==
  \/ call[r] = Nobody /\ status # 200
  \/ /\ call[r] \in Requests /\ ref[call[r]] = ref[r]
     /\ outcome[call[r]] # "pending"
     /\ [status |-> status, body |-> body] \in AnswersOf(call[r])

(* A response that its call allows keeps AnswerInv, whoever gives it. *)
LEMMA RespondingKeepsAnswers ==
  ASSUME HandlerInv, AnswerInv, UNCHANGED <<ref, stored, call, outcome>>,
         NEW r \in Requests, NEW from, NEW status, NEW body,
         Respond(r, from, status, body),
         Allowed(r, status, body)
  PROVE  AnswerInv'
<1> USE RequestsAssumption DEF HandlerInv, HandlerKnown, TypeOK, Allowed
<1>1. /\ pc[r] = from /\ pc' = [pc EXCEPT ![r] = "done"]
      /\ reply' = [reply EXCEPT ![r] = [status |-> status, body |-> body]]
  BY DEF Respond, Goto
<1>2. \A l : AnswersOf(l)' = AnswersOf(l)
  BY DEF AnswersOf
<1> SUFFICES ASSUME NEW q \in Requests
             PROVE  /\ pc'[q] = "send" => outcome[call[q]] = "file"
                    /\ pc'[q] = "panic" => outcome[call[q]] = "nil"
                    /\ pc'[q] = "return" => outcome[call[q]] # "pending"
                    /\ pc'[q] = "done" /\ call[q] = Nobody => reply'[q].status # 200
                    /\ pc'[q] = "done" /\ call[q] # Nobody =>
                         /\ call[q] \in Requests /\ ref[call[q]] = ref[q]
                         /\ outcome[call[q]] # "pending" /\ reply'[q] \in AnswersOf(call[q])
  BY <1>2 DEF AnswerInv
<1>3. CASE q = r
  <2>1. pc'[r] = "done" /\ reply'[r] = [status |-> status, body |-> body]
    BY <1>1
  <2>2. reply'[r].status = status
    BY <2>1
  <2> QED
    BY <1>3, <2>1, <2>2
<1>4. CASE q # r
  <2>1. pc'[q] = pc[q] /\ reply'[q] = reply[q]
    BY <1>1, <1>4
  <2> QED
    BY <2>1 DEF AnswerInv
<1> QED
  BY <1>3, <1>4

(* AnswerInv is inductive relative to the invariants before it. *)
LEMMA AnswerInvariant == Spec => []AnswerInv
<1> USE RequestsAssumption DEF States, InDo, Leading, Returned, Settled, Outcomes
<1>1. Init => AnswerInv
  BY HandlersBegin DEF AnswerInv
<1>2. HandlerInv /\ FlightInv /\ ProgressInv /\ FreshInv /\ AnswerInv /\ [Next]_vars
        => AnswerInv'
  <2> SUFFICES ASSUME HandlerInv, FlightInv, ProgressInv, FreshInv, AnswerInv, [Next]_vars
               PROVE  AnswerInv'
    OBVIOUS
  <2> USE DEF HandlerInv, HandlerKnown, TypeOK, FlightInv, CallsAnswered,
              LeadersRegistered, ProgressInv,
              FreshInv, AnswerInv, AnswersOf, Allowed
  <2>1. ASSUME NEW r \in Requests, NEW f \in Refs \cup {NoRef}, Receive(r, f)
        PROVE  AnswerInv'
    BY <2>1 DEF Receive, Goto
  <2>2. ASSUME NEW r \in Requests, Reject(r) PROVE AnswerInv'
    <3>1. Respond(r, "received", 400, {}) /\ UNCHANGED <<ref, stored, call, outcome>>
      BY <2>2 DEF Reject
    <3>2. Allowed(r, 400, {})
      BY <3>1 DEF Respond, Goto
    <3> HIDE DEF HandlerInv, AnswerInv, Allowed
    <3> QED
      BY <3>1, <3>2, RespondingKeepsAnswers
  <2>3. ASSUME NEW r \in Requests, MakeTempDir(r) PROVE AnswerInv'
    <3>1. CASE Goto(r, "received", "do") /\ UNCHANGED reply
      BY <2>3, <3>1 DEF MakeTempDir, Goto
    <3>2. CASE Respond(r, "received", 500, {}) /\ UNCHANGED dirs
      <4>1. UNCHANGED <<ref, stored, call, outcome>>
        BY <2>3 DEF MakeTempDir
      <4>2. Allowed(r, 500, {})
        BY <3>2 DEF Respond, Goto
      <4> HIDE DEF HandlerInv, AnswerInv, Allowed
      <4> QED
        BY <3>2, <4>1, <4>2, RespondingKeepsAnswers
    <3> QED
      BY <2>3, <3>1, <3>2 DEF MakeTempDir
  <2>4. ASSUME NEW r \in Requests, Join(r) PROVE AnswerInv'
    BY <2>4 DEF Join, Goto
  <2>5. ASSUME NEW r \in Requests, Lead(r) PROVE AnswerInv'
    BY <2>5 DEF Lead, Goto
  <2>6. ASSUME NEW r \in Requests, Settle(r) PROVE AnswerInv'
    BY <2>6 DEF Settle, Goto
  <2>7. ASSUME NEW r \in Requests, Wake(r) PROVE AnswerInv'
    BY <2>7 DEF Wake, Goto
  <2>8. ASSUME NEW r \in Requests, CreateClient(r) PROVE AnswerInv'
    <3>1. CASE Goto(r, "client", "parse") /\ UNCHANGED outcome
      BY <2>8, <3>1 DEF CreateClient, Goto, Finish
    <3>2. CASE Finish(r, "client", "nil")
      BY <2>8, <3>2 DEF CreateClient, Goto, Finish
    <3> QED
      BY <2>8, <3>1, <3>2 DEF CreateClient
  <2>9. ASSUME NEW r \in Requests, ParseRef(r) PROVE AnswerInv'
    <3>1. CASE Finish(r, "parse", "nil")
      BY <2>9, <3>1 DEF ParseRef, Goto, Finish
    <3>2. CASE Finish(r, "parse", "error")
      BY <2>9, <3>2 DEF ParseRef, Goto, Finish
    <3>3. CASE Goto(r, "parse", "share") /\ UNCHANGED outcome
      BY <2>9, <3>3 DEF ParseRef, Goto, Finish
    <3> QED
      BY <2>9, <3>1, <3>2, <3>3 DEF ParseRef
  <2>10. ASSUME NEW r \in Requests, SetRegistryClient(r) PROVE AnswerInv'
    BY <2>10 DEF SetRegistryClient, Goto
  <2>11. ASSUME NEW r \in Requests, ReadGetterClient(r) PROVE AnswerInv'
    BY <2>11 DEF ReadGetterClient, Goto
  <2>12. ASSUME NEW r \in Requests, ReadListerClient(r) PROVE AnswerInv'
    BY <2>12 DEF ReadListerClient, Goto
  <2>13. ASSUME NEW r \in Requests, ListTags(r) PROVE AnswerInv'
    <3>1. CASE Goto(r, "tags", "pull") /\ UNCHANGED outcome
      BY <2>13, <3>1 DEF ListTags, Goto, Finish
    <3>2. CASE Finish(r, "tags", "error") /\ UNCHANGED found
      BY <2>13, <3>2 DEF ListTags, Goto, Finish
    <3> QED
      BY <2>13, <3>1, <3>2 DEF ListTags
  <2>14. ASSUME NEW r \in Requests, PullImage(r) PROVE AnswerInv'
    <3>1. CASE Goto(r, "pull", "write") /\ UNCHANGED outcome
      BY <2>14, <3>1 DEF PullImage, Goto, Finish
    <3>2. CASE Finish(r, "pull", "error") /\ UNCHANGED found
      BY <2>14, <3>2 DEF PullImage, Goto, Finish
    <3> QED
      BY <2>14, <3>1, <3>2 DEF PullImage
  <2>15. ASSUME NEW r \in Requests, WriteFile(r) PROVE AnswerInv'
    <3>1. CASE Finish(r, "write", "file")
      BY <2>15, <3>1 DEF WriteFile, Goto, Finish
    <3>2. CASE Finish(r, "write", "error") /\ UNCHANGED stored
      BY <2>15, <3>2 DEF WriteFile, Goto, Finish
    <3> QED
      BY <2>15, <3>1, <3>2 DEF WriteFile
  <2>16. ASSUME NEW r \in Requests, Return(r) PROVE AnswerInv'
    <3>1. CASE Goto(r, "return", "panic") /\ UNCHANGED reply
      BY <2>16, <3>1 DEF Return, Goto, Respond
    <3>2. CASE outcome[call[r]] = "error" /\ Respond(r, "return", 500, {})
      <4>1. UNCHANGED <<ref, stored, call, outcome>>
        BY <2>16 DEF Return
      <4>2. Allowed(r, 500, {})
        BY <3>2 DEF Respond, Goto
      <4> HIDE DEF HandlerInv, AnswerInv, Allowed
      <4> QED
        BY <3>2, <4>1, <4>2, RespondingKeepsAnswers
    <3>3. CASE Goto(r, "return", "send") /\ UNCHANGED reply
      BY <2>16, <3>3 DEF Return, Goto, Respond
    <3> QED
      BY <2>16, <3>1, <3>2, <3>3 DEF Return
  <2>17. ASSUME NEW r \in Requests, Recover(r) PROVE AnswerInv'
    <3>1. Respond(r, "panic", 500, {}) /\ UNCHANGED <<ref, stored, call, outcome>>
      BY <2>17 DEF Recover
    <3>2. Allowed(r, 500, {})
      BY <3>1 DEF Respond, Goto
    <3> HIDE DEF HandlerInv, AnswerInv, Allowed
    <3> QED
      BY <3>1, <3>2, RespondingKeepsAnswers
  <2>18. ASSUME NEW r \in Requests, SendFile(r) PROVE AnswerInv'
    <3>1. pc[r] = "send" /\ UNCHANGED <<ref, stored, call, outcome>>
      BY <2>18 DEF SendFile, Respond, Goto
    <3>2. call[r] \in Requests /\ ref[call[r]] = ref[r] /\ outcome[call[r]] = "file"
      BY <3>1
    <3>3. Allowed(r, 200, stored[call[r]]) /\ Allowed(r, 404, {})
      BY <3>2
    <3>4. Respond(r, "send", 200, stored[call[r]]) \/ Respond(r, "send", 404, {})
      BY <2>18 DEF SendFile
    <3> HIDE DEF HandlerInv, AnswerInv, Allowed
    <3> QED
      BY <3>1, <3>3, <3>4, RespondingKeepsAnswers
  <2>19. ASSUME NEW f \in Refs, Publish(f) PROVE AnswerInv'
    BY <2>19 DEF Publish, handler
  <2>20. CASE UNCHANGED vars
    BY <2>20 DEF vars
  <2>21. ASSUME NEW f \in Refs, Withdraw(f) PROVE AnswerInv'
    BY <2>21 DEF Withdraw, handler
  <2> HIDE DEF HandlerInv, FlightInv, ProgressInv, FreshInv, AnswerInv
  <2> QED
    BY <2>1, <2>2, <2>3, <2>4, <2>5, <2>6, <2>7, <2>8, <2>9, <2>10, <2>11,
       <2>12, <2>13, <2>14, <2>15, <2>16, <2>17, <2>18, <2>19, <2>20, <2>21
    DEF Next, ServerStep, RegistryStep, Quiescent
<1> QED
  BY <1>1, <1>2, HandlerInvariant, FlightInvariant, ProgressInvariant, FreshInvariant,
     PTL DEF Spec

-----------------------------------------------------------------------------
(* Whoever is past Do has the call of a handler that has settled: the verdict *)
(* that the handlers act on is never that of a flight still registered.       *)

SettledInv ==
  \A r \in Requests :
    pc[r] \in Returned \cup {"done"} /\ call[r] # Nobody => Settled(call[r])

(* SettledInv is inductive relative to the invariants before it. *)
LEMMA SettledInvariant == Spec => []SettledInv
<1> USE RequestsAssumption DEF States, InDo, Leading, Returned, Settled
<1>1. Init => SettledInv
  BY DEF Init, SettledInv
<1>2. HandlerInv /\ FlightInv /\ ProgressInv /\ AnswerInv /\ SettledInv /\ [Next]_vars
        => SettledInv'
  <2> SUFFICES ASSUME HandlerInv, FlightInv, ProgressInv, AnswerInv, SettledInv, [Next]_vars
               PROVE  SettledInv'
    OBVIOUS
  <2> USE DEF HandlerInv, HandlerKnown, TypeOK, FlightInv, LeadersRegistered,
              ProgressInv, AnswerInv, SettledInv
  <2>1. ASSUME NEW r \in Requests, NEW f \in Refs \cup {NoRef}, Receive(r, f)
        PROVE  SettledInv'
    BY <2>1 DEF Receive, Goto
  <2>2. ASSUME NEW r \in Requests, Reject(r) PROVE SettledInv'
    BY <2>2 DEF Reject, Respond, Goto
  <2>3. ASSUME NEW r \in Requests, MakeTempDir(r) PROVE SettledInv'
    <3>1. CASE Goto(r, "received", "do") /\ UNCHANGED reply
      BY <2>3, <3>1 DEF MakeTempDir, Goto
    <3>2. CASE Respond(r, "received", 500, {})
      BY <2>3, <3>2 DEF MakeTempDir, Goto, Respond
    <3> QED
      BY <2>3, <3>1, <3>2 DEF MakeTempDir
  <2>4. ASSUME NEW r \in Requests, Join(r) PROVE SettledInv'
    BY <2>4 DEF Join, Goto
  <2>5. ASSUME NEW r \in Requests, Lead(r) PROVE SettledInv'
    BY <2>5 DEF Lead, Goto
  <2>6. ASSUME NEW r \in Requests, Settle(r) PROVE SettledInv'
    BY <2>6 DEF Settle, Goto
  <2>7. ASSUME NEW r \in Requests, Wake(r) PROVE SettledInv'
    BY <2>7 DEF Wake, Goto
  <2>8. ASSUME NEW r \in Requests, CreateClient(r) PROVE SettledInv'
    BY <2>8 DEF CreateClient, Goto, Finish
  <2>9. ASSUME NEW r \in Requests, ParseRef(r) PROVE SettledInv'
    <3>1. CASE Finish(r, "parse", "nil")
      BY <2>9, <3>1 DEF ParseRef, Goto, Finish
    <3>2. CASE Finish(r, "parse", "error")
      BY <2>9, <3>2 DEF ParseRef, Goto, Finish
    <3>3. CASE Goto(r, "parse", "share")
      BY <2>9, <3>3 DEF ParseRef, Goto
    <3> QED
      BY <2>9, <3>1, <3>2, <3>3 DEF ParseRef
  <2>10. ASSUME NEW r \in Requests, SetRegistryClient(r) PROVE SettledInv'
    BY <2>10 DEF SetRegistryClient, Goto
  <2>11. ASSUME NEW r \in Requests, ReadGetterClient(r) PROVE SettledInv'
    BY <2>11 DEF ReadGetterClient, Goto
  <2>12. ASSUME NEW r \in Requests, ReadListerClient(r) PROVE SettledInv'
    BY <2>12 DEF ReadListerClient, Goto
  <2>13. ASSUME NEW r \in Requests, ListTags(r) PROVE SettledInv'
    BY <2>13 DEF ListTags, Goto, Finish
  <2>14. ASSUME NEW r \in Requests, PullImage(r) PROVE SettledInv'
    BY <2>14 DEF PullImage, Goto, Finish
  <2>15. ASSUME NEW r \in Requests, WriteFile(r) PROVE SettledInv'
    <3>1. CASE Finish(r, "write", "file")
      BY <2>15, <3>1 DEF WriteFile, Goto, Finish
    <3>2. CASE Finish(r, "write", "error")
      BY <2>15, <3>2 DEF WriteFile, Goto, Finish
    <3> QED
      BY <2>15, <3>1, <3>2 DEF WriteFile
  <2>16. ASSUME NEW r \in Requests, Return(r) PROVE SettledInv'
    <3>1. CASE Goto(r, "return", "panic")
      BY <2>16, <3>1 DEF Return, Goto
    <3>2. CASE Respond(r, "return", 500, {})
      BY <2>16, <3>2 DEF Return, Goto, Respond
    <3>3. CASE Goto(r, "return", "send")
      BY <2>16, <3>3 DEF Return, Goto
    <3> QED
      BY <2>16, <3>1, <3>2, <3>3 DEF Return
  <2>17. ASSUME NEW r \in Requests, Recover(r) PROVE SettledInv'
    BY <2>17 DEF Recover, Goto, Respond
  <2>18. ASSUME NEW r \in Requests, SendFile(r) PROVE SettledInv'
    BY <2>18 DEF SendFile, Goto, Respond
  <2>19. ASSUME NEW f \in Refs, Publish(f) PROVE SettledInv'
    BY <2>19 DEF Publish, handler
  <2>20. CASE UNCHANGED vars
    BY <2>20 DEF vars
  <2>21. ASSUME NEW f \in Refs, Withdraw(f) PROVE SettledInv'
    BY <2>21 DEF Withdraw, handler
  <2> QED
    BY <2>1, <2>2, <2>3, <2>4, <2>5, <2>6, <2>7, <2>8, <2>9, <2>10, <2>11,
       <2>12, <2>13, <2>14, <2>15, <2>16, <2>17, <2>18, <2>19, <2>20, <2>21
    DEF Next, ServerStep, RegistryStep, Quiescent
<1> QED
  BY <1>1, <1>2, HandlerInvariant, FlightInvariant, ProgressInvariant, AnswerInvariant,
     PTL DEF Spec

(* Everything that the state says of handlers, flights and answers. *)
BridgeInv ==
  HandlerInv /\ FlightInv /\ ProgressInv /\ FreshInv /\ AnswerInv /\ SettledInv

LEMMA BridgeInvariant == Spec => []BridgeInv
BY HandlerInvariant, FlightInvariant, ProgressInvariant, FreshInvariant,
   AnswerInvariant, SettledInvariant, PTL DEF BridgeInv

(* A call is the call of a handler that leads or has settled (bridge.go:16):   *)
(* the answer of a handler that never led is no verdict for anybody else.     *)
LEMMA CallsAreLed ==
  ASSUME BridgeInv, NEW q \in Requests, call[q] # Nobody
  PROVE  call[q] \in Requests /\ (pc[call[q]] \in Leading \/ Settled(call[q]))
<1> USE DEF BridgeInv
<1>1. pc[q] \notin {"idle", "received", "do"}
  BY DEF ProgressInv
<1>2. CASE pc[q] \in InDo
  BY <1>2 DEF HandlerInv, HandlerKnown, FlightInv, CallsAnswered
<1>3. CASE pc[q] = "done"
  BY <1>3 DEF AnswerInv, SettledInv
<1> QED
  BY <1>1, <1>2, <1>3 DEF HandlerInv, TypeOK, States, InDo

-----------------------------------------------------------------------------
(* Clients.  The shared Configuration holds a client from the first flight    *)
(* that set one, and what a leader read from it is a client.                  *)

ClientInv ==
  \A r \in Requests :
    /\ pc[r] \in {"getter", "lister", "tags", "pull"} => shared # Nobody
    /\ pc[r] \in {"lister", "tags", "pull"} => getter[r] # Nobody
    /\ pc[r] \in {"tags", "pull"} => lister[r] # Nobody

(* ClientInv is inductive relative to HandlerInv. *)
LEMMA ClientInvariant == Spec => []ClientInv
<1> USE RequestsAssumption DEF States, InDo, Leading, Returned
<1>1. Init => ClientInv
  BY DEF Init, ClientInv
<1>2. HandlerInv /\ ClientInv /\ [Next]_vars => ClientInv'
  <2> SUFFICES ASSUME HandlerInv, ClientInv, [Next]_vars PROVE ClientInv'
    OBVIOUS
  <2> USE DEF HandlerInv, HandlerKnown, TypeOK, ClientInv
  <2>1. ASSUME NEW r \in Requests, NEW f \in Refs \cup {NoRef}, Receive(r, f)
        PROVE  ClientInv'
    BY <2>1 DEF Receive, Goto
  <2>2. ASSUME NEW r \in Requests, Reject(r) PROVE ClientInv'
    BY <2>2 DEF Reject, Respond, Goto
  <2>3. ASSUME NEW r \in Requests, MakeTempDir(r) PROVE ClientInv'
    <3>1. CASE Goto(r, "received", "do") /\ UNCHANGED reply
      BY <2>3, <3>1 DEF MakeTempDir, Goto, Respond
    <3>2. CASE Respond(r, "received", 500, {}) /\ UNCHANGED dirs
      BY <2>3, <3>2 DEF MakeTempDir, Goto, Respond
    <3> QED
      BY <2>3, <3>1, <3>2 DEF MakeTempDir
  <2>4. ASSUME NEW r \in Requests, Join(r) PROVE ClientInv'
    BY <2>4 DEF Join, Goto
  <2>5. ASSUME NEW r \in Requests, Lead(r) PROVE ClientInv'
    BY <2>5 DEF Lead, Goto
  <2>6. ASSUME NEW r \in Requests, Settle(r) PROVE ClientInv'
    BY <2>6 DEF Settle, Goto
  <2>7. ASSUME NEW r \in Requests, Wake(r) PROVE ClientInv'
    BY <2>7 DEF Wake, Goto
  <2>8. ASSUME NEW r \in Requests, CreateClient(r) PROVE ClientInv'
    <3>1. CASE Goto(r, "client", "parse") /\ UNCHANGED outcome
      BY <2>8, <3>1 DEF CreateClient, Goto, Finish
    <3>2. CASE Finish(r, "client", "nil")
      BY <2>8, <3>2 DEF CreateClient, Goto, Finish
    <3> QED
      BY <2>8, <3>1, <3>2 DEF CreateClient
  <2>9. ASSUME NEW r \in Requests, ParseRef(r) PROVE ClientInv'
    <3>1. CASE Finish(r, "parse", "nil")
      BY <2>9, <3>1 DEF ParseRef, Goto, Finish
    <3>2. CASE Finish(r, "parse", "error")
      BY <2>9, <3>2 DEF ParseRef, Goto, Finish
    <3>3. CASE Goto(r, "parse", "share") /\ UNCHANGED outcome
      BY <2>9, <3>3 DEF ParseRef, Goto, Finish
    <3> QED
      BY <2>9, <3>1, <3>2, <3>3 DEF ParseRef
  <2>10. ASSUME NEW r \in Requests, SetRegistryClient(r) PROVE ClientInv'
    BY <2>10 DEF SetRegistryClient, Goto
  <2>11. ASSUME NEW r \in Requests, ReadGetterClient(r) PROVE ClientInv'
    BY <2>11 DEF ReadGetterClient, Goto
  <2>12. ASSUME NEW r \in Requests, ReadListerClient(r) PROVE ClientInv'
    BY <2>12 DEF ReadListerClient, Goto
  <2>13. ASSUME NEW r \in Requests, ListTags(r) PROVE ClientInv'
    <3>1. CASE Goto(r, "tags", "pull") /\ UNCHANGED outcome
      BY <2>13, <3>1 DEF ListTags, Goto, Finish
    <3>2. CASE Finish(r, "tags", "error") /\ UNCHANGED found
      BY <2>13, <3>2 DEF ListTags, Goto, Finish
    <3> QED
      BY <2>13, <3>1, <3>2 DEF ListTags
  <2>14. ASSUME NEW r \in Requests, PullImage(r) PROVE ClientInv'
    <3>1. CASE Goto(r, "pull", "write") /\ UNCHANGED outcome
      BY <2>14, <3>1 DEF PullImage, Goto, Finish
    <3>2. CASE Finish(r, "pull", "error") /\ UNCHANGED found
      BY <2>14, <3>2 DEF PullImage, Goto, Finish
    <3> QED
      BY <2>14, <3>1, <3>2 DEF PullImage
  <2>15. ASSUME NEW r \in Requests, WriteFile(r) PROVE ClientInv'
    <3>1. CASE Finish(r, "write", "file")
      BY <2>15, <3>1 DEF WriteFile, Goto, Finish
    <3>2. CASE Finish(r, "write", "error") /\ UNCHANGED stored
      BY <2>15, <3>2 DEF WriteFile, Goto, Finish
    <3> QED
      BY <2>15, <3>1, <3>2 DEF WriteFile
  <2>16. ASSUME NEW r \in Requests, Return(r) PROVE ClientInv'
    <3>1. CASE Goto(r, "return", "panic") /\ UNCHANGED reply
      BY <2>16, <3>1 DEF Return, Goto, Respond
    <3>2. CASE Respond(r, "return", 500, {})
      BY <2>16, <3>2 DEF Return, Goto, Respond
    <3>3. CASE Goto(r, "return", "send") /\ UNCHANGED reply
      BY <2>16, <3>3 DEF Return, Goto, Respond
    <3> QED
      BY <2>16, <3>1, <3>2, <3>3 DEF Return
  <2>17. ASSUME NEW r \in Requests, Recover(r) PROVE ClientInv'
    BY <2>17 DEF Recover, Goto, Respond
  <2>18. ASSUME NEW r \in Requests, SendFile(r) PROVE ClientInv'
    BY <2>18 DEF SendFile, Goto, Respond
  <2>19. ASSUME NEW f \in Refs, Publish(f) PROVE ClientInv'
    BY <2>19 DEF Publish, handler
  <2>20. CASE UNCHANGED vars
    BY <2>20 DEF vars
  <2>21. ASSUME NEW f \in Refs, Withdraw(f) PROVE ClientInv'
    BY <2>21 DEF Withdraw, handler
  <2> QED
    BY <2>1, <2>2, <2>3, <2>4, <2>5, <2>6, <2>7, <2>8, <2>9, <2>10, <2>11,
       <2>12, <2>13, <2>14, <2>15, <2>16, <2>17, <2>18, <2>19, <2>20, <2>21
    DEF Next, ServerStep, RegistryStep, Quiescent
<1> QED
  BY <1>1, <1>2, HandlerInvariant, PTL DEF Spec

(* A 200 carries an image of the reference asked for that is no older than    *)
(* the flight it was answered from, however the registry changed meanwhile.   *)
THEOREM ServedFreshHolds == Spec => []ServedFresh
<1>1. HandlerInv /\ ProgressInv /\ FreshInv /\ AnswerInv => ServedFresh
  <2> SUFFICES ASSUME HandlerInv, ProgressInv, FreshInv, AnswerInv,
                      NEW r \in Requests, reply[r].status = 200
               PROVE  \E c \in reply[r].body : /\ reply[r].body = {c}
                                               /\ c.ref = ref[r]
                                               /\ c.rev > 0
                                               /\ opened[call[r]] <= c.rev
                                               /\ c.rev <= revision[ref[r]]
    BY DEF ServedFresh
  <2>1. pc[r] = "done"
    BY DEF ProgressInv, NoReply
  <2>2. call[r] # Nobody /\ reply[r] \in AnswersOf(call[r])
    BY <2>1 DEF AnswerInv
  <2>3. /\ call[r] \in Requests /\ ref[call[r]] = ref[r]
        /\ outcome[call[r]] = "file" /\ reply[r].body = stored[call[r]]
    BY <2>1, <2>2 DEF AnswerInv, AnswersOf
  <2> DEFINE c == [ref |-> ref[call[r]], rev |-> found[call[r]]]
  <2>4. Fresh(call[r]) /\ reply[r].body = {c} /\ ref[r] \in Refs
    BY <2>3 DEF FreshInv
  <2>5. c.ref = ref[r] /\ c.rev = found[call[r]]
    BY <2>3
  <2>6. c.rev > 0 /\ opened[call[r]] <= c.rev /\ c.rev <= revision[ref[r]]
    BY <2>3, <2>4, <2>5 DEF Fresh, HandlerInv, TypeOK
  <2> HIDE DEF c
  <2> QED
    BY <2>4, <2>5, <2>6
<1> QED
  BY <1>1, HandlerInvariant, ProgressInvariant, FreshInvariant, AnswerInvariant, PTL

(* All handlers that shared a flight agree: they fail with it, or are sent its *)
(* one file, or fail to open that file.                                       *)
THEOREM AgreedAnswerHolds == Spec => []AgreedAnswer
<1>1. AnswerInv => AgreedAnswer
  <2> SUFFICES ASSUME AnswerInv, NEW r \in Requests, NEW s \in Requests,
                      pc[r] = "done", pc[s] = "done", call[r] = call[s], call[r] # Nobody
               PROVE  /\ reply[r].status \in {200, 404} <=> reply[s].status \in {200, 404}
                      /\ reply[r].status = reply[s].status => reply[r] = reply[s]
    BY DEF AgreedAnswer
  <2>1. reply[r] \in AnswersOf(call[r]) /\ reply[s] \in AnswersOf(call[r])
    BY DEF AnswerInv
  <2>2. CASE outcome[call[r]] = "file"
    <3>1. /\ reply[r] \in {[status |-> 200, body |-> stored[call[r]]], [status |-> 404, body |-> {}]}
          /\ reply[s] \in {[status |-> 200, body |-> stored[call[r]]], [status |-> 404, body |-> {}]}
      BY <2>1, <2>2 DEF AnswersOf
    <3> QED
      BY <3>1
  <2>3. CASE outcome[call[r]] # "file"
    BY <2>1, <2>3 DEF AnswersOf
  <2> QED
    BY <2>2, <2>3
<1> QED
  BY <1>1, AnswerInvariant, PTL

(* No download lists tags or pulls with the client that the Configuration     *)
(* starts with, although any flight may overwrite the shared client.          *)
THEOREM ClientIsSetHolds == Spec => []ClientIsSet
<1>1. ClientInv => ClientIsSet
  BY DEF ClientInv, ClientIsSet
<1> QED
  BY <1>1, ClientInvariant, PTL

-----------------------------------------------------------------------------
(* Order.  Flights of one reference follow each other: what a flight found     *)
(* before it settled is no newer than what the registry held when the next one *)
(* began.                                                                     *)

FlightsOrdered ==
  \A m, l \in Requests :
    outcome[m] = "file" /\ Settled(m) /\ pc[l] \in Leading /\ ref[l] = ref[m]
      => found[m] <= opened[l]

(* FlightsOrdered is inductive relative to the other invariants. *)
LEMMA FlightsAreOrdered == Spec => []FlightsOrdered
<1>1. Init => FlightsOrdered
  BY DEF Init, FlightsOrdered, Leading
<1>2. BridgeInv /\ FlightsOrdered /\ [Next]_vars => FlightsOrdered'
  <2> SUFFICES ASSUME BridgeInv, FlightsOrdered, [Next]_vars,
                      NEW m \in Requests, NEW l \in Requests, outcome'[m] = "file",
                      Settled(m)', pc'[l] \in Leading, ref'[l] = ref'[m]
               PROVE  found'[m] <= opened'[l]
    BY DEF FlightsOrdered
  <2> USE DEF BridgeInv, HandlerInv, HandlerKnown, TypeOK, ProgressInv, FlightsOrdered,
              Settled, Returned, Leading, InDo
  <2>1. /\ found[m] \in Nat /\ opened[l] \in Nat
        /\ Settled(m) /\ outcome[m] = "file" /\ pc[l] \in Leading /\ ref[l] = ref[m]
             => found[m] <= opened[l]
    OBVIOUS
  <2>2. ASSUME NEW r \in Requests, Lead(r) PROVE found'[m] <= opened'[l]
    <3>1. /\ UNCHANGED <<ref, outcome, found>> /\ pc[r] = "do"
          /\ pc' = [pc EXCEPT ![r] = "client"]
          /\ opened' = [opened EXCEPT ![r] = revision[ref[r]]]
      BY <2>2 DEF Lead, Goto
    <3>2. m # r /\ pc'[m] = pc[m]
      BY <3>1
    <3>3. CASE l = r
      <4>1. opened'[l] = revision[ref[m]]
        BY <3>1, <3>3
      <4>2. found[m] <= revision[ref[m]]
        BY <3>1 DEF FreshInv, Fresh
      <4> QED
        BY <3>1, <4>1, <4>2
    <3>4. CASE l # r
      BY <2>1, <3>1, <3>2, <3>4
    <3> QED
      BY <3>3, <3>4
  <2>3. ASSUME NEW r \in Requests, Settle(r) PROVE found'[m] <= opened'[l]
    <3>1. /\ UNCHANGED <<ref, outcome, found, opened>> /\ pc[r] = "settle"
          /\ pc' = [pc EXCEPT ![r] = "return"]
      BY <2>3 DEF Settle, Goto
    <3>2. l # r /\ pc[l] \in Leading
      BY <3>1
    <3>3. m # r
      BY <3>1, <3>2 DEF FlightInv, LeadersRegistered
    <3> QED
      BY <2>1, <3>1, <3>2, <3>3
  <2>4. ASSUME NEW r \in Requests,
               CreateClient(r) \/ ParseRef(r) \/ ListTags(r) \/ PullImage(r) \/ WriteFile(r)
        PROVE  found'[m] <= opened'[l]
    <3>1. /\ UNCHANGED <<ref, opened>> /\ pc[r] \in Leading
          /\ \E s \in Leading : pc' = [pc EXCEPT ![r] = s]
          /\ \A q \in Requests \ {r} : outcome'[q] = outcome[q] /\ found'[q] = found[q]
      BY <2>4 DEF CreateClient, ParseRef, ListTags, PullImage, WriteFile, Goto, Finish
    <3>2. m # r /\ pc'[m] = pc[m] /\ pc[l] \in Leading
      BY <3>1
    <3> QED
      BY <2>1, <3>1, <3>2
  <2>5. ASSUME NEW r \in Requests,
               SetRegistryClient(r) \/ ReadGetterClient(r) \/ ReadListerClient(r)
        PROVE  found'[m] <= opened'[l]
    <3>1. /\ UNCHANGED <<ref, opened, outcome, found>> /\ pc[r] \in Leading
          /\ \E s \in Leading : pc' = [pc EXCEPT ![r] = s]
      BY <2>5 DEF SetRegistryClient, ReadGetterClient, ReadListerClient, Goto
    <3> QED
      BY <2>1, <3>1
  <2>6. ASSUME NEW r \in Requests, NEW f \in Refs \cup {NoRef},
               Receive(r, f) \/ Reject(r) \/ MakeTempDir(r) \/ Join(r) \/ Wake(r)
        PROVE  found'[m] <= opened'[l]
    <3>1. /\ UNCHANGED <<opened, outcome, found>>
          /\ pc[r] \in {"idle", "received", "do", "wait"}
          /\ \E s \in {"received", "do", "done", "wait", "return"} : pc' = [pc EXCEPT ![r] = s]
          /\ \A q \in Requests \ {r} : ref'[q] = ref[q]
      BY <2>6 DEF Receive, Reject, MakeTempDir, Join, Wake, Goto, Respond
    <3>2. m # r /\ l # r
      BY <3>1
    <3> QED
      BY <2>1, <3>1, <3>2
  <2>7. ASSUME NEW r \in Requests, Return(r) \/ Recover(r) \/ SendFile(r)
        PROVE  found'[m] <= opened'[l]
    <3>1. /\ UNCHANGED <<ref, opened, outcome, found>> /\ pc[r] \in Returned
          /\ \E s \in Returned \cup {"done"} : pc' = [pc EXCEPT ![r] = s]
      BY <2>7 DEF Return, Recover, SendFile, Goto, Respond
    <3> QED
      BY <2>1, <3>1
  <2>8. ASSUME NEW f \in Refs, Publish(f) \/ Withdraw(f) PROVE found'[m] <= opened'[l]
    BY <2>1, <2>8 DEF Publish, Withdraw
  <2>9. CASE UNCHANGED vars
    BY <2>1, <2>9 DEF vars
  <2> QED
    BY <2>2, <2>3, <2>4, <2>5, <2>6, <2>7, <2>8, <2>9
    DEF Next, ServerStep, RegistryStep, Quiescent
<1> QED
  BY <1>1, <1>2, BridgeInvariant, PTL DEF Spec

(* The image of a 200 is the one that the leader of the call found. *)
LEMMA AnswersTellFound ==
  ASSUME BridgeInv, NEW r \in Requests, reply[r].status = 200
  PROVE  /\ pc[r] = "done" /\ call[r] \in Requests /\ ref[call[r]] = ref[r]
         /\ outcome[call[r]] = "file" /\ Fresh(call[r])
         /\ reply[r].body = {[ref |-> ref[r], rev |-> found[call[r]]]}
<1> USE DEF BridgeInv
<1>1. pc[r] = "done"
  BY DEF ProgressInv, NoReply
<1>2. /\ call[r] \in Requests /\ ref[call[r]] = ref[r]
      /\ reply[r] \in AnswersOf(call[r])
  BY <1>1 DEF AnswerInv
<1>3. outcome[call[r]] = "file" /\ reply[r].body = stored[call[r]]
  BY <1>2 DEF AnswersOf
<1> QED
  BY <1>1, <1>2, <1>3 DEF FreshInv

(* A running download began no earlier than any answered image of its         *)
(* reference: joining a flight that is already running never steps back.      *)
THEOREM NeverBackwardsHolds == Spec => []NeverBackwards
<1>1. BridgeInv /\ FlightsOrdered => NeverBackwards
  <2> SUFFICES ASSUME BridgeInv, FlightsOrdered, NEW r \in Requests, NEW l \in Requests,
                      reply[r].status = 200, pc[l] \in Leading, ref[l] = ref[r],
                      NEW c \in reply[r].body
               PROVE  c.rev <= opened[l]
    BY DEF NeverBackwards
  <2>1. /\ pc[r] = "done" /\ call[r] \in Requests /\ ref[call[r]] = ref[r]
        /\ outcome[call[r]] = "file"
    BY AnswersTellFound
  <2>2. c.rev = found[call[r]]
    BY AnswersTellFound
  <2>3. Settled(call[r])
    BY <2>1, RequestsAssumption DEF BridgeInv, SettledInv
  <2> QED
    BY <2>1, <2>2, <2>3 DEF FlightsOrdered
<1> QED
  BY <1>1, BridgeInvariant, FlightsAreOrdered, PTL

-----------------------------------------------------------------------------
(* Failures before the registry.  Only a reference that parses gets past       *)
(* bridge.go:23, and a result that is nil comes from before a client is read.    *)

BeforeClients == {"idle", "received", "do", "wait", "client", "parse", "share", "getter"}
AfterParse == {"share", "getter", "lister", "tags", "pull", "write"}

(* The handler has read no client and learnt nothing from a registry. *)
Untouched(r) == getter[r] = Nobody /\ lister[r] = Nobody /\ found[r] = 0

ParseInv ==
  \A r \in Requests :
    /\ pc[r] \in AfterParse \/ outcome[r] = "file" => ref[r] \notin Unfetchable
    /\ pc[r] \in BeforeClients \/ outcome[r] = "nil" => Untouched(r)

(* ParseInv is inductive relative to the invariants before it. *)
LEMMA ParseInvariant == Spec => []ParseInv
<1> USE DEF BeforeClients, AfterParse, Leading, Returned, InDo, States
<1>1. Init => ParseInv
  BY HandlersBegin DEF ParseInv, Untouched
<1>2. BridgeInv /\ ParseInv /\ [Next]_vars => ParseInv'
  <2> SUFFICES ASSUME BridgeInv, ParseInv, [Next]_vars PROVE ParseInv'
    OBVIOUS
  <2> USE DEF BridgeInv, HandlerInv, HandlerKnown, TypeOK, ProgressInv, ParseInv, Untouched, Goto, Finish
  <2>1. ASSUME NEW r \in Requests, NEW f \in Refs \cup {NoRef}, Receive(r, f) PROVE ParseInv'
    BY <2>1 DEF Receive
  <2>2. ASSUME NEW r \in Requests, CreateClient(r) PROVE ParseInv'
    <3>1. CASE Goto(r, "client", "parse") /\ UNCHANGED outcome
      BY <2>2, <3>1 DEF CreateClient
    <3>2. CASE Finish(r, "client", "nil")
      BY <2>2, <3>2 DEF CreateClient
    <3> QED
      BY <2>2, <3>1, <3>2 DEF CreateClient
  <2>3. ASSUME NEW r \in Requests, ParseRef(r) PROVE ParseInv'
    <3>1. CASE Finish(r, "parse", "nil")
      BY <2>3, <3>1 DEF ParseRef
    <3>2. CASE Finish(r, "parse", "error")
      BY <2>3, <3>2 DEF ParseRef
    <3>3. CASE Goto(r, "parse", "share") /\ ref[r] \notin Unfetchable
      BY <2>3, <3>3 DEF ParseRef
    <3> QED
      BY <2>3, <3>1, <3>2, <3>3 DEF ParseRef, Unfetchable
  <2>4. ASSUME NEW r \in Requests, SetRegistryClient(r) \/ ReadListerClient(r) PROVE ParseInv'
    BY <2>4 DEF SetRegistryClient, ReadListerClient
  <2>5. ASSUME NEW r \in Requests, ReadGetterClient(r) PROVE ParseInv'
    BY <2>5 DEF ReadGetterClient
  <2>6. ASSUME NEW r \in Requests, RegistryStep(r) \/ WriteFile(r) PROVE ParseInv'
    <3>1. /\ UNCHANGED <<ref, getter, lister>> /\ pc[r] \in {"tags", "pull", "write"}
          /\ \A q \in Requests \ {r} : found'[q] = found[q]
          /\ \E s \in {"pull", "write", "settle"} : pc' = [pc EXCEPT ![r] = s]
          /\ \/ UNCHANGED outcome
             \/ \E o \in {"error", "file"} : outcome' = [outcome EXCEPT ![r] = o]
      BY <2>6 DEF RegistryStep, ListTags, PullImage, WriteFile
    <3>2. \A q \in Requests : outcome'[q] = "nil" => outcome[q] = "nil" /\ q # r
      BY <3>1
    <3>3. \A q \in Requests : outcome'[q] = "file" /\ q # r => outcome[q] = "file"
      BY <3>1
    <3>4. \A q \in Requests : pc'[q] \in AfterParse => pc[q] \in AfterParse
      BY <3>1
    <3>5. \A q \in Requests : pc'[q] \in BeforeClients => pc[q] \in BeforeClients /\ q # r
      BY <3>1
    <3> QED
      BY <3>1, <3>2, <3>3, <3>4, <3>5
  <2>7. ASSUME NEW r \in Requests,
               Reject(r) \/ MakeTempDir(r) \/ Join(r) \/ Lead(r) \/ Settle(r) \/ Wake(r)
                 \/ Return(r) \/ Recover(r) \/ SendFile(r)
        PROVE  ParseInv'
    <3> DEFINE To(s) == /\ pc' = [pc EXCEPT ![r] = s]
                        /\ s \notin AfterParse
                        /\ s \in BeforeClients => pc[r] \in BeforeClients
    <3>1. UNCHANGED <<ref, getter, lister, found, outcome>>
      BY <2>7 DEF Reject, MakeTempDir, Join, Lead, Settle, Wake, Return, Recover, SendFile
    <3>2. CASE Reject(r) \/ MakeTempDir(r)
      <4>1. To("do") \/ To("done")
        BY <3>2 DEF Reject, MakeTempDir, Respond
      <4> QED
        BY <3>1, <4>1
    <3>3. CASE Join(r) \/ Lead(r)
      <4>1. To("wait") \/ To("client")
        BY <3>3 DEF Join, Lead
      <4> QED
        BY <3>1, <4>1
    <3>4. CASE Settle(r) \/ Wake(r)
      <4>1. To("return")
        BY <3>4 DEF Settle, Wake
      <4> QED
        BY <3>1, <4>1
    <3>5. CASE Return(r) \/ Recover(r) \/ SendFile(r)
      <4>1. To("panic") \/ To("send") \/ To("done")
        BY <3>5 DEF Return, Recover, SendFile, Respond
      <4> QED
        BY <3>1, <4>1
    <3> QED
      BY <2>7, <3>2, <3>3, <3>4, <3>5
  <2>8. ASSUME NEW f \in Refs, Publish(f) \/ Withdraw(f) PROVE ParseInv'
    BY <2>8 DEF Publish, Withdraw, handler
  <2>9. CASE UNCHANGED vars
    BY <2>9 DEF vars
  <2> QED
    BY <2>1, <2>2, <2>3, <2>4, <2>5, <2>6, <2>7, <2>8, <2>9
    DEF Next, ServerStep, RegistryStep, Quiescent
<1> QED
  BY <1>1, <1>2, BridgeInvariant, PTL DEF Spec

(* The assertion of bridge.go:56 fails only over a flight that had read no     *)
(* client and learnt nothing from a registry: the creation of its client      *)
(* failed, which a file that cannot be read is enough for (client.go:62-65),  *)
(* or its reference is not OCI.  What a registry answers, or a disk refuses    *)
(* later, is an error response and no panic.                                  *)
THEOREM PanicsBeforeRegistry ==
  Spec => [](\A r \in Requests : pc[r] = "panic" => Untouched(call[r]))
<1>1. BridgeInv /\ ParseInv => \A r \in Requests : pc[r] = "panic" => Untouched(call[r])
  BY DEF BridgeInv, HandlerInv, HandlerKnown, InDo, Returned, AnswerInv, ParseInv
<1> QED
  BY <1>1, BridgeInvariant, ParseInvariant, PTL

(* A reference that is not OCI, or does not parse, is never answered with a    *)
(* file, not even by joining a flight (bridge.go:23-32).                       *)
THEOREM OnlyFetchableServed ==
  Spec => [](\A r \in Requests : reply[r].status = 200 => ref[r] \notin Unfetchable)
<1>1. BridgeInv /\ ParseInv
        => \A r \in Requests : reply[r].status = 200 => ref[r] \notin Unfetchable
  BY AnswersTellFound DEF ParseInv
<1> QED
  BY <1>1, BridgeInvariant, ParseInvariant, PTL

-----------------------------------------------------------------------------
(* Files.  A handler with a call has a directory, and what is in it is what   *)
(* the download that it led itself has left there.                            *)

OnDisk(q) ==
  /\ call[q] # Nobody => q \in dirs
  /\ stored[q] # {} => outcome[q] = "file" /\ call[q] = q
  /\ q \in temps => outcome[q] = "error" /\ call[q] = q

DiskInv == \A q \in Requests : OnDisk(q)

(* DiskInv is inductive relative to the other invariants. *)
LEMMA DiskInvariant == Spec => []DiskInv
<1> USE RequestsAssumption
<1>1. Init => DiskInv
  BY DEF Init, DiskInv, OnDisk
<1>2. HandlerInv /\ FlightInv /\ ProgressInv /\ DiskInv /\ [Next]_vars => DiskInv'
  <2> SUFFICES ASSUME HandlerInv, FlightInv, ProgressInv, DiskInv, [Next]_vars,
                      NEW q \in Requests
               PROVE  OnDisk(q)'
    BY DEF DiskInv
  <2>0. OnDisk(q)
    BY DEF DiskInv
  <2> USE DEF HandlerInv, HandlerKnown, TypeOK, OnDisk, Goto, Finish, Respond
  <2>1. ASSUME UNCHANGED <<stored, temps, call, outcome>>, dirs \subseteq dirs'
        PROVE  OnDisk(q)'
    BY <2>0, <2>1
  <2>2. ASSUME NEW r \in Requests, Join(r) \/ Lead(r) PROVE OnDisk(q)'
    <3>1. /\ pc[r] = "do" /\ call[r] = Nobody /\ r \in dirs
          /\ UNCHANGED <<dirs, stored, temps, outcome>>
          /\ \E l \in Requests \cup {Nobody} : call' = [call EXCEPT ![r] = l]
      BY <2>2 DEF Join, Lead, ProgressInv
    <3>2. CASE q = r
      <4>1. stored[q] = {} /\ q \notin temps
        BY <2>0, <3>1, <3>2
      <4> QED
        BY <3>1, <3>2, <4>1
    <3>3. CASE q # r
      BY <2>0, <3>1, <3>3
    <3> QED
      BY <3>2, <3>3
  <2>3. ASSUME NEW r \in Requests, WriteFile(r) PROVE OnDisk(q)'
    <3>1. /\ pc[r] = "write" /\ call[r] = r /\ UNCHANGED <<call, dirs>>
          /\ outcome[r] = "pending" /\ r \in dirs
      BY <2>3 DEF WriteFile, FlightInv, LeadersRegistered, Leading, InDo, ProgressInv
    <3>2. CASE q = r
      <4>1. stored[r] = {} /\ r \notin temps
        BY <2>0, <3>1, <3>2
      <4> QED
        BY <2>3, <3>1, <3>2, <4>1 DEF WriteFile
    <3>3. CASE q # r
      <4>1. stored'[q] = stored[q] /\ outcome'[q] = outcome[q] /\ (q \in temps' <=> q \in temps)
        BY <2>3, <3>3 DEF WriteFile
      <4> QED
        BY <2>0, <3>1, <4>1
    <3> QED
      BY <3>2, <3>3
  <2>4. ASSUME NEW r \in Requests,
               CreateClient(r) \/ ParseRef(r) \/ ListTags(r) \/ PullImage(r)
        PROVE  OnDisk(q)'
    <3>1. /\ pc[r] \in {"client", "parse", "tags", "pull"}
          /\ UNCHANGED <<dirs, stored, temps, call>>
          /\ UNCHANGED outcome \/ \E o \in Outcomes : outcome' = [outcome EXCEPT ![r] = o]
      BY <2>4 DEF CreateClient, ParseRef, ListTags, PullImage, Outcomes
    <3>2. outcome[r] = "pending"
      BY <3>1 DEF ProgressInv, Leading
    <3>3. CASE q = r
      <4>1. stored[q] = {} /\ q \notin temps
        BY <2>0, <3>2, <3>3
      <4> QED
        BY <2>0, <3>1, <4>1
    <3>4. CASE q # r
      BY <2>0, <3>1, <3>4
    <3> QED
      BY <3>3, <3>4
  <2>5. ASSUME NEW r \in Requests,
               SetRegistryClient(r) \/ ReadGetterClient(r) \/ ReadListerClient(r)
                 \/ Settle(r) \/ Wake(r) \/ Return(r) \/ Recover(r) \/ SendFile(r)
                 \/ (\E f \in Refs \cup {NoRef} : Receive(r, f)) \/ Reject(r) \/ MakeTempDir(r)
        PROVE  UNCHANGED <<stored, temps, call, outcome>> /\ dirs \subseteq dirs'
    BY <2>5 DEF SetRegistryClient, ReadGetterClient, ReadListerClient, Settle, Wake, Return,
                Recover, SendFile, Receive, Reject, MakeTempDir
  <2>6. ASSUME NEW f \in Refs, Publish(f) \/ Withdraw(f)
        PROVE  UNCHANGED <<stored, temps, call, outcome, dirs>>
    BY <2>6 DEF Publish, Withdraw, handler
  <2>7. CASE UNCHANGED vars
    BY <2>1, <2>7 DEF vars
  <2> QED
    BY <2>1, <2>2, <2>3, <2>4, <2>5, <2>6, <2>7 DEF Next, ServerStep, RegistryStep, Quiescent
<1> QED
  BY <1>1, <1>2, HandlerInvariant, FlightInvariant, ProgressInvariant, PTL DEF Spec

(* However many requests join it, a download leaves one image, or at most a   *)
(* temporary file, in the directory of the handler that led it, and nothing   *)
(* in the directories of the others.                                          *)
THEOREM OneFilePerDownloadHolds == Spec => []OneFilePerDownload
<1>1. FreshInv /\ DiskInv => OneFilePerDownload
  <2> SUFFICES ASSUME FreshInv, DiskInv, NEW r \in Requests, outcome[r] = "file"
               PROVE  stored[r] # {}
    BY DEF OneFilePerDownload, DiskInv, OnDisk
  <2>1. stored[r] = {[ref |-> ref[r], rev |-> found[r]]}
    BY DEF FreshInv
  <2> QED
    BY <2>1, Zenon
<1> QED
  BY <1>1, FreshInvariant, DiskInvariant, PTL

-----------------------------------------------------------------------------
(* Liveness, from the fairness of FairSpec.  The prover has no rule for       *)
(* ENABLED, so where a handler can run is a hypothesis, []BlocksOnlyInWaits,   *)
(* an invariant that TLC checks; everything else is proved.                   *)

(* The control flow of a handler that has received a reference. *)
Edges ==
  {<<"received", "do">>, <<"received", "done">>, <<"do", "wait">>, <<"do", "client">>,
   <<"client", "parse">>, <<"client", "settle">>, <<"parse", "share">>, <<"parse", "settle">>,
   <<"share", "getter">>, <<"getter", "lister">>, <<"lister", "tags">>, <<"lister", "pull">>,
   <<"tags", "pull">>, <<"tags", "settle">>, <<"pull", "write">>, <<"pull", "settle">>,
   <<"write", "settle">>, <<"settle", "return">>, <<"wait", "return">>, <<"return", "panic">>,
   <<"return", "send">>, <<"return", "done">>, <<"panic", "done">>, <<"send", "done">>}

(* A handler's own step follows an edge. *)
LEMMA OwnStepAdvances ==
  ASSUME HandlerInv, NEW r \in Requests, ServerStep(r) \/ RegistryStep(r)
  PROVE  <<pc[r], pc'[r]>> \in Edges /\ ref' = ref
<1> USE DEF HandlerInv, TypeOK, Goto, Respond, Finish, Edges
<1>1. CASE Reject(r) \/ MakeTempDir(r)
  BY <1>1 DEF Reject, MakeTempDir
<1>2. CASE Join(r) \/ Lead(r) \/ Settle(r) \/ Wake(r)
  BY <1>2 DEF Join, Lead, Settle, Wake
<1>3. CASE CreateClient(r) \/ SetRegistryClient(r) \/ ReadGetterClient(r) \/ WriteFile(r)
  BY <1>3 DEF CreateClient, SetRegistryClient, ReadGetterClient, WriteFile
<1>4. CASE ParseRef(r)
  BY <1>4 DEF ParseRef
<1>5. CASE ReadListerClient(r)
  BY <1>5 DEF ReadListerClient
<1>6. CASE Return(r) \/ Recover(r) \/ SendFile(r)
  BY <1>6 DEF Return, Recover, SendFile
<1>7. CASE RegistryStep(r)
  BY <1>7 DEF RegistryStep, ListTags, PullImage
<1> QED
  BY <1>1, <1>2, <1>3, <1>4, <1>5, <1>6, <1>7 DEF ServerStep

(* Whoever takes a step, a handler stays where it is or follows an edge, and  *)
(* keeps its reference and the call it waits for.                             *)
LEMMA AnyStepAdvances ==
  ASSUME HandlerInv, [Next]_vars, NEW r \in Requests, pc[r] # "idle"
  PROVE  /\ pc'[r] = pc[r] \/ <<pc[r], pc'[r]>> \in Edges
         /\ ref'[r] = ref[r]
         /\ pc[r] = "wait" => call'[r] = call[r]
<1> USE DEF HandlerInv, TypeOK
<1>1. ASSUME NEW q \in Requests, NEW f \in Refs \cup {NoRef}, Receive(q, f)
      PROVE  pc'[r] = pc[r] /\ ref'[r] = ref[r] /\ call' = call
  BY <1>1 DEF Receive, Goto
<1>2. ASSUME NEW q \in Requests, ServerStep(q) \/ RegistryStep(q)
      PROVE  /\ q # r => pc'[r] = pc[r]
             /\ call' = call \/ (pc[q] = "do" /\ (q # r => call'[r] = call[r]))
  <2> USE DEF Goto, Respond, Finish
  <2>1. CASE Join(q) \/ Lead(q)
    BY <2>1 DEF Join, Lead
  <2>2. CASE Reject(q) \/ MakeTempDir(q) \/ Settle(q) \/ Wake(q) \/ CreateClient(q) \/ ParseRef(q)
    BY <2>2 DEF Reject, MakeTempDir, Settle, Wake, CreateClient, ParseRef
  <2>3. CASE SetRegistryClient(q) \/ ReadGetterClient(q) \/ ReadListerClient(q) \/ WriteFile(q)
    BY <2>3 DEF SetRegistryClient, ReadGetterClient, ReadListerClient, WriteFile
  <2>4. CASE Return(q) \/ Recover(q) \/ SendFile(q) \/ RegistryStep(q)
    BY <2>4 DEF Return, Recover, SendFile, RegistryStep, ListTags, PullImage
  <2> QED
    BY <1>2, <2>1, <2>2, <2>3, <2>4 DEF ServerStep
<1>3. ASSUME NEW q \in Requests, ServerStep(q) \/ RegistryStep(q)
      PROVE  /\ pc'[r] = pc[r] \/ <<pc[r], pc'[r]>> \in Edges
             /\ ref'[r] = ref[r]
             /\ pc[r] = "wait" => call'[r] = call[r]
  <2>1. <<pc[q], pc'[q]>> \in Edges /\ ref' = ref
    BY <1>3, OwnStepAdvances
  <2> QED
    BY <1>2, <1>3, <2>1
<1>4. CASE \E f \in Refs : Publish(f) \/ Withdraw(f)
  BY <1>4 DEF Publish, Withdraw, handler
<1>5. CASE UNCHANGED vars
  BY <1>5 DEF vars
<1> QED
  BY <1>1, <1>3, <1>4, <1>5 DEF Next, Quiescent

(* A handler at a place of the code, for a registry that answers. *)
At(r, s) == pc[r] = s /\ ref[r] \notin Hung
Past(r, s) == <<s, pc[r]>> \in Edges /\ ref[r] \notin Hung
Leaves(r, s) == At(r, s) ~> Past(r, s)

(* The places where the handler waits for nobody. *)
Runnable == States \ {"idle", "wait", "done"}

(* A handler that waits for nobody leaves the place it is at. *)
LEMMA Advances ==
  ASSUME NEW r \in Requests, NEW s \in Runnable
  PROVE  FairSpec /\ []BlocksOnlyInWaits => Leaves(r, s)
<1>1. HandlerInv /\ At(r, s) /\ [Next]_vars => (At(r, s) \/ Past(r, s))'
  BY AnyStepAdvances DEF At, Past, Runnable
<1>2. HandlerInv /\ At(r, s) /\ <<ServerStep(r)>>_vars => Past(r, s)'
  BY OwnStepAdvances DEF At, Past
<1>3. HandlerInv /\ At(r, s) /\ <<RegistryStep(r) /\ ref[r] \notin Hung>>_vars => Past(r, s)'
  BY OwnStepAdvances DEF At, Past
<1>4. BlocksOnlyInWaits => CanRun(r)
  BY DEF BlocksOnlyInWaits
<1>5. FairSpec => Spec /\ FairHandler(r)
  BY DEF FairSpec
<1>6. CASE s \in {"tags", "pull"}
  <2>1. CanRun(r) /\ At(r, s) => ENABLED <<RegistryStep(r) /\ ref[r] \notin Hung>>_vars
    BY <1>6 DEF CanRun, At
  <2> QED
    BY <1>1, <1>3, <1>4, <1>5, <2>1, HandlerInvariant, PTL DEF Spec, FairHandler, Leaves
<1>7. CASE s \notin {"tags", "pull"}
  <2>1. CanRun(r) /\ At(r, s) => ENABLED <<ServerStep(r)>>_vars
    BY <1>7 DEF CanRun, At, Runnable, States
  <2> QED
    BY <1>1, <1>2, <1>4, <1>5, <2>1, HandlerInvariant, PTL DEF Spec, FairHandler, Leaves
<1> QED
  BY <1>6, <1>7

(* Settled leads to an answer. *)
LEMMA ReturnAnswers ==
  ASSUME NEW r \in Requests
  PROVE  FairSpec /\ []BlocksOnlyInWaits => (At(r, "return") ~> At(r, "done"))
<1>1. FairSpec /\ []BlocksOnlyInWaits =>
        Leaves(r, "return") /\ Leaves(r, "panic") /\ Leaves(r, "send")
  BY Advances DEF Runnable, States, Returned
<1>2. /\ Past(r, "return") => At(r, "panic") \/ At(r, "send") \/ At(r, "done")
      /\ Past(r, "panic") => At(r, "done")
      /\ Past(r, "send") => At(r, "done")
  BY DEF Past, At, Edges
<1> QED
  BY <1>1, <1>2, PTL DEF Leaves

(* A leader whose registry answers settles its flight and returns. *)
LeadingAt(r) == pc[r] \in Leading /\ ref[r] \notin Hung
LeaderEnds(r) == LeadingAt(r) ~> At(r, "return")

LEMMA LeaderReturns ==
  ASSUME NEW r \in Requests
  PROVE  FairSpec /\ []BlocksOnlyInWaits => LeaderEnds(r)
<1>1. FairSpec /\ []BlocksOnlyInWaits =>
        /\ Leaves(r, "client") /\ Leaves(r, "parse") /\ Leaves(r, "share")
        /\ Leaves(r, "getter") /\ Leaves(r, "lister") /\ Leaves(r, "tags")
        /\ Leaves(r, "pull") /\ Leaves(r, "write") /\ Leaves(r, "settle")
  BY Advances DEF Runnable, States, Leading
<1>2. /\ Past(r, "client") => At(r, "parse") \/ At(r, "settle")
      /\ Past(r, "parse") => At(r, "share") \/ At(r, "settle")
      /\ Past(r, "share") => At(r, "getter")
      /\ Past(r, "getter") => At(r, "lister")
      /\ Past(r, "lister") => At(r, "tags") \/ At(r, "pull")
      /\ Past(r, "tags") => At(r, "pull") \/ At(r, "settle")
      /\ Past(r, "pull") => At(r, "write") \/ At(r, "settle")
      /\ Past(r, "write") => At(r, "settle")
      /\ Past(r, "settle") => At(r, "return")
  BY DEF Past, At, Edges
<1>3. LeadingAt(r) =>
        \/ At(r, "client") \/ At(r, "parse") \/ At(r, "share") \/ At(r, "getter")
        \/ At(r, "lister") \/ At(r, "tags") \/ At(r, "pull") \/ At(r, "write")
        \/ At(r, "settle")
  BY DEF LeadingAt, Leading, At
<1> QED
  BY <1>1, <1>2, <1>3, PTL DEF Leaves, LeaderEnds

(* A follower of l, whose registry answers. *)
Follows(r, l) == pc[r] = "wait" /\ call[r] = l /\ ref[r] \notin Hung
Woken(r, l) == Follows(r, l) => <>At(r, "return")

(* A follower wakes once its leader has settled, and it does settle: the two  *)
(* have the same reference, so the same registry. *)
LEMMA FollowerOfReturns ==
  ASSUME NEW r \in Requests, NEW l \in Requests
  PROVE  FairSpec /\ []BlocksOnlyInWaits => []Woken(r, l)
<1> DEFINE Free == Follows(r, l) /\ Settled(l)
<1>1. HandlerInv /\ Follows(r, l) /\ [Next]_vars => (Follows(r, l) \/ At(r, "return"))'
  BY AnyStepAdvances DEF Follows, At, Edges
<1>2. HandlerInv /\ WaitersHaveALeader /\ Follows(r, l) => LeadingAt(l) \/ Free
  BY DEF WaitersHaveALeader, Follows, LeadingAt
<1>3. HandlerInv /\ Free /\ [Next]_vars => (Free \/ At(r, "return"))'
  <2>1. HandlerInv /\ Settled(l) /\ [Next]_vars => Settled(l)'
    <3> SUFFICES ASSUME HandlerInv, Settled(l), [Next]_vars PROVE Settled(l)'
      OBVIOUS
    <3>1. pc[l] # "idle" /\ (pc'[l] = pc[l] \/ <<pc[l], pc'[l]>> \in Edges)
      BY AnyStepAdvances DEF Settled, Returned
    <3> QED
      BY <3>1 DEF Settled, Returned, Edges
  <2> QED
    BY <1>1, <2>1
<1>4. HandlerInv /\ Free /\ <<ServerStep(r)>>_vars => At(r, "return")'
  BY OwnStepAdvances DEF Follows, At, Edges
<1>5. BlocksOnlyInWaits /\ Free => ENABLED <<ServerStep(r)>>_vars
  <2>1. BlocksOnlyInWaits => CanRun(r)
    BY DEF BlocksOnlyInWaits
  <2>2. CanRun(r) /\ Free => ENABLED <<ServerStep(r)>>_vars
    BY DEF CanRun, Follows
  <2> QED
    BY <2>1, <2>2
<1>6. FairSpec => Spec /\ FairHandler(r)
  BY DEF FairSpec
<1>7. At(l, "return") => Settled(l)
  BY DEF At, Settled, Returned
<1>8. FairSpec /\ []BlocksOnlyInWaits => LeaderEnds(l)
  BY LeaderReturns
<1> QED
  BY <1>1, <1>2, <1>3, <1>4, <1>5, <1>6, <1>7, <1>8, HandlerInvariant,
     WaitersHaveALeaderHolds, PTL DEF Spec, FairHandler, Woken, LeaderEnds

(* Whichever leader it follows. *)
LEMMA FollowerReturns ==
  ASSUME NEW r \in Requests
  PROVE  FairSpec /\ []BlocksOnlyInWaits => (At(r, "wait") ~> At(r, "return"))
<1>1. FairSpec /\ []BlocksOnlyInWaits => \A l \in Requests : []Woken(r, l)
  BY FollowerOfReturns
<1>2. (\A l \in Requests : []Woken(r, l)) => [](\A l \in Requests : Woken(r, l))
  OBVIOUS
<1>3. WaitersHaveALeader /\ At(r, "wait") => \E l \in Requests : Follows(r, l)
  BY DEF WaitersHaveALeader, At, Follows
<1>4. (\A l \in Requests : Woken(r, l)) /\ (\E l \in Requests : Follows(r, l))
        => <>At(r, "return")
  BY DEF Woken
<1>5. FairSpec => Spec
  BY DEF FairSpec
<1> QED
  BY <1>1, <1>2, <1>3, <1>4, <1>5, WaitersHaveALeaderHolds, PTL

(* Every request whose registry answers is answered, whoever leads its        *)
(* download and whatever else hangs (bridge.go:16-57).                        *)
THEOREM AnsweredHolds == FairSpec /\ []BlocksOnlyInWaits => Answered
<1>1. ASSUME NEW r \in Requests
      PROVE  FairSpec /\ []BlocksOnlyInWaits => (At(r, "received") ~> At(r, "done"))
  <2>1. FairSpec /\ []BlocksOnlyInWaits => Leaves(r, "received") /\ Leaves(r, "do")
    BY Advances DEF Runnable, States
  <2>2. /\ Past(r, "received") => At(r, "do") \/ At(r, "done")
        /\ Past(r, "do") => At(r, "wait") \/ LeadingAt(r)
    BY DEF Past, At, LeadingAt, Leading, Edges
  <2>3. FairSpec /\ []BlocksOnlyInWaits => LeaderEnds(r)
    BY LeaderReturns
  <2>4. FairSpec /\ []BlocksOnlyInWaits => (At(r, "wait") ~> At(r, "return"))
    BY FollowerReturns
  <2>5. FairSpec /\ []BlocksOnlyInWaits => (At(r, "return") ~> At(r, "done"))
    BY ReturnAnswers
  <2> QED
    BY <2>1, <2>2, <2>3, <2>4, <2>5, PTL DEF Leaves, LeaderEnds
<1>2. ASSUME NEW r \in Requests
      PROVE  FairSpec /\ []BlocksOnlyInWaits =>
               (pc[r] = "received" /\ ref[r] \notin Hung ~> pc[r] = "done")
  <2>1. /\ pc[r] = "received" /\ ref[r] \notin Hung => At(r, "received")
        /\ At(r, "done") => pc[r] = "done"
    BY DEF At
  <2> QED
    BY <1>1, <2>1, PTL
<1> QED
  BY <1>2 DEF Answered

-----------------------------------------------------------------------------
(* Monotonic reads, over the control flow of a handler. *)

(* Answered with revision v of reference f, and with none older than v. *)
Served(r, f, v) == reply[r].status = 200 /\ ref[r] = f /\ \E c \in reply[r].body : c.rev = v
NoneOlder(s, f, v) == \A w \in Nat : Served(s, f, w) => v <= w

(* A request that had not arrived when v was served shares no flight that     *)
(* began before the registry held v. *)
SharesLater(s, f, v) == ref[s] = f /\ call[s] # Nobody => v <= opened[call[s]]

(* An answer is final. *)
LEMMA AnswersAreFinal ==
  ASSUME BridgeInv, [Next]_vars, NEW r \in Requests, pc[r] = "done"
  PROVE  reply'[r] = reply[r] /\ ref'[r] = ref[r] /\ pc'[r] = "done"
<1> USE DEF BridgeInv, HandlerInv, TypeOK, Goto, Respond, Finish
<1>1. ASSUME NEW q \in Requests, NEW f \in Refs \cup {NoRef}, Receive(q, f)
      PROVE  reply'[r] = reply[r]
  BY <1>1 DEF Receive
<1>2. ASSUME NEW q \in Requests, ServerStep(q) \/ RegistryStep(q)
      PROVE  reply'[r] = reply[r]
  <2>1. CASE Reject(q) \/ MakeTempDir(q) \/ Return(q) \/ Recover(q) \/ SendFile(q)
    BY <2>1 DEF Reject, MakeTempDir, Return, Recover, SendFile
  <2>2. CASE Join(q) \/ Lead(q) \/ Settle(q) \/ Wake(q) \/ CreateClient(q) \/ ParseRef(q)
    BY <2>2 DEF Join, Lead, Settle, Wake, CreateClient, ParseRef
  <2>3. CASE SetRegistryClient(q) \/ ReadGetterClient(q) \/ ReadListerClient(q) \/ WriteFile(q)
    BY <2>3 DEF SetRegistryClient, ReadGetterClient, ReadListerClient, WriteFile
  <2>4. CASE RegistryStep(q)
    BY <2>4 DEF RegistryStep, ListTags, PullImage
  <2> QED
    BY <1>2, <2>1, <2>2, <2>3, <2>4 DEF ServerStep
<1>3. CASE \E f \in Refs : Publish(f) \/ Withdraw(f)
  BY <1>3 DEF Publish, Withdraw, handler
<1>4. CASE UNCHANGED vars
  BY <1>4 DEF vars
<1>5. reply'[r] = reply[r]
  BY <1>1, <1>2, <1>3, <1>4 DEF Next, Quiescent
<1> QED
  BY <1>5, AnyStepAdvances DEF Edges

(* A step leaves the calls and the beginnings of the flights alone, or is     *)
(* taken by a handler that gets its call from Do. *)
LEMMA OnlyDoCalls ==
  ASSUME BridgeInv, [Next]_vars
  PROVE  UNCHANGED <<call, opened>> \/ \E r \in Requests : Join(r) \/ Lead(r)
<1>1. ASSUME NEW q \in Requests, NEW f \in Refs \cup {NoRef}, Receive(q, f)
      PROVE  UNCHANGED <<call, opened>>
  BY <1>1 DEF Receive
<1>2. ASSUME NEW q \in Requests, ServerStep(q) \/ RegistryStep(q), ~(Join(q) \/ Lead(q))
      PROVE  UNCHANGED <<call, opened>>
  BY <1>2 DEF ServerStep, RegistryStep, Reject, MakeTempDir, Settle, Wake, CreateClient, ParseRef,
     SetRegistryClient, ReadGetterClient, ReadListerClient, WriteFile, Return, Recover,
     SendFile, ListTags, PullImage
<1>3. CASE \E f \in Refs : Publish(f) \/ Withdraw(f)
  BY <1>3 DEF Publish, Withdraw, handler
<1>4. CASE UNCHANGED vars
  BY <1>4 DEF vars
<1> QED
  BY <1>1, <1>2, <1>3, <1>4 DEF Next, Quiescent

(* What a served revision says of a later request stays true.                 *)
LEMMA SharesLaterKept ==
  ASSUME BridgeInv, NeverBackwards, [Next]_vars, NEW r \in Requests, NEW s \in Requests,
         NEW f \in Refs, NEW v \in Nat, Served(r, f, v), SharesLater(s, f, v)
  PROVE  SharesLater(s, f, v)'
<1> USE DEF BridgeInv, HandlerInv, HandlerKnown, TypeOK
<1>1. pc[r] = "done"
  BY AnswersTellFound DEF Served
<1> SUFFICES ASSUME ref'[s] = f, call'[s] # Nobody PROVE v <= opened'[call'[s]]
  BY DEF SharesLater
<1>2. CASE UNCHANGED <<call, opened>>
  <2>1. pc[s] \notin {"idle", "received", "do"}
    BY <1>2 DEF ProgressInv
  <2>2. ref'[s] = ref[s]
    BY <2>1, AnyStepAdvances
  <2> QED
    BY <1>2, <2>2 DEF SharesLater
<1>3. ASSUME NEW q \in Requests, Join(q) PROVE v <= opened'[call'[s]]
  <2>1. /\ pc[q] = "do" /\ UNCHANGED <<ref, opened>> /\ flight[ref[q]] # Nobody
        /\ call' = [call EXCEPT ![q] = flight[ref[q]]]
    BY <1>3 DEF Join, Goto
  <2>2. CASE s = q
    <3> DEFINE l == flight[f]
    <3>1. call'[s] = l /\ l \in Requests /\ pc[l] \in Leading /\ ref[l] = f
      BY <2>1, <2>2 DEF FlightInv, FlightsLed
    <3>2. v <= opened[l]
      BY <3>1 DEF NeverBackwards, Served
    <3> QED
      BY <2>1, <3>1, <3>2
  <2>3. CASE s # q
    BY <2>1, <2>3 DEF SharesLater
  <2> QED
    BY <2>2, <2>3
<1>4. ASSUME NEW q \in Requests, Lead(q) PROVE v <= opened'[call'[s]]
  <2>1. /\ pc[q] = "do" /\ UNCHANGED ref
        /\ call' = [call EXCEPT ![q] = q]
        /\ opened' = [opened EXCEPT ![q] = revision[ref[q]]]
    BY <1>4 DEF Lead, Goto
  <2>2. CASE s = q
    <3>1. opened'[call'[s]] = revision[f]
      BY <2>1, <2>2
    <3>2. v <= revision[f]
      BY AnswersTellFound DEF Served, Fresh
    <3> QED
      BY <3>1, <3>2
  <2>3. CASE s # q
    <3>1. call'[s] = call[s]
      BY <2>1, <2>3
    <3>2. call[s] \in Requests /\ call[s] # q
      BY <2>1, <3>1, CallsAreLed DEF Leading, Settled, Returned
    <3> QED
      BY <2>1, <3>1, <3>2 DEF SharesLater
  <2> QED
    BY <2>2, <2>3
<1> QED
  BY <1>2, <1>3, <1>4, OnlyDoCalls

(* Reads never step back: once a revision of a reference has been served, no  *)
(* request for it that arrives afterwards is answered with an older one, joined*)
(* flights, followers that are slow to wake and later publications included   *)
(* (routes..go:18-57, bridge.go:16-50). *)
THEOREM MonotonicAnswers ==
  ASSUME NEW r \in Requests, NEW s \in Requests, NEW f \in Refs, NEW v \in Nat
  PROVE  Spec => [](Served(r, f, v) /\ pc[s] = "idle" => []NoneOlder(s, f, v))
<1> DEFINE Held == Served(r, f, v) /\ SharesLater(s, f, v)
<1>1. BridgeInv /\ Served(r, f, v) /\ pc[s] = "idle" => Held
  BY DEF BridgeInv, ProgressInv, SharesLater
<1>2. BridgeInv /\ NeverBackwards /\ Held /\ [Next]_vars => Held'
  <2> SUFFICES ASSUME BridgeInv, NeverBackwards, Held, [Next]_vars PROVE Held'
    OBVIOUS
  <2>1. SharesLater(s, f, v)'
    BY SharesLaterKept
  <2>2. pc[r] = "done"
    BY AnswersTellFound DEF Served
  <2>3. reply'[r] = reply[r] /\ ref'[r] = ref[r]
    BY <2>2, AnswersAreFinal
  <2> QED
    BY <2>1, <2>3 DEF Served
<1>3. BridgeInv /\ Held => NoneOlder(s, f, v)
  <2> SUFFICES ASSUME BridgeInv, Held, NEW w \in Nat, Served(s, f, w) PROVE v <= w
    BY DEF NoneOlder
  <2>1. /\ call[s] \in Requests /\ Fresh(call[s])
        /\ reply[s].body = {[ref |-> ref[s], rev |-> found[call[s]]]}
    BY AnswersTellFound DEF Served
  <2>2. w = found[call[s]]
    BY <2>1 DEF Served
  <2>3. v <= opened[call[s]]
    BY <2>1, RequestsAssumption DEF SharesLater, Served
  <2> QED
    BY <2>1, <2>2, <2>3 DEF Fresh, BridgeInv, HandlerInv, TypeOK
<1> HIDE DEF Held
<1> QED
  BY <1>1, <1>2, <1>3, BridgeInvariant, NeverBackwardsHolds, PTL DEF Spec
=============================================================================
