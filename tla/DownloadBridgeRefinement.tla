---------------------- MODULE DownloadBridgeRefinement ----------------------
(* DownloadBridge implements SharedAnswer for any number of requests and      *)
(* references: every step of a handler, of the singleflight group, of the     *)
(* download or of the registry is a step of the promise, or changes nothing   *)
(* that the promise speaks of.                                                *)
EXTENDS DownloadBridgeProofs

(* The groups of variables, in every proof of this module. *)
USE DEF disk, calls, clients, registry, handler

-----------------------------------------------------------------------------
(* The phase of the promise that each state of a handler belongs to. *)
LEMMA PhaseFacts ==
  /\ Phase("idle") = "idle" /\ Phase("done") = "answered"
  /\ Phase("received") = "asked" /\ Phase("do") = "asked"
  /\ \A s \in {"wait"} \cup Leading \cup Returned : Phase(s) = "joined"
BY DEF Phase, Leading, Returned

(* A step of one handler that keeps every flight's result keeps the verdicts:  *)
(* it either changes no settled handler, or settles one that nobody called.   *)
LEMMA VerdictsKept ==
  ASSUME BridgeInv, NEW r \in Requests, NEW from, NEW to, Goto(r, from, to), UNCHANGED call,
         \A q \in Requests \ {r} : outcome'[q] = outcome[q] /\ stored'[q] = stored[q],
         \/ from \in {"idle", "received", "do", "wait"}
         \/ ~Settled(r) /\ ~(Settled(r)')
         \/ Settled(r) /\ Settled(r)' /\ UNCHANGED <<outcome, stored>>
  PROVE  \A q \in Requests : Verdict(q)' = Verdict(q)
<1> SUFFICES ASSUME NEW q \in Requests PROVE Verdict(q)' = Verdict(q)
  OBVIOUS
<1>0. pc \in [Requests -> States]
  BY DEF BridgeInv, HandlerInv, TypeOK
<1>1. CASE call[q] = Nobody
  BY <1>1 DEF Verdict
<1>2. CASE call[q] # Nobody /\ call[q] # r
  <2>1. call[q] \in Requests
    BY <1>2, CallsAreLed
  <2>2. pc'[call[q]] = pc[call[q]]
    BY <1>0, <1>2, <2>1 DEF Goto
  <2>3. outcome'[call[q]] = outcome[call[q]] /\ stored'[call[q]] = stored[call[q]]
    BY <1>2, <2>1
  <2> QED
    BY <2>2, <2>3 DEF Verdict, Settled
<1>3. CASE call[q] = r
  <2>1. pc[r] \in Leading \/ Settled(r)
    BY <1>3, CallsAreLed, RequestsAssumption
  <2>2. pc[r] \notin {"idle", "received", "do", "wait"}
    BY <2>1 DEF Leading, Settled, Returned
  <2>3. from = pc[r]
    BY DEF Goto
  <2>4. CASE ~Settled(r) /\ ~(Settled(r)')
    BY <1>3, <2>4 DEF Verdict, Settled
  <2>5. CASE Settled(r) /\ Settled(r)' /\ UNCHANGED <<outcome, stored>>
    BY <1>3, <2>5 DEF Verdict, Settled
  <2> QED
    BY <2>2, <2>3, <2>4, <2>5
<1> QED
  BY <1>1, <1>2, <1>3

(* What a handler does between two phases of the promise changes nothing that *)
(* the promise speaks of.                                                     *)
LEMMA QuietStep ==
  ASSUME BridgeInv, NEW r \in Requests, NEW from, NEW to, Goto(r, from, to),
         Phase(from) = Phase(to),
         UNCHANGED <<ref, flight, call, reply, revision, opened>>,
         \A q \in Requests : Verdict(q)' = Verdict(q)
  PROVE  UNCHANGED Promise!vars
<1>1. pc \in [Requests -> States]
  BY DEF BridgeInv, HandlerInv, TypeOK
<1>2. [q \in Requests |-> Phase(pc[q])]' = [q \in Requests |-> Phase(pc[q])]
  BY <1>1 DEF Goto
<1>3. [q \in Requests |-> Verdict(q)]' = [q \in Requests |-> Verdict(q)]
  OBVIOUS
<1> QED
  BY <1>2, <1>3 DEF Promise!vars

(* A handler that answers without a call refuses its request. *)
LEMMA RefusalRefuses ==
  ASSUME BridgeInv, NEW r \in Requests, NEW status, Respond(r, "received", status, {}),
         UNCHANGED <<ref, stored, flight, call, outcome, revision, opened>>
  PROVE  Promise!Refuse(r)
<1>1. /\ pc \in [Requests -> States]
      /\ reply \in [Requests -> [status : Statuses, body : SUBSET Contents]]
  BY DEF BridgeInv, HandlerInv, TypeOK
<1>2. Goto(r, "received", "done")
  BY DEF Respond
<1>3. [q \in Requests |-> Verdict(q)]' = [q \in Requests |-> Verdict(q)]
  BY <1>2, VerdictsKept
<1>4. reply[r].body = {}
  BY <1>2 DEF Goto, BridgeInv, ProgressInv, NoReply
<1>5. [q \in Requests |-> reply[q].body]' = [q \in Requests |-> reply[q].body]
  <2> SUFFICES ASSUME NEW q \in Requests PROVE reply'[q].body = reply[q].body
    OBVIOUS
  <2>1. reply'[q] = IF q = r THEN [status |-> status, body |-> {}] ELSE reply[q]
    BY <1>1 DEF Respond
  <2> QED
    BY <1>4, <2>1
<1>6. [q \in Requests |-> Phase(pc[q])]'
        = [[q \in Requests |-> Phase(pc[q])] EXCEPT ![r] = "answered"]
  BY <1>1, <1>2, PhaseFacts DEF Goto
<1>7. Phase(pc[r]) = "asked"
  BY <1>2, PhaseFacts DEF Goto
<1> QED
  BY <1>3, <1>5, <1>6, <1>7 DEF Promise!Refuse

(* A handler that answers after Do delivers the verdict of its call, or fails. *)
LEMMA ResponseDelivers ==
  ASSUME BridgeInv, NEW r \in Requests, NEW from \in Returned, NEW status,
         NEW body \in {Verdict(r).body, {}}, Respond(r, from, status, body),
         UNCHANGED <<ref, stored, flight, call, outcome, revision, opened>>
  PROVE  Promise!Deliver(r)
<1>1. /\ pc \in [Requests -> States]
      /\ reply \in [Requests -> [status : Statuses, body : SUBSET Contents]]
  BY DEF BridgeInv, HandlerInv, TypeOK
<1>2. Goto(r, from, "done")
  BY DEF Respond
<1>3. [q \in Requests |-> Verdict(q)]' = [q \in Requests |-> Verdict(q)]
  <2>1. Settled(r) /\ Settled(r)'
    BY <1>1, <1>2 DEF Goto, Settled
  <2> QED
    BY <1>2, <2>1, VerdictsKept
<1>4. Verdict(r).known
  <2>1. call[r] # Nobody
    BY <1>2, RequestsAssumption DEF Goto, BridgeInv, HandlerInv, HandlerKnown, InDo
  <2>2. Settled(call[r])
    BY <1>2, <2>1 DEF Goto, BridgeInv, SettledInv
  <2> QED
    BY <2>1, <2>2 DEF Verdict
<1>5. [q \in Requests |-> reply[q].body]'
        = [[q \in Requests |-> reply[q].body] EXCEPT ![r] = body]
  <2> SUFFICES ASSUME NEW q \in Requests
               PROVE  reply'[q].body = IF q = r THEN body ELSE reply[q].body
    OBVIOUS
  <2>1. reply'[q] = IF q = r THEN [status |-> status, body |-> body] ELSE reply[q]
    BY <1>1 DEF Respond
  <2> QED
    BY <2>1
<1>6. [q \in Requests |-> Phase(pc[q])]'
        = [[q \in Requests |-> Phase(pc[q])] EXCEPT ![r] = "answered"]
  BY <1>1, <1>2, PhaseFacts DEF Goto
<1>7. Phase(pc[r]) = "joined"
  BY <1>2, PhaseFacts DEF Goto
<1> QED
  BY <1>3, <1>4, <1>5, <1>6, <1>7 DEF Promise!Deliver

-----------------------------------------------------------------------------
(* singleflight: the first caller opens a fetch, the next ones join it, and   *)
(* the deletion of the key closes it for all of them at once.                 *)

Members(f) == {q \in Requests : flight[f] # Nobody /\ call[q] = flight[f]}
Floor(f) == IF flight[f] = Nobody THEN 0 ELSE opened[flight[f]]

(* A caller of Do that finds a call joins the fetch the leader opened. *)
LEMMA FollowerJoins ==
  ASSUME BridgeInv, NEW r \in Requests, Join(r)
  PROVE  Promise!Join(r)
<1> DEFINE leader == flight[ref[r]]
<1>1. /\ pc \in [Requests -> States] /\ call \in [Requests -> Requests \cup {Nobody}]
      /\ flight \in [Refs -> Requests \cup {Nobody}]
  BY DEF BridgeInv, HandlerInv, TypeOK
<1>2. /\ Goto(r, "do", "wait") /\ call' = [call EXCEPT ![r] = leader] /\ leader # Nobody
      /\ UNCHANGED <<ref, flight, stored, outcome, opened, reply, revision>>
  BY DEF Join
<1>3. pc[r] = "do" /\ ref[r] \in Refs /\ call[r] = Nobody
  BY <1>2 DEF Goto, BridgeInv, HandlerInv, HandlerKnown, ProgressInv
<1>4. leader \in Requests /\ pc[leader] \in Leading /\ call[leader] = leader
  BY <1>1, <1>2, <1>3 DEF BridgeInv, FlightInv, FlightsLed, LeadersRegistered
<1>5. leader \in Members(ref[r])
  BY <1>2, <1>4 DEF Members
<1>6. [f \in Refs |-> Members(f)]'
        = [[f \in Refs |-> Members(f)] EXCEPT ![ref[r]] = @ \cup {r}]
  <2> SUFFICES ASSUME NEW f \in Refs
               PROVE  Members(f)' = IF f = ref[r] THEN Members(f) \cup {r} ELSE Members(f)
    BY <1>3
  <2>1. CASE f = ref[r]
    BY <1>1, <1>2, <2>1 DEF Members
  <2>2. CASE f # ref[r]
    <3>1. flight[f] # Nobody => flight[f] # leader
      BY <1>2, <1>3, <2>2 DEF BridgeInv, FlightInv, FlightsLed
    <3> QED
      BY <1>1, <1>2, <1>3, <2>2, <3>1 DEF Members
  <2> QED
    BY <2>1, <2>2
<1>7. [q \in Requests |-> Verdict(q)]' = [q \in Requests |-> Verdict(q)]
  <2> SUFFICES ASSUME NEW q \in Requests PROVE Verdict(q)' = Verdict(q)
    OBVIOUS
  <2>1. CASE q = r
    <3>1. pc'[leader] = pc[leader]
      BY <1>1, <1>2, <1>3, <1>4 DEF Goto, Leading
    <3>2. call'[r] = leader /\ pc'[leader] \notin Returned \cup {"done"}
      BY <1>1, <1>2, <1>4, <3>1 DEF Leading, Returned
    <3> HIDE DEF leader
    <3> QED
      BY <1>3, <2>1, <3>2 DEF Verdict, Settled
  <2>2. CASE q # r
    <3>1. call'[q] = call[q]
      BY <1>1, <1>2, <2>2
    <3>2. CASE call[q] = Nobody
      BY <3>1, <3>2 DEF Verdict
    <3>3. CASE call[q] # Nobody
      <4>1. call[q] \in Requests /\ call[q] # r
        BY <1>3, <3>3, CallsAreLed DEF Leading, Settled, Returned
      <4>2. pc'[call[q]] = pc[call[q]]
        BY <1>1, <1>2, <4>1 DEF Goto
      <4> QED
        BY <1>2, <3>1, <4>2 DEF Verdict, Settled
    <3> QED
      BY <3>2, <3>3
  <2> QED
    BY <2>1, <2>2
<1>8. [q \in Requests |-> Phase(pc[q])]'
        = [[q \in Requests |-> Phase(pc[q])] EXCEPT ![r] = "joined"]
  BY <1>1, <1>2, PhaseFacts DEF Goto
<1>9. Phase(pc[r]) = "asked"
  BY <1>3, PhaseFacts
<1>10. [f \in Refs |-> Floor(f)]' = [f \in Refs |-> Floor(f)]
  BY <1>2 DEF Floor
<1> QED
  BY <1>2, <1>3, <1>5, <1>6, <1>7, <1>8, <1>9, <1>10 DEF Promise!Join, Members, Floor

(* A caller of Do that finds no call opens a fetch, at the newest revision. *)
LEMMA LeaderJoins ==
  ASSUME BridgeInv, NEW r \in Requests, Lead(r)
  PROVE  Promise!Join(r)
<1>1. /\ pc \in [Requests -> States] /\ call \in [Requests -> Requests \cup {Nobody}]
      /\ flight \in [Refs -> Requests \cup {Nobody}] /\ opened \in [Requests -> Nat]
  BY DEF BridgeInv, HandlerInv, TypeOK
<1>2. /\ Goto(r, "do", "client") /\ call' = [call EXCEPT ![r] = r]
      /\ flight[ref[r]] = Nobody /\ flight' = [flight EXCEPT ![ref[r]] = r]
      /\ opened' = [opened EXCEPT ![r] = revision[ref[r]]]
      /\ UNCHANGED <<ref, stored, outcome, reply, revision>>
  BY DEF Lead
<1>3. pc[r] = "do" /\ ref[r] \in Refs /\ call[r] = Nobody
  BY <1>2 DEF Goto, BridgeInv, HandlerInv, HandlerKnown, ProgressInv
<1>4. \A q \in Requests : call[q] # r
  <2> SUFFICES ASSUME NEW q \in Requests, call[q] = r PROVE FALSE
    OBVIOUS
  <2>1. pc[r] \in Leading \/ Settled(r)
    BY CallsAreLed, RequestsAssumption
  <2> QED
    BY <1>3, <2>1 DEF Leading, Settled, Returned
<1>5. \A f \in Refs : flight[f] # r
  BY <1>3, RequestsAssumption DEF BridgeInv, FlightInv, FlightsLed, Leading
<1>6. Members(ref[r]) = {}
  BY <1>2 DEF Members
<1>7. [f \in Refs |-> Members(f)]'
        = [[f \in Refs |-> Members(f)] EXCEPT ![ref[r]] = @ \cup {r}]
  <2> SUFFICES ASSUME NEW f \in Refs
               PROVE  Members(f)' = IF f = ref[r] THEN Members(f) \cup {r} ELSE Members(f)
    BY <1>3
  <2>1. CASE f = ref[r]
    <3>1. Members(f)' = {r}
      BY <1>1, <1>2, <1>4, <2>1, RequestsAssumption DEF Members
    <3> QED
      BY <1>6, <2>1, <3>1
  <2>2. CASE f # ref[r]
    BY <1>1, <1>2, <1>3, <1>5, <2>2, RequestsAssumption DEF Members
  <2> QED
    BY <2>1, <2>2
<1>8. [f \in Refs |-> Floor(f)]'
        = [[f \in Refs |-> Floor(f)] EXCEPT ![ref[r]] = revision[ref[r]]]
  <2> SUFFICES ASSUME NEW f \in Refs
               PROVE  Floor(f)' = IF f = ref[r] THEN revision[ref[r]] ELSE Floor(f)
    BY <1>3
  <2>1. CASE f = ref[r]
    BY <1>1, <1>2, <2>1, RequestsAssumption DEF Floor
  <2>2. CASE f # ref[r]
    BY <1>1, <1>2, <1>5, <2>2 DEF Floor
  <2> QED
    BY <2>1, <2>2
<1>9. [q \in Requests |-> Verdict(q)]' = [q \in Requests |-> Verdict(q)]
  <2> SUFFICES ASSUME NEW q \in Requests PROVE Verdict(q)' = Verdict(q)
    OBVIOUS
  <2>1. CASE q = r
    <3>1. pc'[r] = "client" /\ call'[r] = r
      BY <1>1, <1>2 DEF Goto
    <3> QED
      BY <1>3, <2>1, <3>1 DEF Verdict, Settled, Returned
  <2>2. CASE q # r
    <3>1. call'[q] = call[q] /\ call[q] # r
      BY <1>1, <1>2, <1>4, <2>2
    <3>2. CASE call[q] = Nobody
      BY <3>1, <3>2 DEF Verdict
    <3>3. CASE call[q] # Nobody
      <4>1. pc'[call[q]] = pc[call[q]]
        BY <1>1, <1>2, <3>1, <3>3 DEF Goto
      <4> QED
        BY <1>2, <3>1, <4>1 DEF Verdict, Settled
    <3> QED
      BY <3>2, <3>3
  <2> QED
    BY <2>1, <2>2
<1>10. [q \in Requests |-> Phase(pc[q])]'
        = [[q \in Requests |-> Phase(pc[q])] EXCEPT ![r] = "joined"]
  BY <1>1, <1>2, PhaseFacts DEF Goto, Leading
<1>11. Phase(pc[r]) = "asked"
  BY <1>3, PhaseFacts
<1> QED
  BY <1>2, <1>3, <1>6, <1>7, <1>8, <1>9, <1>10, <1>11 DEF Promise!Join, Members, Floor

(* Deleting the key closes the fetch: all its members get the leader's result. *)
LEMMA SettlingCloses ==
  ASSUME BridgeInv, NEW r \in Requests, NEW f \in Refs, f = ref[r], Settle(r)
  PROVE  Promise!Close(f)
<1> DEFINE body == IF outcome[r] = "file" THEN stored[r] ELSE {}
<1>1. /\ pc \in [Requests -> States] /\ call \in [Requests -> Requests \cup {Nobody}]
      /\ flight \in [Refs -> Requests \cup {Nobody}] /\ opened \in [Requests -> Nat]
      /\ found \in [Requests -> Nat] /\ revision \in [Refs -> Nat]
  BY DEF BridgeInv, HandlerInv, TypeOK
<1>2. /\ Goto(r, "settle", "return") /\ flight' = [flight EXCEPT ![f] = Nobody]
      /\ UNCHANGED <<ref, stored, call, outcome, opened, reply, revision>>
  BY DEF Settle
<1>3. pc[r] = "settle"
  BY <1>2 DEF Goto
<1>4. flight[f] = r /\ call[r] = r /\ r # Nobody
  BY <1>3, RequestsAssumption DEF BridgeInv, FlightInv, LeadersRegistered, Leading
<1>5. r \in Members(f) /\ Floor(f) = opened[r]
  BY <1>4 DEF Members, Floor
<1>6. body = {} \/ \E c \in Promise!Servable(f) : body = {c}
  <2> SUFFICES ASSUME outcome[r] = "file"
               PROVE  \E c \in Promise!Servable(f) : body = {c}
    OBVIOUS
  <2>1. Fresh(r) /\ stored[r] = {[ref |-> f, rev |-> found[r]]}
    BY DEF BridgeInv, FreshInv
  <2>2. found[r] \in {m \in opened[r]..revision[f] : m > 0}
    BY <1>1, <1>3, <2>1 DEF Fresh
  <2>3. Promise!Servable(f)
          = {[ref |-> f, rev |-> n] : n \in {m \in opened[r]..revision[f] : m > 0}}
    BY <1>3, <1>5 DEF Promise!Servable, Floor
  <2>4. [ref |-> f, rev |-> found[r]] \in Promise!Servable(f)
    BY <2>2, <2>3
  <2> QED
    BY <2>1, <2>4
<1>7. [q \in Requests |-> Verdict(q)]'
        = [q \in Requests |-> IF q \in Members(f) THEN [known |-> TRUE, body |-> body]
                                                      ELSE Verdict(q)]
  <2> SUFFICES ASSUME NEW q \in Requests
               PROVE  Verdict(q)' = IF q \in Members(f) THEN [known |-> TRUE, body |-> body]
                                                             ELSE Verdict(q)
    OBVIOUS
  <2>1. CASE call[q] = r
    <3>1. pc'[r] = "return" /\ call'[q] = r
      BY <1>1, <1>2, <2>1 DEF Goto
    <3>2. q \in Members(f)
      BY <1>4, <2>1 DEF Members
    <3> QED
      BY <1>2, <1>4, <3>1, <3>2 DEF Verdict, Settled, Returned
  <2>2. CASE call[q] # r
    <3>1. call'[q] = call[q] /\ q \notin Members(f)
      BY <1>2, <1>4, <2>2 DEF Members
    <3>2. CASE call[q] = Nobody
      BY <3>1, <3>2 DEF Verdict
    <3>3. CASE call[q] # Nobody
      <4>1. pc'[call[q]] = pc[call[q]]
        BY <1>1, <1>2, <2>2, <3>3 DEF Goto
      <4> QED
        BY <1>2, <3>1, <4>1 DEF Verdict, Settled
    <3> QED
      BY <3>2, <3>3
  <2> QED
    BY <2>1, <2>2
<1>8. [g \in Refs |-> Members(g)]' = [[g \in Refs |-> Members(g)] EXCEPT ![f] = {}]
  <2> SUFFICES ASSUME NEW g \in Refs
               PROVE  Members(g)' = IF g = f THEN {} ELSE Members(g)
    BY <1>3
  <2> QED
    BY <1>1, <1>2 DEF Members
<1>9. [g \in Refs |-> Floor(g)]' = [[g \in Refs |-> Floor(g)] EXCEPT ![f] = 0]
  <2> SUFFICES ASSUME NEW g \in Refs
               PROVE  Floor(g)' = IF g = f THEN 0 ELSE Floor(g)
    BY <1>3
  <2> QED
    BY <1>1, <1>2 DEF Floor
<1>10. [q \in Requests |-> Phase(pc[q])]' = [q \in Requests |-> Phase(pc[q])]
  BY <1>1, <1>2, PhaseFacts DEF Goto, Leading, Returned
<1>11. body \in {{}} \cup {{c} : c \in Promise!Servable(f)}
  BY <1>6
<1> DEFINE verdicts == [q \in Requests |-> Verdict(q)]
          members == [g \in Refs |-> Members(g)]
<1>12. verdicts' = [q \in Requests |-> IF q \in members[f] THEN [known |-> TRUE, body |-> body]
                                                           ELSE verdicts[q]]
  BY <1>3, <1>7
<1> HIDE DEF body, verdicts, members
<1>13. \E b \in {{}} \cup {{c} : c \in Promise!Servable(f)} :
         verdicts' = [q \in Requests |-> IF q \in members[f] THEN [known |-> TRUE, body |-> b]
                                                              ELSE verdicts[q]]
  BY <1>11, <1>12, Zenon
<1>14. members[f] # {}
  BY <1>3, <1>5 DEF members
<1> QED
  BY <1>2, <1>8, <1>9, <1>10, <1>13, <1>14
  DEF Promise!Close, Members, Floor, verdicts, members

-----------------------------------------------------------------------------
(* Every step of the bridge is a step of the promise or leaves it unchanged.  *)

PromiseStep == Promise!Next \/ UNCHANGED Promise!vars

(* A step inside the function given to Do, whatever it finds or fails with. *)
LEMMA DownloadStepIsQuiet ==
  ASSUME BridgeInv, NEW r \in Requests, NEW from \in Leading, NEW to \in Leading,
         Goto(r, from, to), UNCHANGED <<ref, flight, call, reply, revision, opened>>,
         \A q \in Requests \ {r} : outcome'[q] = outcome[q] /\ stored'[q] = stored[q]
  PROVE  PromiseStep
<1>1. pc[r] = from /\ pc'[r] = to
  BY DEF Goto, BridgeInv, HandlerInv, TypeOK
<1>2. ~Settled(r) /\ ~(Settled(r)')
  BY <1>1 DEF Settled, Leading, Returned
<1>3. \A q \in Requests : Verdict(q)' = Verdict(q)
  BY <1>2, VerdictsKept
<1>4. Phase(from) = Phase(to)
  BY PhaseFacts
<1> QED
  BY <1>3, <1>4, QuietStep DEF PromiseStep

(* A step of a handler after Do that does not answer yet. *)
LEMMA ReturningIsQuiet ==
  ASSUME BridgeInv, NEW r \in Requests, NEW to \in Returned, Goto(r, "return", to),
         UNCHANGED <<ref, stored, flight, call, outcome, reply, revision, opened>>
  PROVE  PromiseStep
<1>1. pc[r] = "return" /\ pc'[r] = to
  BY DEF Goto, BridgeInv, HandlerInv, TypeOK
<1>2. Settled(r) /\ Settled(r)'
  BY <1>1 DEF Settled, Returned
<1>3. \A q \in Requests : Verdict(q)' = Verdict(q)
  BY <1>2, VerdictsKept
<1>4. Phase("return") = Phase(to)
  BY PhaseFacts DEF Returned
<1> QED
  BY <1>3, <1>4, QuietStep DEF PromiseStep

(* A request that arrives asks for the reference of its query. *)
LEMMA ReceivingAsks ==
  ASSUME BridgeInv, NEW r \in Requests, NEW f \in Refs \cup {NoRef}, Receive(r, f)
  PROVE  Promise!Ask(r, f)
<1>1. pc \in [Requests -> States]
  BY DEF BridgeInv, HandlerInv, TypeOK
<1>2. /\ Goto(r, "idle", "received") /\ ref' = [ref EXCEPT ![r] = f]
      /\ UNCHANGED <<stored, flight, call, outcome, reply, revision, opened>>
  BY DEF Receive
<1>3. [q \in Requests |-> Verdict(q)]' = [q \in Requests |-> Verdict(q)]
  BY <1>2, VerdictsKept
<1>4. [q \in Requests |-> Phase(pc[q])]'
        = [[q \in Requests |-> Phase(pc[q])] EXCEPT ![r] = "asked"]
  BY <1>1, <1>2, PhaseFacts DEF Goto
<1>5. Phase(pc[r]) = "idle"
  BY <1>2, PhaseFacts DEF Goto
<1> QED
  BY <1>2, <1>3, <1>4, <1>5 DEF Promise!Ask

(* The step simulation, one case per action of Next. *)
LEMMA StepsKeepThePromise ==
  ASSUME BridgeInv, [Next]_vars
  PROVE  PromiseStep
<1>1. ASSUME NEW r \in Requests, NEW f \in Refs \cup {NoRef}, Receive(r, f)
      PROVE  PromiseStep
  BY <1>1, ReceivingAsks DEF PromiseStep, Promise!Next
<1>2. ASSUME NEW r \in Requests, Reject(r) PROVE PromiseStep
  <2>1. Promise!Refuse(r)
    BY <1>2, RefusalRefuses DEF Reject
  <2> QED
    BY <2>1 DEF PromiseStep, Promise!Next
<1>3. ASSUME NEW r \in Requests, MakeTempDir(r) PROVE PromiseStep
  <2>1. CASE Goto(r, "received", "do") /\ UNCHANGED reply
    <3>1. UNCHANGED <<ref, stored, flight, call, outcome, reply, revision, opened>>
      BY <1>3, <2>1 DEF MakeTempDir
    <3>2. \A q \in Requests : Verdict(q)' = Verdict(q)
      BY <2>1, <3>1, VerdictsKept
    <3> QED
      BY <2>1, <3>1, <3>2, PhaseFacts, QuietStep DEF PromiseStep
  <2>2. CASE Respond(r, "received", 500, {})
    <3>1. Promise!Refuse(r)
      BY <1>3, <2>2, RefusalRefuses DEF MakeTempDir
    <3> QED
      BY <3>1 DEF PromiseStep, Promise!Next
  <2> QED
    BY <1>3, <2>1, <2>2 DEF MakeTempDir
<1>4. ASSUME NEW r \in Requests, Join(r) PROVE PromiseStep
  BY <1>4, FollowerJoins DEF PromiseStep, Promise!Next
<1>5. ASSUME NEW r \in Requests, Lead(r) PROVE PromiseStep
  BY <1>5, LeaderJoins DEF PromiseStep, Promise!Next
<1>6. ASSUME NEW r \in Requests, Settle(r) PROVE PromiseStep
  <2>1. PICK f \in Refs : f = ref[r]
    BY <1>6 DEF Settle, Goto, BridgeInv, HandlerInv, HandlerKnown, InDo, Leading
  <2>2. Promise!Close(f)
    BY <1>6, <2>1, SettlingCloses
  <2> QED
    BY <2>2 DEF PromiseStep, Promise!Next
<1>7. ASSUME NEW r \in Requests, Wake(r) PROVE PromiseStep
  <2>1. /\ Goto(r, "wait", "return")
        /\ UNCHANGED <<ref, stored, flight, call, outcome, reply, revision, opened>>
    BY <1>7 DEF Wake
  <2>2. \A q \in Requests : Verdict(q)' = Verdict(q)
    BY <2>1, VerdictsKept
  <2>3. Phase("wait") = Phase("return")
    BY PhaseFacts DEF Returned
  <2> QED
    BY <2>1, <2>2, <2>3, QuietStep DEF PromiseStep
<1>8. ASSUME NEW r \in Requests, CreateClient(r) PROVE PromiseStep
  <2>0. outcome \in [Requests -> Outcomes] /\ stored \in [Requests -> SUBSET Contents]
    BY DEF BridgeInv, HandlerInv, TypeOK
  <2>1. CASE Goto(r, "client", "parse") /\ UNCHANGED outcome
    BY <1>8, <2>0, <2>1, DownloadStepIsQuiet DEF CreateClient, Finish, Leading
  <2>2. CASE Finish(r, "client", "nil")
    BY <1>8, <2>0, <2>2, DownloadStepIsQuiet DEF CreateClient, Finish, Leading
  <2> QED
    BY <1>8, <2>1, <2>2 DEF CreateClient
<1>9. ASSUME NEW r \in Requests, ParseRef(r) PROVE PromiseStep
  <2>0. outcome \in [Requests -> Outcomes] /\ stored \in [Requests -> SUBSET Contents]
    BY DEF BridgeInv, HandlerInv, TypeOK
  <2>1. CASE Finish(r, "parse", "nil")
    BY <1>9, <2>0, <2>1, DownloadStepIsQuiet DEF ParseRef, Finish, Leading
  <2>2. CASE Finish(r, "parse", "error")
    BY <1>9, <2>0, <2>2, DownloadStepIsQuiet DEF ParseRef, Finish, Leading
  <2>3. CASE Goto(r, "parse", "share") /\ UNCHANGED outcome
    BY <1>9, <2>0, <2>3, DownloadStepIsQuiet DEF ParseRef, Finish, Leading
  <2> QED
    BY <1>9, <2>1, <2>2, <2>3 DEF ParseRef
<1>10. ASSUME NEW r \in Requests, SetRegistryClient(r) PROVE PromiseStep
  BY <1>10, DownloadStepIsQuiet DEF SetRegistryClient, Leading
<1>11. ASSUME NEW r \in Requests, ReadGetterClient(r) PROVE PromiseStep
  BY <1>11, DownloadStepIsQuiet DEF ReadGetterClient, Leading
<1>12. ASSUME NEW r \in Requests, ReadListerClient(r) PROVE PromiseStep
  BY <1>12, DownloadStepIsQuiet DEF ReadListerClient, Leading
<1>13. ASSUME NEW r \in Requests, ListTags(r) PROVE PromiseStep
  <2>0. outcome \in [Requests -> Outcomes] /\ stored \in [Requests -> SUBSET Contents]
    BY DEF BridgeInv, HandlerInv, TypeOK
  <2>1. CASE Goto(r, "tags", "pull") /\ UNCHANGED outcome
    BY <1>13, <2>0, <2>1, DownloadStepIsQuiet DEF ListTags, Finish, Leading
  <2>2. CASE Finish(r, "tags", "error")
    BY <1>13, <2>0, <2>2, DownloadStepIsQuiet DEF ListTags, Finish, Leading
  <2> QED
    BY <1>13, <2>1, <2>2 DEF ListTags
<1>14. ASSUME NEW r \in Requests, PullImage(r) PROVE PromiseStep
  <2>0. outcome \in [Requests -> Outcomes] /\ stored \in [Requests -> SUBSET Contents]
    BY DEF BridgeInv, HandlerInv, TypeOK
  <2>1. CASE Goto(r, "pull", "write") /\ UNCHANGED outcome
    BY <1>14, <2>0, <2>1, DownloadStepIsQuiet DEF PullImage, Finish, Leading
  <2>2. CASE Finish(r, "pull", "error")
    BY <1>14, <2>0, <2>2, DownloadStepIsQuiet DEF PullImage, Finish, Leading
  <2> QED
    BY <1>14, <2>1, <2>2 DEF PullImage
<1>15. ASSUME NEW r \in Requests, WriteFile(r) PROVE PromiseStep
  <2>0. outcome \in [Requests -> Outcomes] /\ stored \in [Requests -> SUBSET Contents]
    BY DEF BridgeInv, HandlerInv, TypeOK
  <2>1. CASE Finish(r, "write", "file")
    BY <1>15, <2>0, <2>1, DownloadStepIsQuiet DEF WriteFile, Finish, Leading
  <2>2. CASE Finish(r, "write", "error")
    BY <1>15, <2>0, <2>2, DownloadStepIsQuiet DEF WriteFile, Finish, Leading
  <2> QED
    BY <1>15, <2>1, <2>2 DEF WriteFile
<1>16. ASSUME NEW r \in Requests, Return(r) PROVE PromiseStep
  <2>1. CASE Goto(r, "return", "panic") /\ UNCHANGED reply
    BY <1>16, <2>1, ReturningIsQuiet DEF Return, Returned
  <2>2. CASE outcome[call[r]] = "error" /\ Respond(r, "return", 500, {})
    <3>1. Verdict(r).body = {}
      BY <2>2 DEF Verdict
    <3>2. Promise!Deliver(r)
      BY <1>16, <2>2, <3>1, ResponseDelivers DEF Return, Returned
    <3> QED
      BY <3>2 DEF PromiseStep, Promise!Next
  <2>3. CASE Goto(r, "return", "send") /\ UNCHANGED reply
    BY <1>16, <2>3, ReturningIsQuiet DEF Return, Returned
  <2> QED
    BY <1>16, <2>1, <2>2, <2>3 DEF Return
<1>17. ASSUME NEW r \in Requests, Recover(r) PROVE PromiseStep
  <2>1. outcome[call[r]] = "nil"
    BY <1>17 DEF Recover, Respond, Goto, BridgeInv, AnswerInv
  <2>2. Verdict(r).body = {}
    BY <2>1 DEF Verdict
  <2>3. Promise!Deliver(r)
    BY <1>17, <2>2, ResponseDelivers DEF Recover, Returned
  <2> QED
    BY <2>3 DEF PromiseStep, Promise!Next
<1>18. ASSUME NEW r \in Requests, SendFile(r) PROVE PromiseStep
  <2> DEFINE file == stored[call[r]]
  <2>1. /\ Respond(r, "send", 200, file) \/ Respond(r, "send", 404, {})
        /\ UNCHANGED <<ref, stored, flight, call, outcome, revision, opened>>
    BY <1>18 DEF SendFile
  <2>2. pc[r] = "send"
    BY <2>1 DEF Respond, Goto
  <2>3. outcome[call[r]] = "file" /\ call[r] \in Requests
    BY <2>2 DEF BridgeInv, AnswerInv, HandlerInv, HandlerKnown, InDo, Returned
  <2>4. Settled(call[r])
    BY <2>2, <2>3, RequestsAssumption DEF BridgeInv, SettledInv, Returned
  <2>5. Verdict(r).body = file
    BY <2>3, <2>4, RequestsAssumption DEF Verdict
  <2>6. Promise!Deliver(r)
    <3> HIDE DEF file
    <3>1. CASE Respond(r, "send", 200, file)
      BY <2>1, <2>5, <3>1, ResponseDelivers DEF Returned
    <3>2. CASE Respond(r, "send", 404, {})
      BY <2>1, <3>2, ResponseDelivers DEF Returned
    <3> QED
      BY <2>1, <3>1, <3>2
  <2> QED
    BY <2>6 DEF PromiseStep, Promise!Next
<1>19. ASSUME NEW f \in Refs, Publish(f) PROVE PromiseStep
  <2>1. Promise!Publish(f)
    BY <1>19 DEF Publish, handler, Promise!Publish, Verdict, Settled
  <2> QED
    BY <2>1 DEF PromiseStep, Promise!Next
<1>20. CASE UNCHANGED vars
  BY <1>20 DEF vars, PromiseStep, Promise!vars, Verdict, Settled
<1>21. ASSUME NEW f \in Refs, Withdraw(f) PROVE PromiseStep
  BY <1>21 DEF Withdraw, handler, PromiseStep, Promise!vars, Verdict, Settled
<1> QED
  BY <1>1, <1>2, <1>3, <1>4, <1>5, <1>6, <1>7, <1>8, <1>9, <1>10, <1>11,
     <1>12, <1>13, <1>14, <1>15, <1>16, <1>17, <1>18, <1>19, <1>20, <1>21
  DEF Next, ServerStep, RegistryStep, Quiescent

(* The initial states: no request, no flight, nothing published. *)
LEMMA InitKeepsThePromise ==
  ASSUME Init PROVE Promise!Init
<1>1. \A q \in Requests : Verdict(q) = [known |-> FALSE, body |-> {}]
  BY DEF Init, Verdict
<1> QED
  BY <1>1, PhaseFacts DEF Init, NoReply, Promise!Init, Promise!Undecided

(* However many requests, references and publications there are: the handlers *)
(* of routes..go, the shared flights of bridge.go and the download give each  *)
(* request the one verdict of the fetch that it joined, about its reference,  *)
(* no staler than the fetch, or a failure: the fetch's, which all of them      *)
(* get, or that of its own response.                                          *)
THEOREM BridgeKeepsThePromise == Spec => ImplementsSharedAnswer
<1>1. Init => Promise!Init
  BY InitKeepsThePromise
<1>2. BridgeInv /\ [Next]_vars => [Promise!Next]_(Promise!vars)
  BY StepsKeepThePromise DEF PromiseStep
<1> QED
  BY <1>1, <1>2, BridgeInvariant, PTL DEF Spec, ImplementsSharedAnswer, Promise!Spec

-----------------------------------------------------------------------------
(* The other side of ServeLifecycle.  There a connection is accepted, and the  *)
(* handler that its request starts runs and is answered, and nothing else is   *)
(* said of it; over the connections that the command has accepted, the         *)
(* handlers of this module are such handlers.                                  *)

Handling(state) == CASE state = "idle" -> "connected"
                     [] state = "done" -> "answered"
                     [] OTHER -> "running"

Serving == INSTANCE ServeLifecycle WITH
  Stuck <- {}, main <- "wait", server <- "serving", stopper <- "waiting", counter <- 1,
  listener <- "open", ctx <- "background", process <- "running",
  handler <- [r \in Requests |-> Handling(pc[r])]

LEMMA HandlingFacts ==
  /\ Handling("idle") = "connected" /\ Handling("done") = "answered"
  /\ \A s \in States \ {"idle", "done"} : Handling(s) = "running"
BY DEF Handling

(* A step that moves one handler moves it as ServeLifecycle says, or not at    *)
(* all. *)
LEMMA MovesAsServed ==
  ASSUME HandlerInv, NEW r \in Requests, NEW s \in States, pc' = [pc EXCEPT ![r] = s],
         \/ pc[r] = "idle" /\ s = "received"
         \/ pc[r] \notin {"idle", "done"} /\ s # "idle"
  PROVE  [Serving!Next]_(Serving!vars)
<1> DEFINE now == [q \in Requests |-> Handling(pc[q])]
           next == [q \in Requests |-> Handling(pc'[q])]
<1> USE DEF HandlerInv, TypeOK, States
<1>1. next = [now EXCEPT ![r] = Handling(s)]
  OBVIOUS
<1>2. CASE pc[r] = "idle" /\ s = "received"
  <2>1. now[r] = "connected" /\ next = [now EXCEPT ![r] = "running"]
    BY <1>1, <1>2, HandlingFacts
  <2>2. Serving!Begin(r)
    BY <2>1 DEF Serving!Begin
  <2> QED
    BY <2>2 DEF Serving!Next
<1>3. CASE pc[r] \notin {"idle", "done"} /\ s = "done"
  <2>1. now[r] = "running" /\ next = [now EXCEPT ![r] = "answered"]
    BY <1>1, <1>3, HandlingFacts
  <2>2. Serving!Answer(r)
    BY <2>1 DEF Serving!Answer
  <2> QED
    BY <2>2 DEF Serving!Next
<1>4. CASE pc[r] \notin {"idle", "done"} /\ s \notin {"idle", "done"}
  <2>1. Handling(pc[r]) = "running" /\ Handling(s) = "running"
    BY <1>4, HandlingFacts
  <2>2. next = now
    BY <1>1, <2>1
  <2> QED
    BY <2>2 DEF Serving!vars
<1> QED
  BY <1>2, <1>3, <1>4

(* Every step of the bridge is, for the command that serves it, the arrival   *)
(* of a request over its connection, an answer, or nothing (routes..go:14,    *)
(* server.go:96).                                                             *)
THEOREM HandlersServe == Spec => [][Serving!Next]_(Serving!vars)
<1>1. HandlerInv /\ [Next]_vars => [Serving!Next]_(Serving!vars)
  <2> SUFFICES ASSUME HandlerInv, [Next]_vars PROVE [Serving!Next]_(Serving!vars)
    OBVIOUS
  <2>1. ASSUME NEW r \in Requests, NEW f \in Refs \cup {NoRef}, Receive(r, f)
        PROVE  [Serving!Next]_(Serving!vars)
    BY <2>1, MovesAsServed DEF Receive, Goto, States
  <2>2. ASSUME NEW r \in Requests, ServerStep(r) \/ RegistryStep(r)
        PROVE  [Serving!Next]_(Serving!vars)
    <3>1. <<pc[r], pc'[r]>> \in Edges
      BY <2>2, OwnStepAdvances
    <3>2. pc' = [pc EXCEPT ![r] = pc'[r]]
      BY <2>2 DEF HandlerInv, TypeOK, ServerStep, RegistryStep, Goto, Respond, Finish, Reject, MakeTempDir,
         Join, Lead, Settle, Wake, CreateClient, ParseRef, SetRegistryClient, ReadGetterClient,
         ReadListerClient, WriteFile, Return, Recover, SendFile, ListTags, PullImage
    <3>3. /\ pc'[r] \in States /\ pc'[r] # "idle"
          /\ pc[r] \notin {"idle", "done"}
      BY <3>1 DEF Edges, States, Leading, Returned
    <3> QED
      BY <3>2, <3>3, MovesAsServed
  <2>3. CASE (\E f \in Refs : Publish(f) \/ Withdraw(f)) \/ UNCHANGED vars
    <3>1. UNCHANGED pc
      BY <2>3 DEF Publish, Withdraw, vars
    <3> QED
      BY <3>1 DEF Serving!vars
  <2> QED
    BY <2>1, <2>2, <2>3 DEF Next, Quiescent
<1> QED
  BY <1>1, HandlerInvariant, PTL DEF Spec

(* A handler that runs, and whose registry answers. *)
Running(r) == Handling(pc[r]) = "running" /\ ref[r] \notin Hung

(* And its handlers end, which ServeLifecycle takes from the fairness of       *)
(* Answer: wherever a handler is, it comes to its answer, unless the registry  *)
(* of its own reference hangs.                                                *)
THEOREM HandlersEnd ==
  ASSUME NEW r \in Requests
  PROVE  FairSpec /\ []BlocksOnlyInWaits => (Running(r) ~> Handling(pc[r]) = "answered")
<1>1. FairSpec /\ []BlocksOnlyInWaits => Leaves(r, "received") /\ Leaves(r, "do")
                                         /\ Leaves(r, "panic") /\ Leaves(r, "send")
  BY Advances DEF Runnable, States, Returned
<1>2. /\ Past(r, "received") => At(r, "do") \/ At(r, "done")
      /\ Past(r, "do") => At(r, "wait") \/ LeadingAt(r)
      /\ Past(r, "panic") => At(r, "done")
      /\ Past(r, "send") => At(r, "done")
  BY DEF Past, At, LeadingAt, Leading, Edges
<1>3. FairSpec /\ []BlocksOnlyInWaits =>
        /\ LeaderEnds(r)
        /\ At(r, "wait") ~> At(r, "return")
        /\ At(r, "return") ~> At(r, "done")
  BY LeaderReturns, FollowerReturns, ReturnAnswers
<1>4. HandlerInv /\ Running(r) =>
        \/ At(r, "received") \/ At(r, "do") \/ At(r, "wait") \/ LeadingAt(r)
        \/ At(r, "return") \/ At(r, "panic") \/ At(r, "send")
  BY DEF HandlerInv, TypeOK, States, Returned, Running, Handling, At, LeadingAt
<1>5. At(r, "done") => Handling(pc[r]) = "answered"
  BY DEF At, Handling
<1>6. FairSpec => Spec
  BY DEF FairSpec
<1> QED
  BY <1>1, <1>2, <1>3, <1>4, <1>5, <1>6, HandlerInvariant, PTL DEF Leaves, LeaderEnds
=============================================================================
