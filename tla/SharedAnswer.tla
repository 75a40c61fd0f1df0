---------------------------- MODULE SharedAnswer ----------------------------
(* What GET /?ref=... promises, with no mechanism: the requests for a         *)
(* reference that arrive while it is being fetched share one verdict, which   *)
(* is either a failure or an image no older than the newest one when the      *)
(* fetch began, and each of them is given that verdict or a failure of its    *)
(* own.  DownloadBridge implements it.                                        *)
EXTENDS Naturals

CONSTANTS Requests,     \* the HTTP requests, one handler execution each
          Refs,         \* the values of the query parameter "ref"
          NoRef,        \* the query has no "ref" parameter
          Unfetchable,  \* references no registry can serve
          MaxRevision   \* bound on the images published per reference

VARIABLES phase,      \* request -> "idle", "asked", "joined" or "answered"
          asked,      \* request -> the reference it names
          members,    \* reference -> the requests waiting for its verdict
          floor,      \* reference -> the revision when its fetch began
          verdict,    \* request -> the verdict of the fetch it joined
          answer,     \* request -> the body of its response, {} for a failure
          published   \* reference -> the newest revision published

vars == <<phase, asked, members, floor, verdict, answer, published>>

Contents == [ref : Refs, rev : Nat]
Undecided == [known |-> FALSE, body |-> {}]

Init ==
  /\ phase = [r \in Requests |-> "idle"]
  /\ asked = [r \in Requests |-> NoRef]
  /\ members = [f \in Refs |-> {}]
  /\ floor = [f \in Refs |-> 0]
  /\ verdict = [r \in Requests |-> Undecided]
  /\ answer = [r \in Requests |-> {}]
  /\ published = [f \in Refs |-> 0]

Ask(r, f) ==
  /\ phase[r] = "idle"
  /\ phase' = [phase EXCEPT ![r] = "asked"]
  /\ asked' = [asked EXCEPT ![r] = f]
  /\ UNCHANGED <<members, floor, verdict, answer, published>>

(* A request may be refused before it joins any fetch. *)
Refuse(r) ==
  /\ phase[r] = "asked"
  /\ phase' = [phase EXCEPT ![r] = "answered"]
  /\ UNCHANGED <<asked, members, floor, verdict, answer, published>>

Join(r) ==
  LET f == asked[r] IN
  /\ phase[r] = "asked" /\ f \in Refs
  /\ phase' = [phase EXCEPT ![r] = "joined"]
  /\ members' = [members EXCEPT ![f] = @ \cup {r}]
  /\ floor' = IF members[f] = {} THEN [floor EXCEPT ![f] = published[f]] ELSE floor
  /\ UNCHANGED <<asked, verdict, answer, published>>

Servable(f) ==
  {[ref |-> f, rev |-> n] : n \in {m \in floor[f]..published[f] : m > 0}}

(* One verdict for every request that has joined. *)
Close(f) ==
  /\ members[f] # {}
  /\ \E body \in {{}} \cup {{c} : c \in Servable(f)} :
       verdict' = [r \in Requests |->
                     IF r \in members[f] THEN [known |-> TRUE, body |-> body] ELSE verdict[r]]
  /\ members' = [members EXCEPT ![f] = {}]
  /\ floor' = [floor EXCEPT ![f] = 0]
  /\ UNCHANGED <<phase, asked, answer, published>>

(* The verdict, or a failure to deliver it to this request.                   *)
Deliver(r) ==
  /\ phase[r] = "joined" /\ verdict[r].known
  /\ phase' = [phase EXCEPT ![r] = "answered"]
  /\ \E body \in {verdict[r].body, {}} : answer' = [answer EXCEPT ![r] = body]
  /\ UNCHANGED <<asked, members, floor, verdict, published>>

Publish(f) ==
  /\ f \notin Unfetchable /\ published[f] < MaxRevision
  /\ published' = [published EXCEPT ![f] = @ + 1]
  /\ UNCHANGED <<phase, asked, members, floor, verdict, answer>>

Next ==
  \/ \E r \in Requests :
       \/ \E f \in Refs \cup {NoRef} : Ask(r, f)
       \/ Refuse(r) \/ Join(r) \/ Deliver(r)
  \/ \E f \in Refs : Close(f) \/ Publish(f)

Spec == Init /\ [][Next]_vars
=============================================================================
