--------------------------- MODULE DownloadBridge ---------------------------
(* The HTTP bridge: every request runs the handler of routes..go in its own   *)
(* goroutine, the handlers of one reference share a download through          *)
(* singleflight (bridge.go), and the download reads the registry through a    *)
(* client kept in a Configuration that all downloads share (pull.go).         *)
EXTENDS Naturals

CONSTANTS Requests,     \* the HTTP requests, one handler execution each
          Refs,         \* the values of the query parameter "ref"
          NotOCI,       \* references without the oci:// scheme (the empty one too)
          Malformed,    \* oci:// references that ParseReference rejects
          Pinned,       \* references whose tag is a semantic version
          Hung,         \* references whose registry may never answer
          NoRef,        \* the query has no "ref" parameter
          Nobody,       \* no request: no flight, no call; the root command's client
          MaxRevision   \* bound on the images published per reference

Unfetchable == NotOCI \cup Malformed

ASSUME RefsAssumption ==
  /\ NotOCI \subseteq Refs /\ Malformed \subseteq Refs
  /\ Pinned \subseteq Refs \ Unfetchable /\ Hung \subseteq Refs
  /\ NoRef \notin Refs

ASSUME RequestsAssumption == Nobody \notin Requests

ASSUME BoundAssumption == MaxRevision \in Nat

VARIABLES
  pc,        \* request -> where its handler is
  ref,       \* request -> the reference of its query
  dirs,      \* the requests whose temporary directory exists
  stored,    \* request -> the image in its temporary directory, {} when none
  temps,     \* the requests in whose directory a write left a temporary file
  flight,    \* Server.downloads: reference -> the request running its download
  call,      \* request -> the leader of the call it got from Do
  outcome,   \* leader -> what the function given to Do returned
  shared,    \* Server.registryConfig.RegistryClient: the request that set it
  getter,    \* leader -> the client its getter pulls with
  lister,    \* leader -> the client its downloader lists tags with
  found,     \* leader -> the revision resolved or pulled so far, 0 when none
  reply,     \* request -> the HTTP response, status 0 before it is sent
  revision,  \* reference -> the newest revision published, 0 when none
  oldest,    \* reference -> the oldest revision that has not been deleted
  opened     \* history: leader -> revision[ref] when its flight began

disk == <<dirs, stored, temps>>
calls == <<flight, call, outcome>>
clients == <<shared, getter, lister>>
registry == <<revision, oldest, opened>>
handler == <<pc, ref, disk, calls, clients, found, reply, opened>>
vars == <<handler, revision, oldest>>

-----------------------------------------------------------------------------
(* The states of a handler. *)

Leading == {"client", "parse", "share", "getter", "lister", "tags", "pull",
            "write", "settle"}                \* inside the function given to Do
Returned == {"return", "panic", "send"}       \* Do has returned
States == {"idle", "received", "do", "wait", "done"} \cup Leading \cup Returned

Contents == [ref : Refs, rev : Nat]
Outcomes == {"pending", "nil", "error", "file"}
Statuses == {0, 200, 400, 404, 500}
NoReply == [status |-> 0, body |-> {}]

Init ==
  /\ pc = [r \in Requests |-> "idle"]
  /\ ref = [r \in Requests |-> NoRef]
  /\ dirs = {}
  /\ stored = [r \in Requests |-> {}]
  /\ temps = {}
  /\ flight = [f \in Refs |-> Nobody]
  /\ call = [r \in Requests |-> Nobody]
  /\ outcome = [r \in Requests |-> "pending"]
  /\ shared = Nobody
  /\ getter = [r \in Requests |-> Nobody]
  /\ lister = [r \in Requests |-> Nobody]
  /\ found = [r \in Requests |-> 0]
  /\ reply = [r \in Requests |-> NoReply]
  /\ revision = [f \in Refs |-> 0]
  /\ oldest = [f \in Refs |-> 1]
  /\ opened = [r \in Requests |-> 0]

Goto(r, from, to) == pc[r] = from /\ pc' = [pc EXCEPT ![r] = to]

Respond(r, from, status, body) ==
  /\ Goto(r, from, "done")
  /\ reply' = [reply EXCEPT ![r] = [status |-> status, body |-> body]]

-----------------------------------------------------------------------------
(* The handler up to the call of Do. *)

Receive(r, f) ==
  /\ Goto(r, "idle", "received")
  /\ ref' = [ref EXCEPT ![r] = f]
  /\ UNCHANGED <<disk, calls, clients, found, reply, registry>>

Reject(r) ==
  /\ ref[r] = NoRef
  /\ Respond(r, "received", 400, {})
  /\ UNCHANGED <<ref, disk, calls, clients, found, registry>>

(* Mutation: one directory per reference, not per request. *)
MakeRefDir(r) ==
  /\ ref[r] # NoRef
  /\ \/ Goto(r, "received", "do") /\ dirs' = dirs \cup {ref[r]} /\ UNCHANGED reply
     \/ Respond(r, "received", 500, {}) /\ UNCHANGED dirs
  /\ UNCHANGED <<ref, stored, temps, calls, clients, found, registry>>

MakeTempDir(r) ==
  /\ ref[r] # NoRef
  /\ \/ Goto(r, "received", "do") /\ dirs' = dirs \cup {r} /\ UNCHANGED reply
     \/ Respond(r, "received", 500, {}) /\ UNCHANGED dirs
  /\ UNCHANGED <<ref, stored, temps, calls, clients, found, registry>>

-----------------------------------------------------------------------------
(* singleflight.Group.Do, whose mutex makes each of these one step. *)

(* Mutation: the key does not tell the references apart. *)
JoinAnyFlight(r) ==
  /\ Goto(r, "do", "wait")
  /\ \E f \in Refs : flight[f] # Nobody /\ call' = [call EXCEPT ![r] = flight[f]]
  /\ UNCHANGED <<ref, disk, flight, outcome, clients, found, reply, registry>>

Join(r) ==
  LET leader == flight[ref[r]] IN
  /\ Goto(r, "do", "wait")
  /\ leader # Nobody
  /\ call' = [call EXCEPT ![r] = leader]
  /\ UNCHANGED <<ref, disk, flight, outcome, clients, found, reply, registry>>

(* Mutation: the key is looked up, but not under the mutex that inserts it. *)
LeadAlways(r) ==
  /\ Goto(r, "do", "client")
  /\ flight' = [flight EXCEPT ![ref[r]] = r]
  /\ call' = [call EXCEPT ![r] = r]
  /\ opened' = [opened EXCEPT ![r] = revision[ref[r]]]
  /\ UNCHANGED <<ref, disk, outcome, clients, found, reply, revision, oldest>>

(* Mutation: one mutex held for the whole download of any reference. *)
LeadAlone(r) == (\A f \in Refs : flight[f] = Nobody) /\ LeadAlways(r)

Lead(r) ==
  /\ Goto(r, "do", "client")
  /\ flight[ref[r]] = Nobody
  /\ flight' = [flight EXCEPT ![ref[r]] = r]
  /\ call' = [call EXCEPT ![r] = r]
  /\ opened' = [opened EXCEPT ![r] = revision[ref[r]]]
  /\ UNCHANGED <<ref, disk, outcome, clients, found, reply, revision, oldest>>

(* Mutation: the key is not deleted when the call is done. *)
SettleKeepsKey(r) ==
  /\ Goto(r, "settle", "return")
  /\ UNCHANGED <<ref, disk, calls, clients, found, reply, registry>>

Settle(r) ==
  /\ Goto(r, "settle", "return")
  /\ flight' = [flight EXCEPT ![ref[r]] = Nobody]
  /\ UNCHANGED <<ref, disk, call, outcome, clients, found, reply, registry>>

Settled(leader) == pc[leader] \in Returned \cup {"done"}

Wake(r) ==
  /\ Goto(r, "wait", "return")
  /\ Settled(call[r])
  /\ UNCHANGED <<ref, disk, calls, clients, found, reply, registry>>

-----------------------------------------------------------------------------
(* The function given to Do, run by the leader of the flight. *)

Finish(r, from, result) ==
  /\ Goto(r, from, "settle")
  /\ outcome' = [outcome EXCEPT ![r] = result]

CreateClient(r) ==
  /\ \/ Goto(r, "client", "parse") /\ UNCHANGED outcome
     \/ Finish(r, "client", "nil")
  /\ UNCHANGED <<ref, disk, flight, call, clients, found, reply, registry>>

ParseRef(r) ==
  /\ CASE ref[r] \in NotOCI    -> Finish(r, "parse", "nil")
       [] ref[r] \in Malformed -> Finish(r, "parse", "error")
       [] OTHER                -> Goto(r, "parse", "share") /\ UNCHANGED outcome
  /\ UNCHANGED <<ref, disk, flight, call, clients, found, reply, registry>>

(* Mutation: the pull keeps whatever client the Configuration has. *)
KeepRegistryClient(r) ==
  /\ Goto(r, "share", "getter")
  /\ UNCHANGED <<ref, disk, calls, clients, found, reply, registry>>

SetRegistryClient(r) ==
  /\ Goto(r, "share", "getter")
  /\ shared' = r
  /\ UNCHANGED <<ref, disk, calls, getter, lister, found, reply, registry>>

ReadGetterClient(r) ==
  /\ Goto(r, "getter", "lister")
  /\ getter' = [getter EXCEPT ![r] = shared]
  /\ UNCHANGED <<ref, disk, calls, shared, lister, found, reply, registry>>

ReadListerClient(r) ==
  /\ Goto(r, "lister", IF ref[r] \in Pinned THEN "pull" ELSE "tags")
  /\ lister' = [lister EXCEPT ![r] = shared]
  /\ UNCHANGED <<ref, disk, calls, shared, getter, found, reply, registry>>

(* The registry has published revision n of reference f, and still has it. *)
Holds(f, n) == oldest[f] <= n /\ n <= revision[f]

(* Mutation: the tags are sorted the other way round. *)
ListLowestTag(r) ==
  /\ \/ /\ Goto(r, "tags", "pull")
        /\ Holds(ref[r], revision[ref[r]])
        /\ found' = [found EXCEPT ![r] = 1]
        /\ UNCHANGED outcome
     \/ Finish(r, "tags", "error") /\ UNCHANGED found
  /\ UNCHANGED <<ref, disk, flight, call, clients, reply, registry>>

(* The highest tag of the repository; no tag at all is an error. *)
ListTags(r) ==
  /\ \/ /\ Goto(r, "tags", "pull")
        /\ Holds(ref[r], revision[ref[r]])
        /\ found' = [found EXCEPT ![r] = revision[ref[r]]]
        /\ UNCHANGED outcome
     \/ Finish(r, "tags", "error") /\ UNCHANGED found
  /\ UNCHANGED <<ref, disk, flight, call, clients, reply, registry>>

(* A pinned tag is read as it is now, a floating one as ListTags chose it, if *)
(* that tag is still there.                                                   *)
PullImage(r) ==
  LET n == IF ref[r] \in Pinned THEN revision[ref[r]] ELSE found[r] IN
  /\ \/ /\ Goto(r, "pull", "write")
        /\ Holds(ref[r], n)
        /\ found' = [found EXCEPT ![r] = n]
        /\ UNCHANGED outcome
     \/ Finish(r, "pull", "error") /\ UNCHANGED found
  /\ UNCHANGED <<ref, disk, flight, call, clients, reply, registry>>

(* Mutation: the handlers of one reference write to one directory.            *)
WriteInRefDir(r) ==
  LET image == {[ref |-> ref[r], rev |-> found[r]]} IN
  /\ Finish(r, "write", "file")
  /\ stored' = [q \in Requests |->
                  IF q = r \/ (stored[q] # {} /\ ref[q] = ref[r]) THEN image ELSE stored[q]]
  /\ UNCHANGED <<ref, dirs, temps, flight, call, clients, found, reply, registry>>

(* AtomicWriteFile: a write that fails may leave its temporary file behind.   *)
WriteFile(r) ==
  /\ \/ /\ Finish(r, "write", "file")
        /\ stored' = [stored EXCEPT ![r] = {[ref |-> ref[r], rev |-> found[r]]}]
        /\ UNCHANGED temps
     \/ /\ Finish(r, "write", "error")
        /\ temps' \in {temps, temps \cup {r}}
        /\ UNCHANGED stored
  /\ UNCHANGED <<ref, dirs, flight, call, clients, found, reply, registry>>

-----------------------------------------------------------------------------
(* After Do: the type assertion raw.(string), then the response. *)

Return(r) ==
  LET result == outcome[call[r]] IN
  /\ pc[r] = "return"
  /\ \/ result = "nil" /\ Goto(r, "return", "panic") /\ UNCHANGED reply
     \/ result = "error" /\ Respond(r, "return", 500, {})
     \/ result = "file" /\ Goto(r, "return", "send") /\ UNCHANGED reply
  /\ UNCHANGED <<ref, disk, calls, clients, found, registry>>

(* The recover middleware turns a handler's panic into an error response. *)
Recover(r) ==
  /\ Respond(r, "panic", 500, {})
  /\ UNCHANGED <<ref, disk, calls, clients, found, registry>>

(* Mutation: a handler moves a copy into its own directory before it sends.   *)
SendOwnCopy(r) ==
  LET file == stored[call[r]] IN
  /\ Respond(r, "send", 200, file)
  /\ stored' = [stored EXCEPT ![r] = file]
  /\ UNCHANGED <<ref, dirs, temps, calls, clients, found, registry>>

(* Every handler opens the leader's file for itself, and may fail to.         *)
SendFile(r) ==
  /\ Respond(r, "send", 200, stored[call[r]]) \/ Respond(r, "send", 404, {})
  /\ UNCHANGED <<ref, disk, calls, clients, found, registry>>

-----------------------------------------------------------------------------
(* The registry's other users. *)

Publish(f) ==
  /\ f \notin Unfetchable /\ revision[f] < MaxRevision
  /\ revision' = [revision EXCEPT ![f] = @ + 1]
  /\ UNCHANGED <<handler, oldest>>

(* The oldest images are deleted, or all of them; a number is not used again. *)
Withdraw(f) ==
  /\ \E n \in oldest[f] + 1..revision[f] + 1 : oldest' = [oldest EXCEPT ![f] = n]
  /\ UNCHANGED <<handler, revision>>

(* Every request has been answered: nothing is left to do. *)
Quiescent == (\A r \in Requests : pc[r] = "done") /\ UNCHANGED vars

ServerStep(r) ==
  \/ Reject(r) \/ MakeTempDir(r)
  \/ Join(r) \/ Lead(r) \/ Settle(r) \/ Wake(r)
  \/ CreateClient(r) \/ ParseRef(r) \/ SetRegistryClient(r)
  \/ ReadGetterClient(r) \/ ReadListerClient(r) \/ WriteFile(r)
  \/ Return(r) \/ Recover(r) \/ SendFile(r)

RegistryStep(r) == ListTags(r) \/ PullImage(r)

Next ==
  \/ \E r \in Requests :
       (\E f \in Refs \cup {NoRef} : Receive(r, f)) \/ ServerStep(r) \/ RegistryStep(r)
  \/ \E f \in Refs : Publish(f) \/ Withdraw(f)
  \/ Quiescent

Spec == Init /\ [][Next]_vars

(* Go runs every runnable goroutine; a registry answers unless it is hung. *)
FairHandler(r) ==
  /\ WF_vars(ServerStep(r))
  /\ WF_vars(RegistryStep(r) /\ ref[r] \notin Hung)

FairSpec == Spec /\ \A r \in Requests : FairHandler(r)

-----------------------------------------------------------------------------
(* Types of the variables. *)
TypeOK ==
  /\ pc \in [Requests -> States]
  /\ ref \in [Requests -> Refs \cup {NoRef}]
  /\ dirs \subseteq Requests
  /\ stored \in [Requests -> SUBSET Contents]
  /\ temps \subseteq Requests
  /\ flight \in [Refs -> Requests \cup {Nobody}]
  /\ call \in [Requests -> Requests \cup {Nobody}]
  /\ outcome \in [Requests -> Outcomes]
  /\ shared \in Requests \cup {Nobody}
  /\ getter \in [Requests -> Requests \cup {Nobody}]
  /\ lister \in [Requests -> Requests \cup {Nobody}]
  /\ found \in [Requests -> Nat]
  /\ reply \in [Requests -> [status : Statuses, body : SUBSET Contents]]
  /\ revision \in [Refs -> Nat]
  /\ oldest \in [Refs -> Nat \ {0}]
  /\ opened \in [Requests -> Nat]

(* At most one handler runs the download of a reference (bridge.go:16): two   *)
(* concurrent requests never fetch the same image twice at a time.            *)
SingleFlight ==
  \A r, s \in Requests :
    pc[r] \in Leading /\ pc[s] \in Leading /\ ref[r] = ref[s] => r = s

(* A handler that waits for another one's download waits for a download of    *)
(* its own reference that is running or has a result: it is never left        *)
(* holding a call nobody will finish, or the call of another reference.       *)
WaitersHaveALeader ==
  \A r \in Requests : pc[r] = "wait" =>
    LET leader == call[r] IN
    /\ leader \in Requests /\ ref[leader] = ref[r]
    /\ \/ pc[leader] \in Leading /\ flight[ref[r]] = leader
       \/ Settled(leader) /\ outcome[leader] # "pending"

(* A 200 carries an image of the reference that the request named, and none   *)
(* older than the newest one when the shared download began, whatever was     *)
(* published or deleted since: the tag list, the pull and the file belong to  *)
(* one flight (bridge.go:16-50).                                              *)
ServedFresh ==
  \A r \in Requests : reply[r].status = 200 =>
    \E c \in reply[r].body : /\ reply[r].body = {c}
                             /\ c.ref = ref[r]
                             /\ c.rev > 0
                             /\ opened[call[r]] <= c.rev
                             /\ c.rev <= revision[ref[r]]

(* The handlers that shared a download agree, in whatever order they wake and *)
(* whatever starts between their wake-ups: a download that failed failed for  *)
(* each of them, and those that are sent a file are sent the same one; each   *)
(* may only fail to open it, for itself (routes..go:39-45).                   *)
AgreedAnswer ==
  \A r, s \in Requests :
    pc[r] = "done" /\ pc[s] = "done" /\ call[r] = call[s] /\ call[r] # Nobody =>
      /\ reply[r].status \in {200, 404} <=> reply[s].status \in {200, 404}
      /\ reply[r].status = reply[s].status => reply[r] = reply[s]

(* A download that runs began no earlier than any image of its reference that *)
(* has been answered, although requests join flights that are already on their *)
(* way (bridge.go:16): what they will be answered with is never a step back.  *)
NeverBackwards ==
  \A r, l \in Requests :
    reply[r].status = 200 /\ pc[l] \in Leading /\ ref[l] = ref[r]
      => \A c \in reply[r].body : c.rev <= opened[l]

(* Nothing is ever removed (routes..go:37), so what is on the disk for good   *)
(* is a directory per request that called Do, and in the directory of a       *)
(* download's leader either its one image or, of a write that failed, at most *)
(* a temporary file (files.go:27-38): the followers' directories stay empty.  *)
OneFilePerDownload ==
  \A r \in Requests :
    /\ call[r] # Nobody => r \in dirs
    /\ stored[r] # {} <=> outcome[r] = "file" /\ call[r] = r
    /\ r \in temps => outcome[r] = "error" /\ call[r] = r

(* A download lists and pulls with some client that a flight created, never   *)
(* with the one the Configuration has held since the process started, whose   *)
(* credentials are of that time (root.go:64, pull.go:85-87).                  *)
ClientIsSet ==
  \A r \in Requests :
    pc[r] \in {"tags", "pull"} => getter[r] # Nobody /\ lister[r] # Nobody

(* A handler waits for nothing but the leader of its own flight and, if it is *)
(* one, the registry: neither the shared field nor the flight of another      *)
(* reference blocks it (bridge.go:16, pull.go:64).                            *)
CanRun(r) ==
  /\ pc[r] \notin {"idle", "tags", "pull", "done"} /\ (pc[r] = "wait" => Settled(call[r]))
       => ENABLED <<ServerStep(r)>>_vars
  /\ pc[r] \in {"tags", "pull"} /\ ref[r] \notin Hung
       => ENABLED <<RegistryStep(r) /\ ref[r] \notin Hung>>_vars

BlocksOnlyInWaits == \A r \in Requests : CanRun(r)

(* Every request whose registry is not hung is answered, even while the       *)
(* download of another reference hangs: a stalled flight stalls only its own. *)
Answered ==
  \A r \in Requests :
    (pc[r] = "received" /\ ref[r] \notin Hung) ~> (pc[r] = "done")

(* bridge.go:56 asserts  that what Do returns is a string: the assertion      *)
(* would hold if no handler ever panicked there.                              *)
AssertionHolds == \A r \in Requests : pc[r] # "panic"

-----------------------------------------------------------------------------
(* The abstract promise, and how this state represents it. *)

Phase(state) == CASE state = "idle" -> "idle"
                  [] state \in {"received", "do"} -> "asked"
                  [] state = "done" -> "answered"
                  [] OTHER -> "joined"

Verdict(r) ==
  IF call[r] # Nobody /\ Settled(call[r])
    THEN [known |-> TRUE,
          body |-> IF outcome[call[r]] = "file" THEN stored[call[r]] ELSE {}]
    ELSE [known |-> FALSE, body |-> {}]

Promise == INSTANCE SharedAnswer WITH
  phase <- [r \in Requests |-> Phase(pc[r])],
  asked <- ref,
  members <- [f \in Refs |-> {r \in Requests : flight[f] # Nobody /\ call[r] = flight[f]}],
  floor <- [f \in Refs |-> IF flight[f] = Nobody THEN 0 ELSE opened[flight[f]]],
  verdict <- [r \in Requests |-> Verdict(r)],
  answer <- [r \in Requests |-> reply[r].body],
  published <- revision

(* The handlers, the singleflight group and the download together implement   *)
(* SharedAnswer: one verdict per flight, about the right reference, no staler *)
(* than the flight, delivered unchanged to every request that joined it and   *)
(* does not fail by itself.                                                   *)
ImplementsSharedAnswer == Promise!Spec
=============================================================================
