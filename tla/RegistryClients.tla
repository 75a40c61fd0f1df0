-------------------------- MODULE RegistryClients --------------------------
(* The registry clients of one process: which flags, environment variables    *)
(* and files each is made from, and which of them a download ends up with.    *)
(* The process is "pwo download", with any flags and one download, or "pwo    *)
(* serve", without flags and with many ("pwo publish" makes and stores its    *)
(* client as "pwo download" does); the files are edited while it runs.  The   *)
(* downloads name one repository: its listings share one token of the cache   *)
(* that all the clients of a process share, pulls never use that cache.       *)
EXTENDS Integers

CONSTANTS Downloads,
          Root,      \* the client of the root command: no download made it
          Absent,    \* what there is not: a certificate, a CA, a token
          MaxEdits   \* the bound of the edits

ASSUME ClientAssumption ==
  /\ Root \notin Downloads
  /\ Absent \notin Nat
  /\ MaxEdits \in Nat

Flags == {"cert", "key", "ca", "insecure", "plain"}
Paths == {"cert", "key", "ca", "pwo", "xdg", "home", "designated"}

VARIABLES
  phase,     \* the command: "start", "running", or "exited" with an error
  serving,   \* whether it is pwo serve
  flags,     \* the registry flags it was given
  env,       \* the environment variables it was started with
  file,      \* path -> its rotation, and whether it can be parsed
  edits,
  pc,        \* download -> where it is
  made,      \* download -> the client it has made, or is making
  shared,    \* the client in the Configuration that all downloads share
  getter,    \* download -> the client it pulls with
  lister,    \* download -> the client it lists tags with
  since,     \* download -> the rotation of the credentials when it began
  met,       \* download -> the downloads that ran while it did
  token,     \* the client whose credentials got the token of the process's cache
  sent,      \* download -> that of the cached token its listing sent
  asked      \* download -> that of the token it was given after a refusal

settings == <<serving, flags, env>>
tokens == <<token, sent, asked>>
vars == <<phase, settings, file, edits, pc, made, shared, getter, lister, since, met, tokens>>

-----------------------------------------------------------------------------
(* Settings. *)

(* The directory of the configuration: a variable that is empty is not set.   *)
ConfigHome ==
  IF env.pwo THEN "pwo" ELSE IF env.xdg THEN "xdg" ELSE "home"

(* Mutation: --insecure-skip-tls-verify alone does not ask for TLS settings.  *)
NeedsCertificates ==
  "plain" \notin flags /\ ({"cert", "key"} \subseteq flags \/ "ca" \in flags)

WithTLS ==
  /\ "plain" \notin flags
  /\ {"cert", "key"} \subseteq flags \/ "ca" \in flags \/ "insecure" \in flags

(* The credentials file that is handed over with the TLS settings only; a     *)
(* name that is empty stands for the file of the configuration directory.     *)
CredentialsFile ==
  IF WithTLS /\ env.registry THEN "designated" ELSE ConfigHome

NewClient(d) ==
  [by |-> d, plain |-> FALSE, insecure |-> FALSE,
   cert |-> Absent, key |-> Absent, ca |-> Absent, credentials |-> 0]

Init ==
  /\ phase = "start"
  /\ serving \in BOOLEAN
  /\ flags \in SUBSET Flags /\ (serving => flags = {})
  /\ env \in [pwo : BOOLEAN, xdg : BOOLEAN, registry : BOOLEAN]
  /\ file = [p \in Paths |-> [rotation |-> 0, parses |-> TRUE]]
  /\ edits = 0
  /\ pc = [d \in Downloads |-> "idle"]
  /\ made = [d \in Downloads |-> NewClient(d)]
  /\ shared = NewClient(Root)
  /\ getter = made /\ lister = made
  /\ since = [d \in Downloads |-> 0]
  /\ met = [d \in Downloads |-> {}]
  /\ token = Absent
  /\ sent = [d \in Downloads |-> Absent] /\ asked = sent

Running == {d \in Downloads : pc[d] \notin {"idle", "done", "failed"}}

Goto(d, from, to) == pc[d] = from /\ pc' = [pc EXCEPT ![d] = to]

-----------------------------------------------------------------------------
(* The root command makes a client before any command runs, and every command *)
(* fails when it cannot.                                                      *)
NewRootCmd ==
  /\ phase = "start"
  /\ \/ file[ConfigHome].parses /\ phase' = "running"
        /\ shared' = [shared EXCEPT !.credentials = file[ConfigHome].rotation]
     \/ ~file[ConfigHome].parses /\ phase' = "exited" /\ UNCHANGED shared
  /\ UNCHANGED <<settings, file, edits, pc, made, getter, lister, since, met, tokens>>

-----------------------------------------------------------------------------
(* A download makes its client. *)

NewClientWithParams(d) ==
  /\ phase = "running"
  /\ serving \/ \A e \in Downloads : pc[e] = "idle"
  /\ Goto(d, "idle", IF WithTLS THEN "cert" ELSE "credentials")
  /\ made' = [made EXCEPT ![d] = [@ EXCEPT !.plain = "plain" \in flags,
                                          !.insecure = WithTLS /\ "insecure" \in flags]]
  /\ since' = [since EXCEPT ![d] = file[CredentialsFile].rotation]
  /\ met' = [e \in Downloads |->
       IF e = d THEN Running \cup {d}
       ELSE IF e \in Running THEN met[e] \cup {d} ELSE met[e]]
  /\ UNCHANGED <<phase, settings, file, edits, shared, getter, lister, tokens>>

Fails(d, from) ==
  /\ Goto(d, from, "failed")
  /\ UNCHANGED <<phase, settings, file, edits, made, shared, getter, lister, since, met, tokens>>

(* The two files of the pair are read one after the other.                    *)
ReadCert(d) ==
  \/ /\ {"cert", "key"} \subseteq flags /\ file["cert"].parses
     /\ Goto(d, "cert", "key")
     /\ made' = [made EXCEPT ![d].cert = file["cert"].rotation]
     /\ UNCHANGED <<phase, settings, file, edits, shared, getter, lister, since, met, tokens>>
  \/ {"cert", "key"} \subseteq flags /\ ~file["cert"].parses /\ Fails(d, "cert")
  \/ /\ ~({"cert", "key"} \subseteq flags)
     /\ Goto(d, "cert", "ca")
     /\ UNCHANGED <<phase, settings, file, edits, made, shared, getter, lister, since, met, tokens>>

(* Mutation: the certificate and the key are loaded without comparing them.   *)
ReadAnyKey(d) ==
  /\ file["key"].parses /\ Goto(d, "key", "ca")
  /\ made' = [made EXCEPT ![d].key = file["key"].rotation]
  /\ UNCHANGED <<phase, settings, file, edits, shared, getter, lister, since, met, tokens>>

ReadKey(d) ==
  \/ /\ file["key"].parses /\ file["key"].rotation = made[d].cert
     /\ Goto(d, "key", "ca")
     /\ made' = [made EXCEPT ![d].key = file["key"].rotation]
     /\ UNCHANGED <<phase, settings, file, edits, shared, getter, lister, since, met, tokens>>
  \/ ~(file["key"].parses /\ file["key"].rotation = made[d].cert) /\ Fails(d, "key")

(* Mutation: without --ca-file the client gets a pool that no file holds.     *)
ReadEmptyCA(d) ==
  \/ /\ Goto(d, "ca", "credentials")
     /\ "ca" \in flags => file["ca"].parses
     /\ made' = [made EXCEPT ![d].ca = IF "ca" \in flags THEN file["ca"].rotation ELSE -1]
     /\ UNCHANGED <<phase, settings, file, edits, shared, getter, lister, since, met, tokens>>
  \/ "ca" \in flags /\ ~file["ca"].parses /\ Fails(d, "ca")

ReadCA(d) ==
  \/ /\ Goto(d, "ca", "credentials")
     /\ "ca" \in flags => file["ca"].parses
     /\ made' = IF "ca" \in flags THEN [made EXCEPT ![d].ca = file["ca"].rotation] ELSE made
     /\ UNCHANGED <<phase, settings, file, edits, shared, getter, lister, since, met, tokens>>
  \/ "ca" \in flags /\ ~file["ca"].parses /\ Fails(d, "ca")

(* Mutation: the credentials of the client there is are taken over.           *)
KeepCredentials(d) ==
  /\ Goto(d, "credentials", "share")
  /\ made' = [made EXCEPT ![d].credentials = shared.credentials]
  /\ UNCHANGED <<phase, settings, file, edits, shared, getter, lister, since, met, tokens>>

OpenCredentials(d) ==
  \/ /\ file[CredentialsFile].parses
     /\ Goto(d, "credentials", "share")
     /\ made' = [made EXCEPT ![d].credentials = file[CredentialsFile].rotation]
     /\ UNCHANGED <<phase, settings, file, edits, shared, getter, lister, since, met, tokens>>
  \/ ~file[CredentialsFile].parses /\ Fails(d, "credentials")

-----------------------------------------------------------------------------
(* It stores the client where all downloads do, and reads it back twice.      *)

SetRegistryClient(d) ==
  /\ Goto(d, "share", "getter") /\ shared' = made[d]
  /\ UNCHANGED <<phase, settings, file, edits, made, getter, lister, since, met, tokens>>

ReadGetterClient(d) ==
  /\ Goto(d, "getter", "lister") /\ getter' = [getter EXCEPT ![d] = shared]
  /\ UNCHANGED <<phase, settings, file, edits, made, shared, lister, since, met, tokens>>

ReadListerClient(d) ==
  /\ Goto(d, "lister", "list") /\ lister' = [lister EXCEPT ![d] = shared]
  /\ UNCHANGED <<phase, settings, file, edits, made, shared, getter, since, met, tokens>>

-----------------------------------------------------------------------------
(* It lists the tags, unless it names a version, and pulls.                   *)

(* The token of the cache is sent, when there is one; the registry answers,   *)
(* refuses it (or wants one), or fails.                                       *)
List(d) ==
  /\ \/ Goto(d, "list", "pull") /\ (sent' = sent \/ sent' = [sent EXCEPT ![d] = token])
     \/ Goto(d, "list", "fetch") /\ sent' = [sent EXCEPT ![d] = token]
     \/ Goto(d, "list", "failed") /\ sent' = sent
  /\ UNCHANGED <<phase, settings, file, edits, made, shared, getter, lister, since, met,
                 token, asked>>

(* A token is asked for with the credentials of the client that lists.  The   *)
(* listings that ask for one while another does are given the same.           *)
Fetch(d) ==
  /\ pc[d] = "fetch"
  /\ \E together \in SUBSET {e \in Downloads : pc[e] = "fetch"} :
       /\ d \in together
       /\ \E to \in {"pull", "failed"} :
            /\ pc' = [e \in Downloads |-> IF e \in together THEN to ELSE pc[e]]
            /\ asked' = [e \in Downloads |-> IF e \in together /\ to = "pull" THEN lister[d]
                                            ELSE asked[e]]
            /\ token' = IF to = "pull" THEN lister[d] ELSE token
  /\ UNCHANGED <<phase, settings, file, edits, made, shared, getter, lister, since, met, sent>>

(* The pull logs in with the credentials that its own client has loaded.      *)
Pull(d) ==
  /\ Goto(d, "pull", "done") \/ Goto(d, "pull", "failed")
  /\ UNCHANGED <<phase, settings, file, edits, made, shared, getter, lister, since, met, tokens>>

-----------------------------------------------------------------------------
(* Another process edits a file: its next rotation, or a text that does not   *)
(* parse.  A file that does not exist parses as one without credentials.      *)
Edit(p) ==
  /\ edits < MaxEdits /\ edits' = edits + 1
  /\ \E parses \in BOOLEAN :
       file' = [file EXCEPT ![p] = [rotation |-> @.rotation + 1, parses |-> parses]]
  /\ UNCHANGED <<phase, settings, pc, made, shared, getter, lister, since, met, tokens>>

Download(d) ==
  \/ NewClientWithParams(d)
  \/ ReadCert(d) \/ ReadKey(d) \/ ReadCA(d) \/ OpenCredentials(d)
  \/ SetRegistryClient(d) \/ ReadGetterClient(d) \/ ReadListerClient(d)
  \/ List(d) \/ Fetch(d) \/ Pull(d)

Next ==
  \/ NewRootCmd
  \/ \E d \in Downloads : Download(d)
  \/ \E p \in Paths : Edit(p)

Spec == Init /\ [][Next]_vars

-----------------------------------------------------------------------------
Clients(by) ==
  [by : by, plain : BOOLEAN, insecure : BOOLEAN, cert : Nat \cup {Absent},
   key : Nat \cup {Absent}, ca : Nat \cup {Absent}, credentials : Nat]

AnyClient == Clients(Downloads \cup {Root})

(* Types of the variables. *)
TypeOK ==
  /\ phase \in {"start", "running", "exited"}
  /\ serving \in BOOLEAN /\ flags \in SUBSET Flags
  /\ env \in [pwo : BOOLEAN, xdg : BOOLEAN, registry : BOOLEAN]
  /\ file \in [Paths -> [rotation : Nat, parses : BOOLEAN]]
  /\ edits \in 0..MaxEdits
  /\ pc \in [Downloads -> {"idle", "cert", "key", "ca", "credentials", "share", "getter",
                          "lister", "list", "fetch", "pull", "done", "failed"}]
  /\ made \in [Downloads -> Clients(Downloads)]
  /\ shared \in AnyClient
  /\ getter \in [Downloads -> AnyClient]
  /\ lister \in [Downloads -> AnyClient]
  /\ since \in [Downloads -> Nat]
  /\ met \in [Downloads -> SUBSET Downloads]
  /\ token \in AnyClient \cup {Absent}
  /\ sent \in [Downloads -> AnyClient \cup {Absent}]
  /\ asked \in [Downloads -> AnyClient \cup {Absent}]

Using == {d \in Downloads : pc[d] \in {"list", "fetch", "pull", "done"}}

(* Flags that ask for one thing: a certificate comes with its key, and TLS    *)
(* settings do not come with plain HTTP.                                      *)
Coherent ==
  /\ "cert" \in flags <=> "key" \in flags
  /\ "plain" \in flags => flags = {"plain"}

(* A client connects with nothing that no flag asked for, and with the key of *)
(* its certificate.  When the flags are coherent it has all that they ask     *)
(* for, as their help texts put it (params_flags.go:6-10).                    *)
AsFlagged(client) ==
  LET has == {f \in Flags : CASE f = "cert" -> client.cert # Absent
                              [] f = "key" -> client.key # Absent
                              [] f = "ca" -> client.ca # Absent
                              [] f = "insecure" -> client.insecure
                              [] f = "plain" -> client.plain}
  IN  has \subseteq flags /\ client.key = client.cert /\ (Coherent => has = flags)

(* A download lists and pulls with clients that connect as the flags ask,     *)
(* whichever of the three ways of making a client was taken (client.go:149),  *)
(* and although the files are edited between the reads.  For other than       *)
(* coherent flags only "no more than was asked" holds: the code ignores       *)
(* --cert-file without --key-file, and every TLS flag beside --plain-http.    *)
FlagsHonoured ==
  \A d \in Using : AsFlagged(getter[d]) /\ AsFlagged(lister[d])

(* A client of a download that ran while d did, with credentials as they were *)
(* when that one began, or newer.                                             *)
Current(d, client) == client.by \in met[d] /\ client.credentials >= since[client.by]

(* A download may list and pull with the client of another one, and with two  *)
(* different ones (pull.go:64, :85, :87).  It never does with the client of   *)
(* the root command or of a download that was over before it began, nor with  *)
(* credentials older than the beginning of the download that made the client: *)
(* credentials that are replaced while none runs reach the next pull.  A      *)
(* listing that is refused asks for a token with such credentials too, its    *)
(* own or those of a listing that asks with it.  A token that is not refused  *)
(* may be older than all that (client.go:94), but a download's client got it. *)
CredentialsCurrent ==
  \A d \in Using :
    /\ Current(d, getter[d]) /\ Current(d, lister[d])
    /\ asked[d] # Absent => \E e \in met[d] : Current(e, asked[d])
    /\ sent[d] # Absent =>
         sent[d].by \in Downloads /\ sent[d].credentials >= since[sent[d].by]
=============================================================================
