----------------------- MODULE RegistryClientsProofs -----------------------
(* What RegistryClients guarantees for any number of downloads and edits.     *)
EXTENDS RegistryClients, TLAPS

Pair == {"cert", "key"} \subseteq flags

(* What NewClientWithParams makes of the flags: plain HTTP without any TLS    *)
(* setting, or HTTPS with those that were given, a certificate with its key.  *)
Configured(client) ==
  /\ client.plain <=> "plain" \in flags
  /\ client.insecure <=> "insecure" \in flags /\ ~client.plain
  /\ client.cert # Absent <=> Pair /\ ~client.plain
  /\ client.ca # Absent <=> "ca" \in flags /\ ~client.plain
  /\ client.key = client.cert

Flagged == {client \in AnyClient : Configured(client)}

(* What a client has before its credentials, at each step of its making.      *)
BuiltUpTo(d) ==
  /\ made[d].by = d
  /\ pc[d] = "idle" => made[d] = NewClient(d)
  /\ pc[d] \in {"cert", "key", "ca"} =>
       /\ WithTLS /\ ~made[d].plain /\ made[d].ca = Absent
       /\ made[d].insecure <=> "insecure" \in flags
  /\ pc[d] = "cert" => made[d].cert = Absent /\ made[d].key = Absent
  /\ pc[d] = "key" => Pair /\ made[d].cert # Absent
  /\ pc[d] = "ca" => (made[d].cert # Absent <=> Pair) /\ made[d].key = made[d].cert
  /\ pc[d] \in {"credentials", "share", "getter", "lister", "list", "fetch", "pull", "done"} => made[d] \in Flagged

(* The credentials of a download's client, against those at its beginning.    *)
Fresh(d) ==
  /\ since[d] <= file[CredentialsFile].rotation
  /\ pc[d] \in {"share", "getter", "lister", "list", "fetch", "pull", "done"} => made[d].credentials >= since[d]

(* A client that a download has made.                                         *)
Good(client) ==
  /\ client.by \in Downloads /\ pc[client.by] # "idle"
  /\ client \in Flagged
  /\ client.credentials >= since[client.by]

(* Downloads that run at one time have met, and the clients that are shared   *)
(* after a download has shared its own come from downloads it has met.        *)
Met(d) ==
  /\ d \in Running => Running \subseteq met[d]
  /\ pc[d] \in {"getter", "lister"} => Good(shared) /\ shared.by \in met[d]
  /\ pc[d] \in {"lister", "list", "fetch", "pull", "done"} => Good(getter[d]) /\ getter[d].by \in met[d]
  /\ pc[d] \in {"list", "fetch", "pull", "done"} => Good(lister[d]) /\ lister[d].by \in met[d]

(* The tokens there are were got by clients that downloads have made, those   *)
(* that were asked for by clients of downloads that were met on the way.      *)
Tokens ==
  /\ token # Absent => Good(token)
  /\ \A d \in Downloads :
       /\ sent[d] # Absent => Good(sent[d])
       /\ asked[d] # Absent =>
            Good(asked[d]) /\ pc[d] # "idle" /\ \E e \in met[d] : pc[e] # "idle" /\ asked[d].by \in met[e]

NothingBeforeRoot == phase = "start" => \A d \in Downloads : pc[d] = "idle"

Inv ==
  /\ TypeOK /\ NothingBeforeRoot /\ Tokens
  /\ \A d \in Downloads : BuiltUpTo(d) /\ Fresh(d) /\ Met(d)

(* Setting a field of a client gives a client.                                *)
LEMMA ClientUpdates ==
  ASSUME NEW S, NEW c \in Clients(S), NEW n \in Nat, NEW a \in BOOLEAN, NEW b \in BOOLEAN
  PROVE  /\ [c EXCEPT !.plain = a, !.insecure = b] \in Clients(S)
         /\ [c EXCEPT !.cert = n] \in Clients(S)
         /\ [c EXCEPT !.key = n] \in Clients(S)
         /\ [c EXCEPT !.ca = n] \in Clients(S)
         /\ [c EXCEPT !.credentials = n] \in Clients(S)
BY DEF Clients

LEMMA InitTypes == Init => TypeOK
BY ClientAssumption DEF Flags, Paths, Init, TypeOK, AnyClient, Clients, NewClient, settings

(* The types alone are inductive. *)
LEMMA TypeInvariant == Spec => []TypeOK
<1> USE ClientAssumption DEF Flags, Paths
<1>1. Init => TypeOK
  BY InitTypes
<1>2. TypeOK /\ [Next]_vars => TypeOK'
  <2> SUFFICES ASSUME TypeOK, [Next]_vars PROVE TypeOK'
    OBVIOUS
  <2> USE DEF TypeOK, settings, tokens, Goto
  <2>0. \A p \in Paths : file[p].rotation \in Nat
    OBVIOUS
  <2>s. \A n \in Nat : [shared EXCEPT !.credentials = n] \in AnyClient
    BY ClientUpdates DEF AnyClient
  <2>m. \A d \in Downloads, n \in Nat :
           /\ [made[d] EXCEPT !.cert = n] \in Clients(Downloads)
           /\ [made[d] EXCEPT !.key = n] \in Clients(Downloads)
           /\ [made[d] EXCEPT !.ca = n] \in Clients(Downloads)
           /\ [made[d] EXCEPT !.credentials = n] \in Clients(Downloads)
    <3> TAKE d \in Downloads, n \in Nat
    <3>1. made[d] \in Clients(Downloads)
      OBVIOUS
    <3> QED
      BY <3>1, ClientUpdates
  <2>p. ConfigHome \in Paths /\ CredentialsFile \in Paths
    BY DEF CredentialsFile, ConfigHome
  <2>1. CASE NewRootCmd
    <3>1. file[ConfigHome].rotation \in Nat
      BY <2>0, <2>p
    <3>2. shared' \in AnyClient
      BY <2>1, <2>s, <3>1 DEF NewRootCmd
    <3> QED
      BY <2>1, <3>2 DEF NewRootCmd
  <2>2. ASSUME NEW d \in Downloads, NewClientWithParams(d) PROVE TypeOK'
    <3>1. (WithTLS /\ "insecure" \in flags) \in BOOLEAN /\ ("plain" \in flags) \in BOOLEAN
      BY DEF WithTLS
    <3>3. Running \subseteq Downloads
      BY DEF Running
    <3>4. made' \in [Downloads -> Clients(Downloads)]
      <4>1. made[d] \in Clients(Downloads)
        OBVIOUS
      <4>2. [made[d] EXCEPT !.plain = "plain" \in flags,
                            !.insecure = WithTLS /\ "insecure" \in flags] \in Clients(Downloads)
        BY <3>1, <4>1, ClientUpdates
      <4> QED
        BY <2>2, <4>2 DEF NewClientWithParams
    <3>5. met' \in [Downloads -> SUBSET Downloads]
      BY <2>2, <3>3 DEF NewClientWithParams
    <3>6. since' \in [Downloads -> Nat]
      BY <2>2, <2>0, <2>p DEF NewClientWithParams
    <3> QED
      BY <2>2, <3>4, <3>5, <3>6 DEF NewClientWithParams
  <2>3. ASSUME NEW d \in Downloads, ReadCert(d) PROVE TypeOK'
    <3>1. file["cert"].rotation \in Nat
      BY <2>0
    <3>2. [made EXCEPT ![d] = [made[d] EXCEPT !.cert = file["cert"].rotation]] \in [Downloads -> Clients(Downloads)]
      BY <3>1, <2>m
    <3>3. made' = made \/ made' = [made EXCEPT ![d] = [made[d] EXCEPT !.cert = file["cert"].rotation]]
      BY <2>3 DEF ReadCert, Fails
    <3>4. made' \in [Downloads -> Clients(Downloads)]
      BY <3>2, <3>3
    <3>5. PICK to \in {"key", "ca", "credentials", "share", "failed"} : pc' = [pc EXCEPT ![d] = to]
      BY <2>3 DEF ReadCert, Fails
    <3>6. UNCHANGED settings
      BY <2>3 DEF ReadCert, Fails
    <3>7. UNCHANGED <<phase, file, edits, shared, getter, lister, since, met, tokens>>
      BY <2>3 DEF ReadCert, Fails
    <3> QED
      BY <3>4, <3>5, <3>6, <3>7
  <2>4. ASSUME NEW d \in Downloads, ReadKey(d) PROVE TypeOK'
    <3>1. file["key"].rotation \in Nat
      BY <2>0
    <3>2. [made EXCEPT ![d] = [made[d] EXCEPT !.key = file["key"].rotation]] \in [Downloads -> Clients(Downloads)]
      BY <3>1, <2>m
    <3>3. made' = made \/ made' = [made EXCEPT ![d] = [made[d] EXCEPT !.key = file["key"].rotation]]
      BY <2>4 DEF ReadKey, Fails
    <3>4. made' \in [Downloads -> Clients(Downloads)]
      BY <3>2, <3>3
    <3>5. PICK to \in {"key", "ca", "credentials", "share", "failed"} : pc' = [pc EXCEPT ![d] = to]
      BY <2>4 DEF ReadKey, Fails
    <3>6. UNCHANGED settings
      BY <2>4 DEF ReadKey, Fails
    <3>7. UNCHANGED <<phase, file, edits, shared, getter, lister, since, met, tokens>>
      BY <2>4 DEF ReadKey, Fails
    <3> QED
      BY <3>4, <3>5, <3>6, <3>7
  <2>5. ASSUME NEW d \in Downloads, ReadCA(d) PROVE TypeOK'
    <3>1. file["ca"].rotation \in Nat
      BY <2>0
    <3>2. [made EXCEPT ![d] = [made[d] EXCEPT !.ca = file["ca"].rotation]] \in [Downloads -> Clients(Downloads)]
      BY <3>1, <2>m
    <3>3. made' = made \/ made' = [made EXCEPT ![d] = [made[d] EXCEPT !.ca = file["ca"].rotation]]
      BY <2>5 DEF ReadCA, Fails
    <3>4. made' \in [Downloads -> Clients(Downloads)]
      BY <3>2, <3>3
    <3>5. PICK to \in {"key", "ca", "credentials", "share", "failed"} : pc' = [pc EXCEPT ![d] = to]
      BY <2>5 DEF ReadCA, Fails
    <3>6. UNCHANGED settings
      BY <2>5 DEF ReadCA, Fails
    <3>7. UNCHANGED <<phase, file, edits, shared, getter, lister, since, met, tokens>>
      BY <2>5 DEF ReadCA, Fails
    <3> QED
      BY <3>4, <3>5, <3>6, <3>7
  <2>6. ASSUME NEW d \in Downloads, OpenCredentials(d) PROVE TypeOK'
    <3>1. file[CredentialsFile].rotation \in Nat
      BY <2>0, <2>p
    <3>2. [made EXCEPT ![d] = [made[d] EXCEPT !.credentials = file[CredentialsFile].rotation]] \in [Downloads -> Clients(Downloads)]
      BY <3>1, <2>m
    <3>3. made' = made \/ made' = [made EXCEPT ![d] = [made[d] EXCEPT !.credentials = file[CredentialsFile].rotation]]
      BY <2>6 DEF OpenCredentials, Fails
    <3>4. made' \in [Downloads -> Clients(Downloads)]
      BY <3>2, <3>3
    <3>5. PICK to \in {"key", "ca", "credentials", "share", "failed"} : pc' = [pc EXCEPT ![d] = to]
      BY <2>6 DEF OpenCredentials, Fails
    <3>6. UNCHANGED settings
      BY <2>6 DEF OpenCredentials, Fails
    <3>7. UNCHANGED <<phase, file, edits, shared, getter, lister, since, met, tokens>>
      BY <2>6 DEF OpenCredentials, Fails
    <3> QED
      BY <3>4, <3>5, <3>6, <3>7
  <2>7. ASSUME NEW d \in Downloads, SetRegistryClient(d) PROVE TypeOK'
    BY <2>7 DEF SetRegistryClient, AnyClient, Clients
  <2>8. ASSUME NEW d \in Downloads, ReadGetterClient(d) PROVE TypeOK'
    BY <2>8 DEF ReadGetterClient
  <2>9. ASSUME NEW d \in Downloads, ReadListerClient(d) PROVE TypeOK'
    BY <2>9 DEF ReadListerClient
  <2>10. ASSUME NEW d \in Downloads, List(d) \/ Fetch(d) \/ Pull(d) PROVE TypeOK'
    <3>1. UNCHANGED settings /\ UNCHANGED <<phase, file, edits, made, shared, getter, lister, since, met>>
      BY <2>10 DEF List, Fetch, Pull
    <3>2. CASE List(d)
      BY <3>1, <3>2 DEF List
    <3>3. CASE Fetch(d)
      <4>1. lister[d] \in AnyClient
        OBVIOUS
      <4>2. /\ pc' \in [Downloads -> {"idle", "cert", "key", "ca", "credentials", "share", "getter",
                          "lister", "list", "fetch", "pull", "done", "failed"}]
            /\ token' \in AnyClient \cup {Absent}
            /\ asked' \in [Downloads -> AnyClient \cup {Absent}] /\ sent' = sent
        BY <3>3, <4>1 DEF Fetch
      <4> QED
        BY <3>1, <4>2
    <3>4. CASE Pull(d)
      BY <3>1, <3>4 DEF Pull
    <3> QED
      BY <2>10, <3>2, <3>3, <3>4
  <2>11. ASSUME NEW p \in Paths, Edit(p) PROVE TypeOK'
    <3>1. PICK parses \in BOOLEAN :
            file' = [file EXCEPT ![p] = [rotation |-> file[p].rotation + 1, parses |-> parses]]
      BY <2>11 DEF Edit
    <3>2. [rotation |-> file[p].rotation + 1, parses |-> parses] \in [rotation : Nat, parses : BOOLEAN]
      BY <2>0
    <3>3. file' \in [Paths -> [rotation : Nat, parses : BOOLEAN]]
      BY <3>1, <3>2
    <3>4. edits' \in 0..MaxEdits
      BY <2>11 DEF Edit
    <3> QED
      BY <2>11, <3>3, <3>4 DEF Edit
  <2>12. CASE UNCHANGED vars
    BY <2>12 DEF vars
  <2> QED
    BY <2>1, <2>2, <2>3, <2>4, <2>5, <2>6, <2>7, <2>8, <2>9, <2>10, <2>11, <2>12
       DEF Next, Download
<1> QED
  BY <1>1, <1>2, PTL DEF Spec

(* Using a client moves the downloads on and leaves all but the tokens alone. *)
LEMMA UsingSteps ==
  ASSUME TypeOK, NEW d \in Downloads, List(d) \/ Fetch(d) \/ Pull(d)
  PROVE  /\ UNCHANGED settings
         /\ UNCHANGED <<phase, file, edits, made, shared, getter, lister, since, met>>
         /\ \A e \in Downloads :
              \/ pc'[e] = pc[e]
              \/ pc[e] \in {"list", "fetch", "pull"} /\ pc'[e] \in {"fetch", "pull", "done", "failed"}
BY DEF List, Fetch, Pull, Goto, TypeOK, settings

-----------------------------------------------------------------------------
(* What no step takes back: the settings stay, the files only get newer       *)
(* rotations, a download that has begun keeps its beginning and those it met. *)
LEMMA StepsGoForward ==
  ASSUME TypeOK, TypeOK', [Next]_vars
  PROVE  /\ UNCHANGED settings
         /\ \A p \in Paths : file[p].rotation <= file'[p].rotation
         /\ \A d \in Downloads : pc[d] # "idle" =>
              pc'[d] # "idle" /\ since'[d] = since[d] /\ met[d] \subseteq met'[d]
<1> USE DEF TypeOK, settings, tokens, Goto
<1>1. CASE NewRootCmd
  BY <1>1 DEF NewRootCmd
<1>2. ASSUME NEW d \in Downloads, NewClientWithParams(d)
      PROVE  /\ UNCHANGED settings /\ UNCHANGED file
             /\ \A e \in Downloads : pc[e] # "idle" =>
                  pc'[e] # "idle" /\ since'[e] = since[e] /\ met[e] \subseteq met'[e]
  BY <1>2 DEF NewClientWithParams
<1>3. ASSUME NEW d \in Downloads, ReadCert(d) \/ ReadKey(d) \/ ReadCA(d) \/ OpenCredentials(d)
      PROVE  /\ UNCHANGED settings /\ UNCHANGED <<file, since, met>>
             /\ \E to \in {"key", "ca", "credentials", "share", "failed"} : pc' = [pc EXCEPT ![d] = to]
  BY <1>3 DEF ReadCert, ReadKey, ReadCA, OpenCredentials, Fails
<1>4. ASSUME NEW d \in Downloads,
             SetRegistryClient(d) \/ ReadGetterClient(d) \/ ReadListerClient(d)
      PROVE  /\ UNCHANGED settings /\ UNCHANGED <<file, since, met>>
             /\ \E to \in {"getter", "lister", "list"} : pc' = [pc EXCEPT ![d] = to]
  BY <1>4 DEF SetRegistryClient, ReadGetterClient, ReadListerClient
<1>5. ASSUME NEW p \in Paths, Edit(p)
      PROVE  /\ UNCHANGED settings /\ UNCHANGED <<pc, since, met>>
             /\ \A q \in Paths : file[q].rotation <= file'[q].rotation
  BY <1>5 DEF Edit
<1>6. CASE UNCHANGED vars
  BY <1>6 DEF vars
<1>7. ASSUME UNCHANGED file PROVE \A p \in Paths : file[p].rotation <= file'[p].rotation
  BY <1>7
<1>8. ASSUME NEW d \in Downloads, List(d) \/ Fetch(d) \/ Pull(d)
      PROVE  /\ UNCHANGED settings /\ UNCHANGED <<file, since, met>>
             /\ \A e \in Downloads : pc[e] # "idle" => pc'[e] # "idle"
  BY <1>8, UsingSteps
<1> QED
  BY <1>1, <1>2, <1>3, <1>4, <1>5, <1>6, <1>7, <1>8 DEF Next, Download

(* The settings decide the way a client is made and the form it must have.    *)
LEMMA SettingsStay ==
  ASSUME UNCHANGED settings
  PROVE  /\ WithTLS' = WithTLS /\ Pair' = Pair /\ Flagged' = Flagged
         /\ CredentialsFile' = CredentialsFile
BY DEF settings, WithTLS, Pair, Flagged, Configured, AnyClient, Clients, CredentialsFile, ConfigHome

(* Each step of a client's making sets what the next one relies on.           *)
LEMMA BuiltStep ==
  ASSUME TypeOK, TypeOK', [Next]_vars, \A d \in Downloads : BuiltUpTo(d)
  PROVE  \A d \in Downloads : BuiltUpTo(d)'
<1> SUFFICES ASSUME NEW d \in Downloads PROVE BuiltUpTo(d)'
  OBVIOUS
<1>1. /\ WithTLS' = WithTLS /\ Pair' = Pair /\ Flagged' = Flagged /\ flags' = flags
  BY StepsGoForward, SettingsStay DEF settings
<1>2. made[d] \in Clients(Downloads) /\ made'[d] \in Clients(Downloads)
  BY DEF TypeOK
<1>3. /\ made'[d] \in AnyClient
  BY <1>2 DEF Clients, AnyClient
<1>4. ASSUME pc'[d] = pc[d], made'[d] = made[d] PROVE BuiltUpTo(d)'
  BY <1>1, <1>4 DEF BuiltUpTo, NewClient
<1>5. CASE NewClientWithParams(d)
  <2>1. made[d] = NewClient(d) /\ pc[d] = "idle"
    BY <1>5 DEF NewClientWithParams, Goto, BuiltUpTo
  <2>2. /\ made'[d].by = d /\ made'[d].cert = Absent /\ made'[d].key = Absent
        /\ made'[d].ca = Absent
        /\ made'[d].plain = ("plain" \in flags)
        /\ made'[d].insecure = (WithTLS /\ "insecure" \in flags)
    BY <1>5, <2>1 DEF NewClientWithParams, NewClient, TypeOK
  <2>3. CASE WithTLS
    <3>1. pc'[d] = "cert" /\ "plain" \notin flags
      BY <1>5, <2>3 DEF NewClientWithParams, Goto, TypeOK, WithTLS
    <3> QED
      BY <1>1, <2>2, <2>3, <3>1 DEF BuiltUpTo
  <2>4. CASE ~WithTLS
    <3>1. pc'[d] = "credentials"
      BY <1>5, <2>4 DEF NewClientWithParams, Goto, TypeOK
    <3>2. Configured(made'[d])
      BY <2>2, <2>4 DEF Configured, Pair, WithTLS
    <3> QED
      BY <1>1, <1>3, <2>2, <3>1, <3>2 DEF BuiltUpTo, Flagged
  <2> QED
    BY <2>3, <2>4
<1>6. CASE ReadCert(d)
  <2>1. CASE ~Pair
    BY <1>1, <1>6, <2>1 DEF ReadCert, Fails, Goto, BuiltUpTo, Pair, TypeOK
  <2>2. CASE Pair /\ pc'[d] = "key"
    <3>1. made'[d] = [made[d] EXCEPT !.cert = file["cert"].rotation] /\ pc[d] = "cert"
      BY <1>6, <2>2 DEF ReadCert, Fails, Goto, Pair, TypeOK
    <3>2. file["cert"].rotation \in Nat
      BY DEF TypeOK, Paths
    <3>3. /\ made'[d].cert # Absent /\ made'[d].by = made[d].by
          /\ made'[d].plain = made[d].plain /\ made'[d].ca = made[d].ca
          /\ made'[d].insecure = made[d].insecure
      BY <1>2, <3>1, <3>2, ClientAssumption DEF Clients
    <3> QED
      BY <1>1, <2>2, <3>1, <3>3 DEF BuiltUpTo
  <2>3. CASE pc'[d] = "failed" /\ made'[d] = made[d]
    BY <2>3 DEF BuiltUpTo
  <2> QED
    BY <1>6, <2>1, <2>2, <2>3 DEF ReadCert, Fails, Goto, Pair, TypeOK
<1>7. CASE ReadKey(d)
  <2>1. CASE pc'[d] = "ca"
    <3>1. /\ made'[d] = [made[d] EXCEPT !.key = file["key"].rotation] /\ pc[d] = "key"
          /\ file["key"].rotation = made[d].cert
      BY <1>7, <2>1 DEF ReadKey, Fails, Goto, TypeOK
    <3>2. /\ made'[d].key = made'[d].cert /\ made'[d].by = made[d].by
          /\ made'[d].plain = made[d].plain /\ made'[d].ca = made[d].ca
          /\ made'[d].insecure = made[d].insecure /\ made'[d].cert = made[d].cert
      BY <1>2, <3>1 DEF Clients
    <3> QED
      BY <1>1, <2>1, <3>1, <3>2 DEF BuiltUpTo
  <2>2. CASE pc'[d] = "failed" /\ made'[d] = made[d]
    BY <2>2 DEF BuiltUpTo
  <2> QED
    BY <1>7, <2>1, <2>2 DEF ReadKey, Fails, Goto, TypeOK
<1>8. CASE ReadCA(d)
  <2>1. CASE pc'[d] = "credentials"
    <3>1. /\ pc[d] = "ca"
          /\ made'[d] = IF "ca" \in flags THEN [made[d] EXCEPT !.ca = file["ca"].rotation]
                                          ELSE made[d]
      BY <1>8, <2>1 DEF ReadCA, Fails, Goto, TypeOK
    <3>2. file["ca"].rotation \in Nat
      BY DEF TypeOK, Paths
    <3>3. /\ made'[d].key = made[d].key /\ made'[d].by = made[d].by
          /\ made'[d].plain = made[d].plain
          /\ made'[d].insecure = made[d].insecure /\ made'[d].cert = made[d].cert
          /\ made'[d].ca = IF "ca" \in flags THEN file["ca"].rotation ELSE made[d].ca
      BY <1>2, <3>1 DEF Clients
    <3>4. Configured(made'[d])
      BY <3>1, <3>2, <3>3, ClientAssumption DEF BuiltUpTo, Configured, WithTLS, Pair
    <3> QED
      BY <1>1, <1>3, <2>1, <3>3, <3>4 DEF BuiltUpTo, Flagged
  <2>2. CASE pc'[d] = "failed" /\ made'[d] = made[d]
    BY <2>2 DEF BuiltUpTo
  <2> QED
    BY <1>8, <2>1, <2>2 DEF ReadCA, Fails, Goto, TypeOK
<1>9. CASE OpenCredentials(d)
  <2>1. CASE pc'[d] = "share"
    <3>1. /\ pc[d] = "credentials"
          /\ made'[d] = [made[d] EXCEPT !.credentials = file[CredentialsFile].rotation]
      BY <1>9, <2>1 DEF OpenCredentials, Fails, Goto, TypeOK
    <3>2. /\ made'[d].key = made[d].key /\ made'[d].by = made[d].by
          /\ made'[d].plain = made[d].plain /\ made'[d].ca = made[d].ca
          /\ made'[d].insecure = made[d].insecure /\ made'[d].cert = made[d].cert
      BY <1>2, <3>1 DEF Clients
    <3>3. Configured(made'[d])
      BY <3>1, <3>2 DEF BuiltUpTo, Flagged, Configured
    <3> QED
      BY <1>1, <1>3, <2>1, <3>2, <3>3 DEF BuiltUpTo, Flagged
  <2>2. CASE pc'[d] = "failed" /\ made'[d] = made[d]
    BY <2>2 DEF BuiltUpTo
  <2> QED
    BY <1>9, <2>1, <2>2 DEF OpenCredentials, Fails, Goto, TypeOK
<1>10. CASE SetRegistryClient(d) \/ ReadGetterClient(d) \/ ReadListerClient(d)
  <2>1. /\ made'[d] = made[d]
        /\ pc[d] \in {"share", "getter", "lister"}
        /\ pc'[d] \in {"getter", "lister", "list", "fetch", "pull", "done", "failed"}
    BY <1>10 DEF SetRegistryClient, ReadGetterClient, ReadListerClient, Goto, TypeOK
  <2> QED
    BY <1>1, <2>1 DEF BuiltUpTo
<1>11. ASSUME NEW e \in Downloads, e # d, Download(e),
              ~(List(e) \/ Fetch(e) \/ Pull(e))
       PROVE  pc'[d] = pc[d] /\ made'[d] = made[d]
  BY <1>11 DEF Download, NewClientWithParams, ReadCert, ReadKey, ReadCA, OpenCredentials,
               SetRegistryClient, ReadGetterClient, ReadListerClient, Fails, Goto, TypeOK
<1>12. ASSUME NewRootCmd \/ (\E p \in Paths : Edit(p)) \/ UNCHANGED vars
       PROVE  pc'[d] = pc[d] /\ made'[d] = made[d]
  BY <1>12 DEF NewRootCmd, Edit, vars
<1>13. ASSUME NEW e \in Downloads, List(e) \/ Fetch(e) \/ Pull(e) PROVE BuiltUpTo(d)'
  <2>1. CASE pc'[d] = pc[d]
    BY <1>4, <1>13, <2>1, UsingSteps
  <2>2. CASE pc[d] \in {"list", "fetch", "pull"} /\ pc'[d] \in {"fetch", "pull", "done", "failed"}
    <3>1. made'[d] = made[d]
      BY <1>13, UsingSteps
    <3> QED
      BY <1>1, <2>2, <3>1 DEF BuiltUpTo
  <2> QED
    BY <1>13, <2>1, <2>2, UsingSteps
<1> QED
  BY <1>4, <1>5, <1>6, <1>7, <1>8, <1>9, <1>10, <1>11, <1>12, <1>13 DEF Next, Download

(* Credentials are read after the beginning of the download that reads them.  *)
LEMMA FreshStep ==
  ASSUME TypeOK, TypeOK', [Next]_vars, \A d \in Downloads : Fresh(d)
  PROVE  \A d \in Downloads : Fresh(d)'
<1> SUFFICES ASSUME NEW d \in Downloads PROVE Fresh(d)'
  OBVIOUS
<1> DEFINE now == file[CredentialsFile].rotation
           next == file'[CredentialsFile].rotation
<1>1. CredentialsFile' = CredentialsFile /\ CredentialsFile \in Paths
  BY StepsGoForward, SettingsStay DEF CredentialsFile, ConfigHome, Paths
<1>2. now \in Nat /\ next \in Nat /\ now <= next /\ since[d] \in Nat /\ since'[d] \in Nat
  BY <1>1, StepsGoForward DEF TypeOK
<1>3. ASSUME since'[d] = since[d], made'[d] = made[d],
             pc'[d] \in {"share", "getter", "lister", "list", "fetch", "pull", "done"}
               => pc[d] \in {"share", "getter", "lister", "list", "fetch", "pull", "done"}
      PROVE  Fresh(d)'
  BY <1>1, <1>2, <1>3 DEF Fresh
<1>4. CASE NewClientWithParams(d)
  <2>1. since'[d] = now /\ next = now /\ pc'[d] \in {"cert", "credentials"}
    BY <1>4 DEF NewClientWithParams, Goto, TypeOK
  <2> QED
    BY <1>1, <1>2, <2>1 DEF Fresh
<1>5. CASE OpenCredentials(d)
  <2>1. CASE pc'[d] = "share"
    <3>1. since'[d] = since[d] /\ made'[d] = [made[d] EXCEPT !.credentials = now]
      BY <1>5, <2>1 DEF OpenCredentials, Fails, Goto, TypeOK
    <3>2. made'[d].credentials = now
      BY <3>1 DEF TypeOK, Clients
    <3> QED
      BY <1>1, <1>2, <3>1, <3>2 DEF Fresh
  <2>2. CASE pc'[d] = "failed" /\ since'[d] = since[d] /\ made'[d] = made[d]
    BY <1>3, <2>2
  <2> QED
    BY <1>5, <2>1, <2>2 DEF OpenCredentials, Fails, Goto, TypeOK
<1>6. CASE ReadCert(d) \/ ReadKey(d) \/ ReadCA(d)
  <2>1. since'[d] = since[d] /\ pc'[d] \in {"key", "ca", "credentials", "failed"}
    BY <1>6 DEF ReadCert, ReadKey, ReadCA, Fails, Goto, TypeOK
  <2> QED
    BY <1>1, <1>2, <2>1 DEF Fresh
<1>7. CASE SetRegistryClient(d) \/ ReadGetterClient(d) \/ ReadListerClient(d)
  BY <1>3, <1>7 DEF SetRegistryClient, ReadGetterClient, ReadListerClient, Goto, TypeOK
<1>10. ASSUME NEW e \in Downloads, List(e) \/ Fetch(e) \/ Pull(e) PROVE Fresh(d)'
  BY <1>3, <1>10, UsingSteps
<1>8. ASSUME NEW e \in Downloads, e # d, Download(e), ~(List(e) \/ Fetch(e) \/ Pull(e))
      PROVE  pc'[d] = pc[d] /\ made'[d] = made[d] /\ since'[d] = since[d]
  BY <1>8 DEF Download, NewClientWithParams, ReadCert, ReadKey, ReadCA, OpenCredentials,
              SetRegistryClient, ReadGetterClient, ReadListerClient, Fails, Goto, TypeOK
<1>9. ASSUME NewRootCmd \/ (\E p \in Paths : Edit(p)) \/ UNCHANGED vars
      PROVE  pc'[d] = pc[d] /\ made'[d] = made[d] /\ since'[d] = since[d]
  BY <1>9 DEF NewRootCmd, Edit, vars
<1> QED
  BY <1>3, <1>4, <1>5, <1>6, <1>7, <1>8, <1>9, <1>10 DEF Next, Download

(* A client that was good stays good.                                         *)
LEMMA GoodStays ==
  ASSUME TypeOK, TypeOK', [Next]_vars, NEW client, Good(client)
  PROVE  /\ client.by \in Downloads /\ pc'[client.by] # "idle"
         /\ client \in Flagged' /\ client.credentials >= since'[client.by]
BY StepsGoForward, SettingsStay DEF Good

(* Downloads that overlap know of each other, and share good clients.         *)
LEMMA MetStep ==
  ASSUME TypeOK, TypeOK', [Next]_vars, NothingBeforeRoot,
         \A d \in Downloads : BuiltUpTo(d) /\ Fresh(d) /\ Met(d)
  PROVE  \A d \in Downloads : Met(d)'
<1> SUFFICES ASSUME NEW d \in Downloads PROVE Met(d)'
  OBVIOUS
<1>1. ASSUME NEW client, NEW new, new = client, Good(client)
      PROVE  /\ new.by \in Downloads /\ pc'[new.by] # "idle"
             /\ new \in Flagged' /\ new.credentials >= since'[new.by]
  BY <1>1, GoodStays
<1>2. pc[d] # "idle" => met[d] \subseteq met'[d]
  BY StepsGoForward
<1>3. CASE \E e \in Downloads : NewClientWithParams(e)
  <2>1. PICK e \in Downloads : NewClientWithParams(e)
    BY <1>3
  <2>2. /\ pc[e] = "idle" /\ UNCHANGED <<shared, getter, lister>>
        /\ Running' = Running \cup {e}
        /\ met'[d] = IF d = e THEN Running \cup {e}
                    ELSE IF d \in Running THEN met[d] \cup {e} ELSE met[d]
    BY <2>1 DEF NewClientWithParams, Running, Goto, TypeOK
  <2>3. CASE d = e
    <3>1. pc'[d] \in {"cert", "credentials"}
      BY <2>1, <2>3 DEF NewClientWithParams, Goto, TypeOK
    <3> QED
      BY <2>2, <2>3, <3>1 DEF Met
  <2>4. CASE d # e
    <3>1. pc'[d] = pc[d]
      BY <2>1, <2>4 DEF NewClientWithParams, Goto, TypeOK
    <3>2. /\ d \in Running' => Running' \subseteq met'[d]
      BY <2>2, <2>4, <3>1 DEF Met
    <3> QED
      BY <1>1, <1>2, <2>2, <3>1, <3>2 DEF Met, Good
  <2> QED
    BY <2>3, <2>4
<1>4. ASSUME Running' \subseteq Running
      PROVE  d \in Running' => Running' \subseteq met'[d]
  BY <1>2, <1>4 DEF Met, Running
<1>5. ASSUME Running' \subseteq Running, UNCHANGED <<shared, getter, lister>>,
             pc'[d] = pc[d] \/ pc'[d] \in {"key", "ca", "credentials", "share", "failed"}
                \/ (pc[d] \in {"list", "fetch", "pull"} /\ pc'[d] \in {"fetch", "pull", "done"})
      PROVE  Met(d)'
  BY <1>1, <1>2, <1>4, <1>5 DEF Met, Good
<1>6. ASSUME NEW e \in Downloads, ReadCert(e) \/ ReadKey(e) \/ ReadCA(e) \/ OpenCredentials(e)
      PROVE  Met(d)'
  <2>1. /\ UNCHANGED <<shared, getter, lister>>
        /\ pc[e] \in {"cert", "key", "ca", "credentials"}
        /\ \E to \in {"key", "ca", "credentials", "share", "failed"} : pc' = [pc EXCEPT ![e] = to]
    BY <1>6 DEF ReadCert, ReadKey, ReadCA, OpenCredentials, Fails, Goto
  <2>2. Running' \subseteq Running
    BY <2>1 DEF Running, TypeOK
  <2> QED
    BY <1>5, <2>1, <2>2 DEF TypeOK
<1>7. ASSUME NEW e \in Downloads, SetRegistryClient(e) PROVE Met(d)'
  <2>1. /\ pc[e] = "share" /\ pc' = [pc EXCEPT ![e] = "getter"] /\ shared' = made[e]
        /\ UNCHANGED <<getter, lister>>
    BY <1>7 DEF SetRegistryClient, Goto
  <2>2. Running' = Running /\ e \in Running
    BY <2>1 DEF Running, TypeOK
  <2>3. Good(made[e]) /\ made[e].by = e
    BY <2>1 DEF BuiltUpTo, Fresh, Good
  <2>4. d \in Running => e \in met'[d]
    BY <1>2, <2>2 DEF Met, Running
  <2>5. pc'[d] \in {"getter", "lister"} => d \in Running
    BY <2>1, <2>2 DEF Running, TypeOK
  <2>6. pc'[d] \in {"getter", "lister"} => Good(shared)' /\ shared'.by \in met'[d]
    BY <1>1, <2>1, <2>3, <2>4, <2>5 DEF Good
  <2>7. pc'[d] \in {"lister", "list", "fetch", "pull", "done"} => pc[d] = pc'[d]
    BY <2>1 DEF TypeOK
  <2> QED
    BY <1>1, <1>2, <1>4, <2>1, <2>2, <2>6, <2>7 DEF Met, Good
<1>8. ASSUME NEW e \in Downloads, ReadGetterClient(e) PROVE Met(d)'
  <2>1. /\ pc[e] = "getter" /\ pc' = [pc EXCEPT ![e] = "lister"]
        /\ getter' = [getter EXCEPT ![e] = shared] /\ UNCHANGED <<shared, lister>>
    BY <1>8 DEF ReadGetterClient, Goto
  <2>2. Running' = Running
    BY <2>1 DEF Running, TypeOK
  <2>3. CASE d = e
    <3>1. pc'[d] = "lister" /\ getter'[d] = shared /\ shared' = shared
      BY <2>1, <2>3 DEF TypeOK
    <3> QED
      BY <1>1, <1>2, <1>4, <2>1, <2>2, <2>3, <3>1 DEF Met, Good
  <2>4. CASE d # e
    <3>1. pc'[d] = pc[d] /\ getter'[d] = getter[d]
      BY <2>1, <2>4 DEF TypeOK
    <3> QED
      BY <1>1, <1>2, <1>4, <2>1, <2>2, <3>1 DEF Met, Good
  <2> QED
    BY <2>3, <2>4
<1>9. ASSUME NEW e \in Downloads, ReadListerClient(e) PROVE Met(d)'
  <2>1. /\ pc[e] = "lister" /\ pc' = [pc EXCEPT ![e] = "list"]
        /\ lister' = [lister EXCEPT ![e] = shared] /\ UNCHANGED <<shared, getter>>
    BY <1>9 DEF ReadListerClient, Goto
  <2>2. Running' = Running
    BY <2>1 DEF Running, TypeOK
  <2>3. CASE d = e
    <3>1. pc'[d] = "list" /\ lister'[d] = shared /\ getter'[d] = getter[d]
      BY <2>1, <2>3 DEF TypeOK
    <3> QED
      BY <1>1, <1>2, <1>4, <2>1, <2>2, <2>3, <3>1 DEF Met, Good
  <2>4. CASE d # e
    <3>1. pc'[d] = pc[d] /\ lister'[d] = lister[d]
      BY <2>1, <2>4 DEF TypeOK
    <3> QED
      BY <1>1, <1>2, <1>4, <2>1, <2>2, <3>1 DEF Met, Good
  <2> QED
    BY <2>3, <2>4
<1>10. ASSUME NEW e \in Downloads, List(e) \/ Fetch(e) \/ Pull(e) PROVE Met(d)'
  <2>1. Running' \subseteq Running
    BY <1>10, UsingSteps DEF Running, TypeOK
  <2> QED
    BY <1>5, <1>10, <2>1, UsingSteps
<1>11. CASE NewRootCmd
  <2>1. pc'[d] = "idle"
    BY <1>11 DEF NewRootCmd, NothingBeforeRoot
  <2> QED
    BY <2>1 DEF Met, Running
<1>12. CASE (\E p \in Paths : Edit(p)) \/ UNCHANGED vars
  <2>1. UNCHANGED <<shared, getter, lister, pc>>
    BY <1>12 DEF Edit, vars
  <2> QED
    BY <1>5, <2>1 DEF Running
<1> QED
  BY <1>3, <1>6, <1>7, <1>8, <1>9, <1>10, <1>11, <1>12 DEF Next, Download

(* A token is asked for with a good client, for listings that run together.   *)
LEMMA TokensStep ==
  ASSUME TypeOK, TypeOK', [Next]_vars, Tokens, \A d \in Downloads : Met(d)
  PROVE  Tokens'
<1>1. ASSUME NEW client, NEW new, new = client, Good(client)
      PROVE  /\ new.by \in Downloads /\ pc'[new.by] # "idle"
             /\ new \in Flagged' /\ new.credentials >= since'[new.by]
  BY <1>1, GoodStays
<1>2. ASSUME NEW d \in Downloads, asked[d] # Absent
      PROVE  pc'[d] # "idle" /\ \E e \in met'[d] : pc'[e] # "idle" /\ asked[d].by \in met'[e]
  <2>1. PICK e \in met[d] : pc[e] # "idle" /\ asked[d].by \in met[e]
    BY <1>2 DEF Tokens
  <2>2. e \in Downloads /\ pc[d] # "idle"
    BY <1>2 DEF TypeOK, Tokens
  <2> QED
    BY <2>1, <2>2, StepsGoForward
<1>3. CASE UNCHANGED tokens
  BY <1>1, <1>2, <1>3 DEF Tokens, tokens, Good
<1>4. ASSUME NEW d \in Downloads, List(d) PROVE Tokens'
  <2>1. UNCHANGED <<token, asked>> /\ (sent' = sent \/ sent' = [sent EXCEPT ![d] = token])
    BY <1>4 DEF List
  <2>2. ASSUME NEW e \in Downloads PROVE sent'[e] = sent[e] \/ sent'[e] = token
    BY <2>1 DEF TypeOK
  <2> QED
    BY <1>1, <1>2, <2>1, <2>2 DEF Tokens, Good
<1>5. ASSUME NEW d \in Downloads, Fetch(d) PROVE Tokens'
  <2>1. PICK together \in SUBSET {e \in Downloads : pc[e] = "fetch"}, to \in {"pull", "failed"} :
          /\ d \in together
          /\ asked' = [e \in Downloads |-> IF e \in together /\ to = "pull" THEN lister[d]
                                          ELSE asked[e]]
          /\ token' = IF to = "pull" THEN lister[d] ELSE token
    BY <1>5 DEF Fetch
  <2>2. pc[d] = "fetch" /\ sent' = sent
    BY <1>5 DEF Fetch
  <2>3. Good(lister[d]) /\ lister[d].by \in met[d]
    BY <2>2 DEF Met
  <2>4. ASSUME NEW e \in together
        PROVE  pc'[e] # "idle" /\ d \in met'[e] /\ pc'[d] # "idle" /\ lister[d].by \in met'[d]
    <3>1. e \in Running /\ d \in Running
      BY <2>1, <2>2 DEF Running
    <3>2. d \in met[e]
      BY <3>1 DEF Met, Running
    <3> QED
      BY <2>2, <2>3, <3>1, <3>2, StepsGoForward DEF Running
  <2>5. ASSUME NEW e \in Downloads, asked'[e] # Absent
        PROVE  \/ Good(asked[e]) /\ asked'[e] = asked[e] /\ asked[e] # Absent
               \/ asked'[e] = lister[d] /\ e \in together
    BY <2>1, <2>5 DEF Tokens
  <2>6. ASSUME NEW e \in Downloads, asked'[e] # Absent
        PROVE  Good(asked[e])' /\ pc'[e] # "idle" /\ \E x \in met'[e] : pc'[x] # "idle" /\ asked'[e].by \in met'[x]
    BY <1>1, <1>2, <2>3, <2>4, <2>5, <2>6 DEF Good
  <2>7. token' # Absent => Good(token)'
    BY <1>1, <2>1, <2>3 DEF Tokens, Good
  <2>8. ASSUME NEW e \in Downloads, sent'[e] # Absent PROVE Good(sent[e])'
    BY <1>1, <2>2, <2>8 DEF Tokens, Good
  <2> QED
    BY <2>6, <2>7, <2>8 DEF Tokens
<1>6. ASSUME NEW d \in Downloads, Download(d), ~(List(d) \/ Fetch(d)) PROVE UNCHANGED tokens
  BY <1>6 DEF Download, NewClientWithParams, ReadCert, ReadKey, ReadCA, OpenCredentials,
              SetRegistryClient, ReadGetterClient, ReadListerClient, Pull, Fails
<1>7. ASSUME NewRootCmd \/ (\E p \in Paths : Edit(p)) \/ UNCHANGED vars PROVE UNCHANGED tokens
  BY <1>7 DEF NewRootCmd, Edit, vars
<1> QED
  BY <1>3, <1>4, <1>5, <1>6, <1>7 DEF Next

-----------------------------------------------------------------------------
(* Inv is inductive. *)
LEMMA InvHolds == Spec => []Inv
<1>1. Init => TypeOK /\ NothingBeforeRoot /\ Tokens /\ \A d \in Downloads : BuiltUpTo(d) /\ Fresh(d) /\ Met(d)
  <2> SUFFICES ASSUME Init PROVE NothingBeforeRoot /\ Tokens /\ \A d \in Downloads : BuiltUpTo(d) /\ Fresh(d) /\ Met(d)
    BY InitTypes
  <2>1. NothingBeforeRoot
    BY DEF Init, NothingBeforeRoot
  <2>2. ASSUME NEW d \in Downloads PROVE pc[d] = "idle" /\ made[d] = NewClient(d) /\ since[d] = 0
    BY DEF Init
  <2>3. ASSUME NEW d \in Downloads PROVE BuiltUpTo(d)
    BY <2>2 DEF BuiltUpTo, NewClient
  <2>4. ASSUME NEW d \in Downloads PROVE Fresh(d)
    <3>1. CredentialsFile \in Paths
      BY DEF CredentialsFile, ConfigHome, Paths
    <3>2. file[CredentialsFile].rotation = 0
      BY <3>1 DEF Init
    <3> QED
      BY <2>2, <3>2 DEF Fresh
  <2>5. ASSUME NEW d \in Downloads PROVE Met(d)
    BY <2>2 DEF Met, Running
  <2>6. Tokens
    BY DEF Init, Tokens
  <2> QED
    BY <2>1, <2>3, <2>4, <2>5, <2>6
<1>2. TypeOK /\ TypeOK' /\ Inv /\ [Next]_vars => Inv'
  <2> SUFFICES ASSUME TypeOK, TypeOK', Inv, [Next]_vars PROVE Inv'
    OBVIOUS
  <2>1. NothingBeforeRoot'
    <3>1. CASE phase' = "start"
      <4>2. ASSUME NEW d \in Downloads, Download(d)
            PROVE  phase' = phase /\ (phase = "running" \/ pc[d] # "idle")
        <5>1. CASE NewClientWithParams(d)
          BY <5>1 DEF NewClientWithParams
        <5>2. CASE ReadCert(d) \/ ReadKey(d) \/ ReadCA(d) \/ OpenCredentials(d)
          BY <5>2 DEF ReadCert, ReadKey, ReadCA, OpenCredentials, Fails, Goto
        <5>3. CASE SetRegistryClient(d) \/ ReadGetterClient(d) \/ ReadListerClient(d)
          BY <5>3 DEF SetRegistryClient, ReadGetterClient, ReadListerClient, Goto
        <5>4. CASE List(d) \/ Fetch(d) \/ Pull(d)
          BY <5>4 DEF List, Fetch, Pull, Goto
        <5> QED
          BY <4>2, <5>1, <5>2, <5>3, <5>4 DEF Download
      <4>3. ~\E d \in Downloads : Download(d)
        BY <3>1, <4>2 DEF Inv, NothingBeforeRoot
      <4>1. phase = "start" /\ pc' = pc
        BY <3>1, <4>3 DEF Next, NewRootCmd, Edit, vars
      <4> QED
        BY <4>1 DEF Inv, NothingBeforeRoot
    <3> QED
      BY <3>1 DEF NothingBeforeRoot
  <2> QED
    BY <2>1, BuiltStep, FreshStep, MetStep, TokensStep DEF Inv
<1> QED
  BY <1>1, <1>2, TypeInvariant, PTL DEF Spec, Inv

(* Every variable keeps its type, whatever the settings, files and order.     *)
THEOREM TypesHold == Spec => []TypeOK
BY TypeInvariant

(* Whatever a download lists and pulls with connects with what the flags ask  *)
(* for and, when the flags are coherent, with all that they ask for.          *)
THEOREM FlagsHonouredHolds == Spec => []FlagsHonoured
<1>1. ASSUME TypeOK, NEW client \in Flagged PROVE AsFlagged(client)
  <2>1. Configured(client) /\ flags \subseteq Flags
    BY <1>1 DEF Flagged, TypeOK
  <2> QED
    BY <2>1 DEF Configured, Pair, AsFlagged, Coherent, Flags
<1>2. Inv => FlagsHonoured
  BY <1>1 DEF Inv, FlagsHonoured, Using, Met, Good
<1> QED
  BY <1>2, InvHolds, PTL

(* No download uses the client of the root command, one of a download that    *)
(* was over, or credentials older than the download that read them; a refused *)
(* listing asks for its token with such a client, or with one of a listing    *)
(* that asks together with it.                                                *)
THEOREM CredentialsCurrentHolds == Spec => []CredentialsCurrent
<1>1. Inv => CredentialsCurrent
  <2> SUFFICES ASSUME Inv, NEW d \in Using
               PROVE  /\ Current(d, getter[d]) /\ Current(d, lister[d])
                      /\ asked[d] # Absent => \E e \in met[d] : Current(e, asked[d])
                      /\ sent[d] # Absent =>
                           sent[d].by \in Downloads /\ sent[d].credentials >= since[sent[d].by]
    BY DEF CredentialsCurrent
  <2> d \in Downloads /\ pc[d] \in {"list", "fetch", "pull", "done"}
    BY DEF Using
  <2>1. Current(d, getter[d]) /\ Current(d, lister[d])
    BY DEF Inv, Met, Good, Current
  <2>2. asked[d] # Absent => \E e \in met[d] : Current(e, asked[d])
    BY DEF Inv, Tokens, Good, Current
  <2>3. sent[d] # Absent =>
          sent[d].by \in Downloads /\ sent[d].credentials >= since[sent[d].by]
    BY DEF Inv, Tokens, Good
  <2> QED
    BY <2>1, <2>2, <2>3
<1> QED
  BY <1>1, InvHolds, PTL
=============================================================================
