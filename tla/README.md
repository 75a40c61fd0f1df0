# Verification of proxy-wasm-oci in TLA+

`pwo` packages Proxy-WASM extensions as OCI images. It publishes them, downloads them, and
serves them to Envoy through an HTTP bridge. This directory holds TLA+ models of its parts, the
TLC configurations that check them, and TLAPS proofs. `PROJECT.json` maps every
definition to the lines it models.

## 1. The system

| Component | State it keeps | Operations | What is hard |
|---|---|---|---|
| HTTP bridge, `pkg/server` | in-flight downloads (`singleflight.Group`), one shared `registry.Configuration`, one temporary directory per request | `GET /?ref=` | handlers run concurrently, share a download, then each opens and sends the leader's file; a registry may hang; failures at every step, some of them of one handler only |
| Downloader, `pkg/downloader`, `cmd/download.go` | none of its own (a getter and a client per download) | resolve a version, pull, write the file | the tag list is read before the pull, others publish in between; two spellings of build metadata |
| Registry images, `pkg/registry` (`Push`, `Pull`, `Tags`) | the registry: blobs, manifests, tags | push and pull one tag | several requests per operation, each can fail; concurrent pushes, retags, deletions |
| Atomic file write, `pkg/utils/files.go` | a temporary file, the destination | `AtomicWriteFile` | rival writers, failed system calls, kills, two devices |
| Publisher, `pkg/publisher`, `pkg/common`, `cmd/publish.go` | none (reads two files) | `pwo publish` | files are checked, then read; names glued together; metadata not validated |
| Registry clients, `pkg/registry` (options, TLS, params), `pkg/config`, `cmd/root.go` | a client: credentials, TLS settings, plain HTTP; the one that the `Configuration` shares; the token cache of the process | `newRootCmd`, `NewClientWithParams`, `SetRegistryClient` | three ways of making a client, each of which honours some settings; files read one after the other while others replace them; one field for all clients; tokens that outlive the credentials they were got with |
| Serve command, `cmd/serve.go`, `Server.Start` | a WaitGroup, a listener, a context | start, graceful shutdown | `wg.Add` beside the goroutine it counts; a cancellation before, while or after Listen starts; a listener that fails; requests in flight, and connections whose request is still to come |
| Login/logout, version, helpers, wasm loader, example | - | - | unregistered, sequential or unused |

How they interact. A request of the bridge runs its handler in a goroutine of its own; the handler
calls `singleflight.Do` with the reference as key. The first caller runs the function: it creates a
client, parses the reference, *stores the client in the Configuration that all downloads share*, reads
it back into a getter and a downloader, lists the tags (unless the tag is a version), pulls the image
and writes it into its own temporary directory. All callers get the same path, and each opens and
sends that file for itself, so that it can also fail alone. `pwo download` runs the same downloader
once, into the working directory. `pwo publish` pushes with the same client. The registry, `oras`,
`singleflight`, `fiber` and `semver` are libraries or services: they are modelled from the way this
code uses them, and marked external.

What makes each part correct: the bridge downloads a reference once at a time; the requests that
shared a download agree on whether it failed and on the image, which is of the right reference and no
older than the download; everyone whose registry answers is answered; the command that serves it ends
when the server has ended and not before; a download connects as its flags ask, with credentials that
are not out of date; the resolution pulls the version the reference designates; an image is pushed and
pulled atomically; a written file is whole or absent; a published image is what the user designated,
and is named consistently.

## 2. Modules

| Module | What it is |
|---|---|
| `SharedAnswer` | abstract: what `GET /?ref=` promises, without handlers, flights or files |
| `DownloadBridge` | the bridge, singleflight and the download as the bridge sees it |
| `DownloadBridgeProofs` | theorems about the invariants of `DownloadBridge` |
| `DownloadBridgeRefinement` | the theorem that `DownloadBridge` implements `SharedAnswer` |
| `TagChoice` / `VersionResolution` | abstract / detailed way from a reference to a tag, over a repository that changes |
| `ImageStore` / `RegistryImage` | abstract / detailed push and pull of one tag |
| `AtomicFile` / `AtomicWriteFile` | abstract / detailed replacement of a file |
| `Publish` | `pwo publish`, over files that change |
| `ServeLifecycle` | `pwo serve` and `Server.Start`: goroutines, WaitGroup, shutdown |
| `RegistryClients` | what each registry client is made from, and which one a download uses |
| `RegistryImageProofs`, `AtomicWriteFileProofs` | theorems about these modules, and that they implement their abstract ones |
| `VersionResolutionProofs` | theorems about `VersionResolution`, and that it implements `TagChoice` |
| `PublishProofs`, `ServeLifecycleProofs`, `RegistryClientsProofs` | theorems about these modules |
| `MC*` | the instances TLC checks |

An operator named after a change (`SendOwnCopy`, `LeadAlways`, ...) and commented "Mutation"
is not part of a specification: it is the form a plausible bug would give to the definition that
follows it, kept to show that the properties notice. `PROJECT.json` pairs it with them.

### DownloadBridge

`pc[r]` is where the handler of request `r` is; the values follow the code:

| `pc` | code |
|---|---|
| `received` | `routes..go:17`, then `os.MkdirTemp` |
| `do`, `wait` | about to call / blocked in `downloads.Do` (`bridge.go:16`) |
| `client`, `parse` | `bridge.go:17-36` |
| `share`, `getter`, `lister` | `pull.go:64`, `:85`, `:87`: one write and two reads of the shared field |
| `tags`, `pull`, `write` | `downloader.go:102`, `:70`, `:80` |
| `settle` | the function has returned, singleflight has not yet deleted the key |
| `return`, `panic`, `send` | after `Do`: the assertion at `bridge.go:56`, `routes..go:40-45` |

`flight` is the map of `singleflight.Group`; its mutex makes `Join`, `Lead` and `Settle` one step
each, and a follower finds the result by the leader it joined. An image is the revision it had when
it was published, and a reference is what the code tells apart: without the scheme (`NotOCI`),
unparsable (`Malformed`), with a version as tag (`Pinned`), or anything else, for which the highest
tag is taken. `revision` and `oldest` are the registry: the newest revision of each reference and the
oldest that is still there. `Publish` adds one; `Withdraw` deletes the oldest ones, or all, and a
number is never used again, so that a listed tag may be gone by the pull. Deleting only the newest,
after which a later download rightly steps back, is left to `VersionResolution` and `RegistryImage`,
whose repositories lose any tag. A tag that is
listed keeps naming its revision; a pinned tag is read as it is at the pull. `opened` is a history
variable. Every step that calls the registry or the file system can fail: a failed write may leave
its temporary file in the leader's directory (`temps`), and `SendFile` opens the leader's file once
per handler, so that one sharer may be answered 404 where the others get the image. The unsynchronised
accesses to the shared client are separate steps, so every order of them is explored; the field is
one word, so a read returns some value that was written. `ListTags`, `PullImage` and `WriteFile` are
one step each here: what they do inside is the matter of `VersionResolution`, `RegistryImage` and
`AtomicWriteFile`, which implement `TagChoice`, `ImageStore` and `AtomicFile`, whose operations are
single steps.

### VersionResolution

A tag or version is a record of what the code tells apart (kind, precedence, spelling of the build
metadata) instead of a string. `Tags` is the *set* of the orders that the unstable sort may return,
and a listing a function on `1..n` whose range is the set of versions, so that nothing recursive
stands between the model and a proof for lists of any length.
`Designated` is the reference definition it is compared with, written from the point of view of the
repository and not of the algorithm; `Servable` is the part of it that the repository holds.

`TagChoice` is what remains of the promise when the repository changes under the download: `Choose`
takes a tag that is designated *now*, `Answer` gives it if the repository holds it *then*, and `Fail`
needs a reason. `chosen` maps to the tag that its pull will ask for.

A reference with a digest comes in two forms, because the pull cuts the path at its first `:`
(`downloader.go:120`). A bare digest (`repo@sha256:...`) leaves `repo@sha256` before the tag that was
chosen, which does not parse, so that its pull fails: nothing is designated, and the failure maps to
`Fail` in the state `asked`. Of a tag and a digest (`repo:1.0.0@sha256:...`) the parser keeps the
digest only, which is no version; the tags are listed, both are cut away, and the highest version
is pulled, as it would be without them.

### RegistryImage

One action per registry request. Blobs and manifests are addressed by content, so they are identified
with their content; the children of a manifest are a set. `oras.Copy` runs the callback that collects
the layers (`client.go:375-383`) from concurrent goroutines, so a manifest with several layers of one
media type, which other tools may push, can be read in several ways (`ImagesOf`): the pull returns any
of them, and `ImageStore!Return` allows no more. Between a push's check that a blob is there and its
use the registry is assumed to keep the blob: registries collect garbage after a grace period, and
nothing in this code depends on it. `Delete` removes the manifest that the tag names, which can happen
at any time. The last request of a push may take effect and its answer be lost: `PushManifest` then
tags and fails, and so may `ImageStore!Put`; the module `Publish` has the same outcome in
`PushAnswerLost`.

### AtomicWriteFile

One action per system call, and per block of the two copies. `CrossDevice` says whether the
temporary file is on another device than the destination. It usually is not; but
`os.CreateTemp(filepath.Split(filename))` gets an empty directory when the file name has no directory
part, and then uses `os.TempDir()`. The default destination of `pwo download` is `.`, and
`filepath.Join(".", name)` has no directory part. The bridge always passes a directory.

### Publish

Straight-line code over a file system that others edit between its steps. A text is the sequence of
its pieces (words, `+`, `_`, and `!` for what a reference cannot hold), so that `parseReference`
converts texts of any length, and `generateOCIAnnotations` is the loop over the user's annotations
that skips the immutable ones. The metadata files differ in what the code branches on: unparsable, a
null maintainer, no name, no version, a name that no reference can hold, a version with `+` or with
`_`, annotations of the reserved kind. The remotes are those that `url.Parse` and the reference parser
tell apart; `Referable` says when remote, name and version together make a reference
(`client.go:502`).

### ServeLifecycle

`main` is the goroutine of `RunE` (`cmd/serve.go`), `server` the one that runs `Start`, `stopper` the
one that `Start` spawns (`server.go:82`). `counter` is the WaitGroup's: below zero it panics, and a
panic outside a handler ends the process. `listener` is what fiber holds: `ShutdownWithTimeout` does
nothing when there is no listener yet, closes it otherwise, and makes `Listen` return *at once*, with
requests in flight. An error of `Accept` makes it return too, at any moment (`AcceptFails`). `Accept`
opens a connection; `Begin` is its request, which starts the handler whatever has become of the
listener, also while a shutdown drains; a client that sends nothing may `Leave`. A running handler is
one step from there to its answer; its inside is `DownloadBridge`. The command passes
`context.Background()`, which is never cancelled; `Start` takes any context, so both are initial
states.

### RegistryClients

A client is the record of what it was made from: the flags it honours, the rotation of each file
that was read, and the download that made it. A file is a rotation number and whether it parses; a
certificate and a key belong together when their rotations agree, which is what
`tls.LoadX509KeyPair` compares. `env` holds the variables that `config.New` and `lazypath` look at;
a variable that is set but empty counts as unset for the directories (`os.Getenv`) and as set for
`PWO_REGISTRY_CONFIG` (`os.LookupEnv`), and an empty credentials file name is then replaced in
`NewClient`. `met` and `since` are history variables: which downloads ran beside which, and the
credentials at their beginning. Listings go through the token cache that all clients of the process
share (`client.go:94-97`): a listing sends the cached `token`, and when the registry refuses it a new
one is asked for with the credentials of the client that lists, for all that are asking. Pulls log in
with their own client's credentials. There is one repository, hence one token: the keys of
the cache are the library's. `token`, `sent` and `asked` record which client's credentials got each
token. The process either is `pwo serve`, which has no registry flags and
many downloads, or runs one download with any flags.

## 3. What TLC checks

Passing runs, each with a mutant for each of its properties:

| Run | Instance | Shows |
|---|---|---|
| `bridge_safety` | 3 requests, a floating reference and one that is not OCI, 2 revisions published, old ones deleted; symmetric requests | `SingleFlight`, `WaitersHaveALeader`, `ServedFresh`, `AgreedAnswer` (handlers of one download differ only where one cannot open the file), `NeverBackwards` (of two downloads of one reference the later finds no older revision), `OneFilePerDownload` (or a temporary file, of a failed write), `ClientIsSet`, and the bridge implements `SharedAnswer` |
| `bridge_liveness` | 2 requests; a registry that may hang, one that answers, a malformed reference, one that is not OCI | `Answered`: every request whose registry answers is answered, leader or follower, while another download hangs; `BlocksOnlyInWaits` |
| `serve` | 2 requests, one stuck; the port free or taken; a listener that may fail; both contexts; kills | `CutForAReason` (requests are cut by a kill, a failed listener or a cancellation only), `EndsAfterListen`, `CompletedIsDrained`, `BlocksOnlyInWaits`, and the liveness of `EndsWithServer`, `CancelEnds` |
| `registry_clients` | 2 symmetric downloads, 32 sets of flags, 8 environments, 2 edits of 7 files, one token cache | `FlagsHonoured` (all that coherent flags ask for, and never more than was asked), `CredentialsCurrent` (of the clients used, and of the tokens asked for) |
| `atomic_same_device` | 3 writers, 2 blocks, one device | `DestinationComplete`, and the calls implement `AtomicFile` |
| `atomic_fallback` | 2 writers, 2 blocks, two devices | `WrittenWhenAlone`, `LeftoversAreHarmless` |
| `version_resolution` | 9 names, a bare digest and a tag beside one among them, all repositories and references, 2 changes or failures | `ExactVersionPulled`, `LatestPulled`, `ResolvesAsSpecified`, and the resolution implements `TagChoice` |
| `registry_image` | 2 pushes, 2 pulls, 4 foreign manifests (one with two wasm layers, in any order), deletions | `TaggedComplete`, `PulledWhole`, implements `ImageStore` |
| `publish` | 8 metadata files, 5 remotes, 1 edit or failure | `PublishesAsSpecified`, `PublishedIsUsable`, `AnnotationsAgree` |

Why the bounds suffice. Three requests are a leader, a follower, and one that arrives after the flight
has settled and leads the next: more requests add more of the same kinds. Two revisions let a
publication, and the deletion of what was listed, fall between the listing and the pull. Two blocks
make a partial copy visible; three writers let one fail, one be overtaken and one win. The names of
`version_resolution` include two tags of equal precedence, the lowest version, a loose version and a
word. Two pushes that share a blob and two pulls cover a retag during a pull and a skipped upload. One
request that ends and one that does not are the two kinds a shutdown can find. Two downloads are
enough to overlap, to take each other's client, and to follow each other; two edits rotate a pair of
files, or rotate one and spoil it. `registry_clients` does not check for deadlock: the command ends
when its downloads have.

Runs that TLC refutes, each a disagreement between what the repository says and what its code does
(details and quotations in `PROJECT.json`, "findings"):

| Run | Statement | What happens |
|---|---|---|
| `bridge_assertion` | `raw.(string)` holds (`bridge.go:56`) | a nil result panics in every handler that shared it |
| `atomic_temp_dir` | the write is atomic (`files.go:18`) | on two devices the destination is truncated and filled in place |
| `version_tag` | `...:mytag` is downloaded (`README.md:16`) | the highest version is |

Other disagreements were met while modelling and need no state space to see:

* `pull.go:62` says the client is set on the pull's configuration; it is set on the one that all
  downloads share (`SetRegistryClient` models it, `ClientIsSet` says what still holds).
* `getter.go:166`: the 120s request timeout is parsed and used by nothing, so a hung registry
  holds its flight for ever (`Hung`; `Answered` says that it holds only its own).
* `options_flags.go:12`: `--version` is parsed and read by nothing.
* `metadata.go:37` and `:43` call the name and the version required; nothing validates them
  (`Publish` publishes without them).
* `metadata.go:27` reports null maintainers, from `Validate`, which nothing calls:
  `generateChartOCIAnnotations` dereferences them (`utils.go:188`) and the command panics
  (`PublishesAsSpecified` says that it panics for this reason only).
* `config/env.go:23` and `PWO_REGISTRY_CONFIG`: the designated credentials file, and `PWO_DEBUG`,
  reach the client only when a TLS flag is given (`client.go:150-169`); every other client, and so
  every client of `pwo serve`, uses the file of the configuration directory (`CredentialsFile`).
  `AddFlags` (`--debug`, `--registry-config`) is registered by nothing. A credentials file of that
  directory that cannot be parsed ends every command, even one that designates another (`NewRootCmd`).
* A `--cert-file` without a `--key-file` is ignored, and so are all TLS flags with `--plain-http`
  (`client.go:149-169`); the help texts (`params_flags.go:6-10`) make no such exception. `FlagsHonoured`
  therefore demands all that is asked of `Coherent` flags only.
* `server.go:78` says the server is gracefully shut down when the context is cancelled: `Listen`
  returns when the listener closes, and the command then exits with requests in flight; a
  cancellation that comes before the listener exists is consumed without effect (`Shutdown`).
* An error of `Accept` while serving is logged (`serve.go:46-48`) and the command exits with status 0
  and requests in flight (`AcceptFails`, `CutForAReason`).
* `pwo serve` exits with status 0 when `Listen` fails, or panics if it fails before `wg.Add`
  (`serve.go:50`, `EndsAfterListen`).
* `README.md:12` shows a remote with a tag: the reference then has two, and the push
  always fails (`PublishesAsSpecified`).

Fairness (`FairSpec`). `WF` on the steps of each handler that need only the Go scheduler, which runs
every runnable goroutine, and on the two steps that wait for the registry, except for the references
of `Hung`: a request to a registry that works ends in an answer or an error. Nothing is assumed of
clients, who may never send a request, nor of publishers. A waiting follower needs no strong fairness:
once its leader has settled, `Wake` stays enabled. `ServeLifecycle` assumes the same of its three
goroutines and of the two-second timer of the shutdown, and that a running handler ends unless it is
one of `Stuck`; nothing is assumed of clients, of the listener, of whoever cancels the context, or of
a kill. Weak fairness says something of a step only while it is enabled. `BlocksOnlyInWaits`, in both
modules, says when that is: whenever the goroutine is not in one of the waits of the code (`Do` on a
flight that has not settled, a registry that hangs; `wg.Wait`, `Listen`, the context).

## 4. What TLAPS proves

`DownloadBridgeProofs`, for any sets of requests and references, from the named assumptions of
`DownloadBridge` (the classes of references are subsets of `Refs`, and the null values are new):

* `TypeCorrect`: `Spec => []TypeOK`. `TypeOK` is not inductive: `ListTags` and `SendFile` apply
  functions to `ref[r]` and `call[r]`, which are only known to be in their domains for a handler
  that has come that far. `HandlerKnown` says so, and `TypeOK /\ HandlerKnown` is inductive.
* `SingleFlightHolds`: `Spec => []SingleFlight`. The reason is the registration of leaders: a
  handler that leads is the value of `flight` at its own reference (`LeadersRegistered`). Only
  `Lead` adds one, and only where the key is absent; only `Settle` removes one, its own.
* `WaitersHaveALeaderHolds`: `Spec => []WaitersHaveALeader`, from the same invariant strengthened
  with `FlightsLed` (every key names a handler that is leading that reference) and `CallsAnswered`
  (a call leads to a leader of the same reference that is registered, or that has settled with an
  outcome).
* `ServedFreshHolds`: `Spec => []ServedFresh`. `FreshInv` carries the bound along the download: the
  revision a leader has found lies between the one its flight opened at and the newest one, and a
  "file" outcome means that this revision, of the leader's own reference, is in its directory.
  `AnswerInv` carries it to the followers: a reply is one of those that the outcome of the call allows
  (`AnswersOf`: the stored file or, when the handler cannot open it, a 404). `ProgressInv` (no outcome
  before the download ends, no call before `Do`, no reply before the answer) makes both inductive.
* `AgreedAnswerHolds`: from `AnswerInv` and `FreshInv`. A failed download is a 500 for all its
  handlers; of a stored one each sends the same file or fails by itself. Nothing in the code removes a
  directory or overwrites a stored file; the proof shows that this is what it rests on.
* `NeverBackwardsHolds`: flights of one reference do not overlap (`FlightsOrdered`: what a
  settled flight found is no newer than what the registry held when the next one opened), and
  `FreshInv` says that a flight finds nothing older than that.
* `MonotonicAnswers`, the temporal form that a client sees: once a revision has been served, no
  request that arrives afterwards is *ever* answered with an older one, while images are published and
  the oldest deleted. Reads do not go back, although followers wake when they like and are answered by
  flights that ended long before. The invariant that carries it past the arrival is `SharesLater`:
  whoever arrives later can only share a flight that was opened when the registry held that revision
  already (`SharesLaterKept`).
* `PanicsBeforeRegistry` and `OnlyFetchableServed`, from `ParseInv` (how far a flight came tells its
  outcome). The first bounds the defect that `bridge_assertion` finds: the assertion can fail in a leader
  and in all its followers, but only over a flight that has read no client and learnt nothing from a
  registry, because the creation of its client failed (an unreadable credentials file is enough) or
  its reference is not OCI. A failure of a listing, a pull or a write never reaches it.
* `OneFilePerDownloadHolds`: only `WriteFile` stores an image or leaves a temporary file, and only a
  leader runs it, into the directory of its own call; every handler with a call has made a directory
  (`DiskInvariant`).
* `ClientIsSetHolds`: `Spec => []ClientIsSet`, from `ClientInv`: the shared client is some
  handler's once a flight has set it, so a leader that is past its own write never goes back to the
  client that the root command made.

`DownloadBridgeRefinement` proves `BridgeKeepsThePromise`: `Spec => ImplementsSharedAnswer`, under the
refinement mapping at the end of `DownloadBridge`. `Receive` maps to `Ask`, an early answer to
`Refuse`, `Join` and `Lead` to `Join`, `Settle` to `Close`, the answers after `Do` to `Deliver`, which
may fail for one request alone, and every other step stutters. The argument turns on who can have
whose call: `CallsAreLed` (nobody has the call of a handler that never led, so an answer given early
decides nothing for others) and `SettledInv` (a handler past `Do` has the call of a settled leader, so
it delivers a known verdict, or its own failure). `Close` needs all of the content invariant: its
verdict must be one the abstract `Servable` allows.

The same module joins the bridge to the command that serves it. `ServeLifecycle` takes the handler of
an accepted connection in two steps, its beginning and its answer. `HandlersServe` shows that this is
what the bridge does: under the mapping `Handling` of `pc`, every step of `DownloadBridge` is a
`Begin`, an `Answer` or a stutter of `ServeLifecycle` while it serves (`MovesAsServed`). `HandlersEnd`
is the other half: the fairness that `ServeLifecycle` assumes of `Answer` follows from the fairness of
the bridge, for every handler whose registry does not hang; the others are what `Stuck` stands for.

`RegistryImageProofs`, for any pushers, pullers and foreign manifests, from `ForeignAssumption` (a
manifest is a set of children with one of the media types), `CorruptAssumption` (what a push
marshalled parses) and `NoImageAssumption` (the null value is not an image):

* `TaggedCompleteHolds`: `TaggedComplete` is inductive, because the manifest is the last request of
  a push and blobs are only added.
* `PulledWholeHolds`: a pull keeps the manifest its digest names and returns one of the images that
  this manifest can be read as, each blob in its place (`PullInv`, `ImageOfManifest`); a manifest that
  this program pushed has exactly one (`PushedIsOneImage`), whatever the order of the layers.
* `TypeCorrect`, and `RequestsKeepThePromise`: `Spec => ImplementsImageStore`. `Resolve` maps to
  `Take`, `PushManifest` to `Put`, `ReadImage` to `Return`, the fetches and uploads stutter.

`AtomicWriteFileProofs`, for any number of writers and blocks, from `WriteAssumption`:

* `TypeCorrect`, on one device and on two. `FilesKnown` makes it inductive: a writer that fills the
  destination has a temporary file, a destination, and blocks left.
* `DestinationCompleteHolds` and `CallsKeepThePromise` (`Spec => ImplementsAtomicFile`), under
  `~CrossDevice`. `TempInv` follows the temporary file through the copy and the chmod: it is the
  writer's whole file when the rename installs it; on one device nobody falls back to copying.
  `atomic_temp_dir` shows that the hypothesis is needed.
* `WrittenWhenAloneHolds`, on one device and on two. `AloneInv` follows the destination through the
  fallback: `OwnStepsKeepAlone` for the writer's own steps, `RivalStepsKeepAlone` for those of
  rivals, which touch nothing of it while they are at their own temporary files.
* `LeftoversAreHarmlessHolds`: a temporary file is private until the chmod, which comes after the
  last block, and `Rename` and `RemoveTemp` come before a call can return nil.

`VersionResolutionProofs`, for any set of names, any repository and any changes, from
`NamesAssumption`:

* `ExactVersionPulledHolds` and `LatestPulledHolds` (for a reference without a tag, and for one whose tag
  is no version), from `ChosenInv`: what was chosen is the
  reference itself, or the "+" spelling of a tag that nothing listed outranks. `TagRoundTrip` says
  that the way to "+" and back ends at the same registry tag; `FirstMatchIsBest` that the first
  match of a list in descending order, of any length and with any order among equals, outranks
  the rest (a least index exists because `<` on the naturals is well-founded).
* `ResolvesAsSpecifiedHolds`: in a repository that nobody changes (`UnchangedInv`) the tags listed
  are the tags pulled from, and `ServableCases` ties them to the reference definition.
* `DownloadsKeepThePromise`: `Spec => ImplementsTagChoice`, with no bound on the changes.
  `ResolveVersion` of an exact version and `ListTags` map to `Choose`, a pull to `Answer` or `Fail`,
  and the steps before the listing, or with a bare digest, that decide nothing stutter.
  `DesignatedCases` unfolds the reference definition; `TagRoundTrip` makes the chosen "+" spelling the
  tag that was listed.
* `ListingExists`: every finite repository has a listing in descending order, so that `ListTags` is
  never stuck and the theorems above leave out no repository. The proof extends a listing by one
  version at the place where it belongs (`OneMoreVersion`), and takes a smallest set of versions
  without a listing (`DescendingExists`).

`PublishProofs`, for any set of metadata files, with any texts and annotations, and any number of
edits: `PublishedIsUsableHolds` and `AnnotationsAgreeHolds` follow from `ReadInv` (what each step has
read, whoever edits, and what an image in the registry was made of, also when the command failed
because an answer was lost), and `PublishesAsSpecifiedHolds` from `UneditedInv` beside it (without
edits, a check that passed still holds, and only one that does not hold makes the command fail).
`DesignatedCases` unfolds the reference definition of the designated file. `AnnotationsAgreeHolds`
also needs `TagReadBack` (a version without `_`, of any length, comes back from its tag) and
`Annotated` (the loop over the user's annotations leaves the title and the version alone, and keeps
the rest).

`ServeLifecycleProofs`, for any number of requests: `CommandOutlivesServer` from the invariant that
`counter` is 1 exactly between `Add` and `Done`, 0 on either side, and -1 only after a panic;
`CutForAReasonHolds` from `ListenerInv` (the listener closes for a cancellation only, and the server
goes only when it has closed or failed) and from `HandlersAccepted`; `ShutdownDrains` because nothing
opens a closed listener again, so that the connections a shutdown waits for only become fewer.
`LostCancellation` is the reverse of `CancelEnds`: if the goroutine that shuts down has run before there
was a listener (`Lost`, which is stable), nobody will close it, and `[]EndsByError` holds from then on:
the command ends by itself only if it never served or its listener failed. This is why `CancelEnds`
speaks of cancellations that find the server serving only.

`RegistryClientsProofs`, for any number of downloads and edits: `FlagsHonouredHolds` follows a client
through the reads that make it (at each step it has what the flags ask of the files read so far, and a
key is only kept if its rotation is the certificate's), and then through the shared field: whoever
stored it, it was complete. What it proves is exact for coherent flags, and an upper bound for others.
`CredentialsCurrentHolds` adds that rotations only grow, and that whoever stored the shared client
after a download began has met it; `Tokens` follows the cache: every token was got by a client of some
download, and one that was asked for by one that was met.

Liveness, for any number of requests, handlers that never end, and hung registries. The three
theorems have the form `FairSpec /\ []BlocksOnlyInWaits => ...`: the prover reads a `WF` but knows
nothing of `ENABLED`, so what fairness needs to know of it is a hypothesis, word for word an invariant
that `bridge_liveness` and `serve` check.

* `AnsweredHolds`. `Edges` lists where a handler can go from each `pc`; none leads back.
  `OwnStepAdvances` and `AnyStepAdvances` say that a handler stays where it is, able to run, until it
  takes one of them, so it leaves (`Advances`): `LeaderReturns` chains this from `client` to `settle`.
  A follower waits for *its* leader, which is not known in advance: `FollowerOfReturns` proves it for
  one leader, `FollowerReturns` for whichever it joined, because that leader never changes and settles
  for good. A registry hangs or answers by reference, and leader and follower have the same one
  (`WaitersHaveALeader`).
* `EndsWithServerHolds` and `CancelEndsHolds`. `WayOut`: once the server is done, `Done` and then
  `Wait` are all that is left, since the counter is 0 again after `Done` (`Counted`), or the process
  has panicked. A cancellation adds `Shutdown` and `StopServing`; neither waits for a request.

Only model-checked: `BlocksOnlyInWaits`, because no backend here reasons about `ENABLED`, and with it
nothing of the guards that the theorems above take from it. The library's induction theorems take an
operator as a parameter, which the provers cannot instantiate; where a proof is by induction
(`FirstMatchIsBest`, `DescendingExists`) it takes a smallest counterexample instead.

## 5. Not modelled, and why

* Login and logout: the commands are not registered (`cmd/root.go`), the work is a library's.
* The resolver options and the user agent of a client (`client.go:69-92`): a closure that the
  library calls. Of the token cache `RegistryClients` has one token of one repository; how it is keyed
  and how tokens expire (here: they may be refused at any time) is the library's.
* `OCIGetter.newRegistryClient`, `OCIPusher.newRegistryClient`: only with a nil client, which no
  caller passes. `CopyDir` and symlinks: never reached from `AtomicWriteFile`. `Validate`: called by
  nothing: `Publish` models that it is not.
* Bytes, digests, HTTP headers, logging and wording: no property is about them.
* Version, time and URL helpers, the cache and data directories, `BurstLimit`: conversions and look-ups,
  unused or for display.
* `pkg/wasm` is imported by nothing; the example plugin is not part of the tool.

## 6. Plan

1. Compose `VersionResolution` with `RegistryImage` (a pull of a listed tag over a registry whose
   images are pushed step by step), and `AtomicWriteFile` with the bridge's directories.
2. Compose `ServeLifecycle` with `DownloadBridge`: a shutdown that finds followers of a flight, and
   what a cut leaves in the temporary directories.
3. Envoy's side: a client that gives up and retries, so that requests outlive their clients.
4. Login and logout, once the commands are registered: they write the credentials file that
   `RegistryClients` only sees edited.
