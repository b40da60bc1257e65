# A TLA+ development of BYOC

BYOC lets an application keep its users' files in the users' own clouds: a
client (`packages/core`), one adapter per storage (`packages/google-drive`,
`s3-compatible`, `webdav`, `local`, `memory`), a browser package for direct
uploads, and a Python mirror of all of it (`python/src/byoc`). Its core logic is
concurrent and talks to storages that fail: worker pools over provider calls,
resumable transfers, retries of calls that may have taken effect, caches of
remote ids, a token that is refreshed under the feet of its users. This
directory models that logic, checks it with TLC and proves part of it with
TLAPS.

## How to run it

    tlc -workers 2 -config MCMigration.cfg MCMigration.tla
    tlapm MigrationProofs.tla
    tlapm ChunkedUploadProofs.tla
    tlapm StreamedUploadProofs.tla
    tlapm S3Proofs.tla
    tlapm OAuthProofs.tla
    tlapm E2EEProofs.tla
    tlapm ProviderProofs.tla
    tlapm DrivePathsProofs.tla

A configuration has the name of its module, except those for which "Runs" names
the module. The longest runs take two to three minutes,
the proofs of `ProviderProofs` some minutes, those of `DrivePathsProofs` about ten.

## Inventory

| Component | State it keeps | Operations | What is hard | What makes it correct |
|---|---|---|---|---|
| Migration engine (`core/src/migration/engine.ts`, Python `migration.py`) | claim counter, report and its counters, one suspended worker per slot | `migrate` | interleaved workers, calls that fail before or after their effect, deletion of the source, a listener that throws | nothing lost, a true report with one record per entry, the conflict strategy, quiet once settled, it settles |
| Drive resumable uploader (`google-drive/src/api/resumable.ts`, Python `_http.py`) | two buffers, offset, held chunk; attempt count | `uploadStream`, `upload`/`transmitChunks`, `initiateSession` | one-chunk lookahead, partial commits, lost answers, retries with an old range | the object is the payload or nothing, success only when it is there |
| S3 upload (`s3-compatible/src/api/client.ts`, Python `s3.py`) | upload id, parts, one reused buffer | `putObject`, create, part, complete, abort | retries of requests that took effect, best-effort abort, one-shot bodies | as above, it settles, and no parts left behind |
| Browser upload (`browser/src/upload.ts`) | offset, attempts | `uploadWithGrant`, `uploadSingle`, `uploadResumable` | no access to `Range`, transient and permanent errors | as above |
| Drive path resolver and cache (`google-drive/src/paths/virtual-path.ts`) | LRU and TTL cache, root id | resolve, create, invalidate, clear | check-then-create races, duplicates in Drive, stale ids, a clear in the middle of a resolution | a path resolves to what Drive has; no file is hidden |
| Drive adapter and HTTP client (`adapter.ts`, `api/http.ts`) | none besides the resolver's | upload, download, delete, trash, move, copy, list, exists, metadata, grants | cache updates around remote calls, self-healing of a stale id, retried POSTs | a call does what it says for its path; the cache follows |
| OAuth session (`auth/oauth-client.ts`, `auth/storage.ts`, Python `_oauth.py`, `_tokens.py`) | the stored session | getAccessToken, refresh, exchangeCode, revoke, setSession | a refresh under way while others read, refresh or revoke | the user is not locked out; a revoked session stays gone; each attempt has the token of the moment |
| End-to-end encryption (`core/src/encryption/e2ee.ts`, Python `encryption.py`) | frame counter, lookahead frame, byte reader | encrypt, decrypt, their streams, the provider wrapper | the final flag, truncation, reordering, chunk boundaries | decryption yields the plaintext, or a beginning of it and an error |
| Client (`core/src/client/byoc.ts`, Python `client.py`) | registry, active provider | pass-through calls, walk, deleteTree, deleteMany, backup, migrate | a batch with failures, a tree that changes under a walk | each path accounted for; children before parents |
| Local, memory, WebDAV and S3 providers (`local`, `memory`, `webdav`, `s3-compatible/src/adapter.ts`) | files and sidecars; a map; nothing | all of `BYOCProvider` | two files per object, moves of two steps, retried requests, folders and key prefixes | the same call means the same everywhere; a move loses nothing; a type goes with its file |
| Retry helper, error mapper | none | `withRetry`, what is retryable | attempt counts, requests that took effect | part of each module that sends requests |
| Virtual paths, S3 signing, PKCE, MIME, logger, compliance kit | none | strings, hashes, requests | - | not modelled: computation with fixed vectors |

The components meet in a few places. The client hands a provider to the
migration engine, which calls `exists`, `download`, `upload` and `delete` of two
of them. The Drive adapter asks the resolver for ids, the uploader for bytes and
the OAuth client for a token before each attempt of a request; the uploader and
the HTTP clients wrap their requests in `withRetry`. The browser receives a grant
that an adapter opened as a Drive session or a presigned URL. The encryption
wrapper sits between the client and any provider. `PROJECT.json` lists every
component with its status, and every hazard at the line where it bites.

## Modules

| Module | Models | Status |
|---|---|---|
| `Migration` | `MigrationEngine.migrate` and the storages it calls | modelled, checked, proved |
| `MigrationContract` | what a migration promises, without workers or failures | refined by `Migration` |
| `MigrationProofs` | the theorems about `Migration` | proved |
| `DriveSession` | the resumable session on the server, as the uploaders use it (external) | modelled |
| `UploadContract` | what any upload promises: whole or absent, success only when present | refined by `StreamedUpload`, `ChunkedUpload`, `S3Upload` |
| `StreamedUpload` | `uploadStream` | modelled, checked, proved |
| `StreamedUploadProofs` | the theorems about `StreamedUpload` | proved |
| `ChunkedUpload` | `upload` and `transmitChunks` with `withRetry` | modelled, checked, proved |
| `ChunkedUploadProofs` | the theorems about `ChunkedUpload` | proved |
| `OAuthSession` | `GoogleOAuthClient`, its token storage, the retried requests of `DriveHttpClient` | modelled, checked, proved |
| `OAuthProofs` | the theorems about `OAuthSession` | proved |
| `E2EEFraming` | `encryptStream`, what a storage may give back, `decryptStream` | modelled, checked, proved |
| `E2EEProofs` | the theorems about `E2EEFraming` | proved |
| `S3Upload` | `putObject`, `putObjectStreaming`, `uploadSingle` of the browser | modelled, checked, proved |
| `S3Proofs` | the theorems about `S3Upload` | proved |
| `DrivePaths` | `GoogleDriveProvider` over its resolver, cache and HTTP client | modelled, checked, proved |
| `DrivePathsProofs` | the theorems about `DrivePaths` | proved |
| `ProviderOps` | the client's calls and batches over memory, S3, local and WebDAV | modelled, checked, proved |
| `ProviderProofs` | the theorems about `ProviderOps` | proved |
| `MC` + name | small instances | - |

### Migration

A worker of the pool is suspended at each `await` of a provider; between two
awaits JavaScript runs without interruption, so the code between them is one
action: `Claim` (the loop head and the choice of the first call), `OnExists`,
`OnDownload`, `OnUpload`, `OnDelete`, and `OnError` for the catch block. A
provider's effect happens at some moment between the call and its answer, so it
is an action of its own (`TargetExists`, `SourceDownload`, `UploadOpens`,
`UploadLands`, `SourceDelete`) that stores an answer in `reply[w]`; `CallFails`
is a call that fails without effect, and an upload or a deletion may also take
effect and answer with an error. `Settle` pushes a record and reports progress
inside the `try` block: when the listener throws there, the same entry gets a
`failed` record from the catch block, and when it throws in the catch block the
worker's promise rejects and `Promise.all` with it (`Reject`), while the other
workers go on. `AtomicUpload` says whether an upload replaces the object in one
step (an HTTP PUT) or truncates it first (`fs.open(target, "w")` of the local
provider); the storage actions are mapped to the local provider, whose calls
include the behaviour of the others. The data of an object is one of four values:
absent, the object to migrate, another object, the beginning of it.

Two settings break the promises whatever the engine does, so the properties about
data exclude them with `SoundSetting`: a job from a provider to itself, which
`BYOC.migrate` does not refuse, and a path that is listed twice for a storage
whose uploads are not atomic. Both are in the list of hazards.

### The uploaders

`DriveSession` keeps the bytes the session stored, as numbers of the bytes of the
payload, so that a lost, repeated or misplaced byte shows. A PUT may be refused,
may take effect and lose its answer, and with `PartialCommits` may be kept only
in part, which the `Range` of the 308 then says. One number stands for one
alignment unit of 256 KiB, because Drive commits multiples of it.

`StreamedUpload` has the two buffers as arrays, and the body of a request is a
view of one of them that the server reads later, as in the code: a buffer that is
reused too early would corrupt what is sent. The source yields chunks of any
size. The steps are cut at each await: `Pull` and `GiveUp` (the source), `Fill`
(the copy loop up to the next send), `OnRotated`, `Exhausted`, `OnTail` and
`OnLast` (the answers). `ChunkedUpload` keeps the range of a PUT through its
retries, as the closure given to `withRetry` does.

### The OAuth session

A call of `OAuthSession` is suspended at each `fetch`: `Request`, `Refresh`,
`ExchangeCode` and `Revoke` read the storage and start one, `OnTokens` and
`OnRevoked` write the storage with what the call learned, whatever the storage
holds by then. A request asks for a token in every attempt (`GetAccessToken`,
`Retry`), as `DriveHttpClient.request` does inside `withRetry`. Google numbers the
tokens it issues; `honoured` is the refresh token it accepts for a grant, and
`rotates` chooses a Google that replaces it at each refresh or never. Expiry is
one number, `aged`: all tokens up to it are within a minute of their end. Only a
`dated` session says when its token ends: `expiresAt` is missing where the answer
of the token endpoint had no `expires_in`, or where the application stored the
session without it, and then `Expired` never holds.
`SetSession`, `Crash` and `Revoke`, and a lost answer that carried tokens, may end
a grant by themselves; `Refreshable` is about behaviours without them (`mishap`).

### Encryption

In `E2EEFraming` a ciphertext is a tagged value, so that what a tag vouches for is
explicit: the header it was made under, the frame's number, the final flag, the
bytes. `Pull`, `Fill`, `Remainder` and `SealLast` are `frameSource` and
`encryptStream`, with the full frame that is held back; `Keep` lets the storage
give back the envelope, or one that was cut, spliced with itself or with the
object that was there before, exchanged or spoilt; `Read`, `OnMagic`, `OnTail`,
`OnFirst`, `OnFrame` and `OnNext` are `AsyncByteReader` and `decryptStream`. Magic,
parameters, length and tag take one unit each. `WholeEnvelope` is the layout of
the design document, stated at once, for comparison.

### Uploads to a bucket

`S3Upload` has four bodies: buffered, a stream of known length (a one-shot body,
which is not retried), a stream of unknown length (multipart), and a grant used
by the browser's `uploadSingle`. `pc` names the request that is awaited. The parts
share one buffer, and the bucket reads it when it serves the request. Every
request may be refused, applied and answered, or applied with its answer lost;
the argument checks of the client and an expired grant count as refusals. Parts
left by a creation whose answer was lost are what `Tidy` counts.

### Drive paths

`DrivePaths` has the Drive as a sequence of nodes with a parent, a name and a
state; several nodes may have one name. A call of the adapter has a plan, the
paths it must resolve before its own request (`Plan`). `Pursue` is the resolver
between two requests: the whole path is looked up, then each of its folders, up to
the first one that must be searched for. These lookups are synchronous apart from
`await` on values that are there, and are one step with the preceding answer.
`Resolve` goes on from goal to goal until a request is needed.
`OnFound`, `CreateFolder` and `OnFolder` continue with an answer, `OnActed` updates
the cache as the adapter does after its request, `Heal` is the second try of a
download. The two requests of a download are one, the order in which the LRU
evicts and the moment an entry expires are left open (`Expire`), and the order of
search results is left open. A `Serve...` action is a request of `DriveHttpClient`
and what Drive does with it. Reading a path below a folder that is missing creates
the folder, in the code as in the model.

### Providers, calls and batches

`ProviderOps` has one store with a `kind`. For memory and S3 a path is a key; for
local and WebDAV it leads through folders, which a call makes first
(`MakeFolders`: one `mkdir` for local, one MKCOL per folder for WebDAV). A move
is a copy and a removal for memory and S3 (`Copy`, `RemoveSource`), one step for
the others (`Move`); local writes and removes sidecars in steps of their own.
`Answered` lets a remote request take effect and its answer be lost, after which
the same request is made again or the call fails. A batch is `walk`, `deleteTree`
or `deleteMany`; its deletions are calls of workers, at most `Concurrency` at once.
An S3 listing comes in pages of any size; which folder a walk lists next is left
open.

Each content stands for its type too, so a sidecar holds the content whose type it
names. Two history variables say for which files `TypeFollows` promises a type.
`calm` holds until calls overlap or a request fails. `astray` has the paths whose
type the local adapter did not carry: `Uncarried` are those below a folder that is
copied or moved, a path that is moved onto itself, and the target of a copy or a
move whose source is astray; an upload takes its path out again (`Strays`).

## Runs

| Run | Configuration | Shows |
|---|---|---|
| `migration_contract` | `MCMigration` | atomic uploads, quiet listener: type, `NoLoss`, `Truthful`, `OneRecordEach`, `NoClobber`, `StillOnceSettled`, `Settles`, and the refinement of `MigrationContract` |
| `migration_faults` | `MCMigrationFaults` (module `MCMigration`) | truncating uploads, throwing listener, a job from a store to itself: `NoLoss`, `Truthful`, `NoClobber`, `Settles` |
| `partial_keeps_source` | `MCPartial` (module `MCMigration`) | violated: a partial file whose source is gone |
| `failure_after_upload` | `MCThrowingListener` (module `MCMigration`) | violated: a transferred file recorded as failed |
| `streamed_upload` | `MCStreamedUpload` | a server that keeps whole bodies: `WholeObject`, `NothingDropped`, `InStep`, `Settles`, refinement of `UploadContract` |
| `streamed_partial_commit` | `MCPartialCommit` (module `MCStreamedUpload`) | violated: `WholeObject` with partial commits |
| `chunked_upload` | `MCChunkedUpload` | partial commits, lost answers, four attempts: `PrefixOnly`, `InStep`, `Settles`, the contract |
| `oauth_session` | `MCOAuthSession` | `Refreshable`, `FreshToken`, `StaysRevoked` with overlapping calls, rotation or not, sessions with and without an expiry, lost answers, a revocation, a crash |
| `e2ee_framing` | `MCE2EEFraming` | `SameEnvelope`, `WholeOrFailed`, `RoundTrip` for every cut of a payload and every damage of an envelope |
| `s3_upload` | `MCS3Upload` | `Tidy`, `Settles`, refinement of `UploadContract`, for all bodies and retries |
| `drive_paths` | `MCDrivePaths` | `AloneDoesAsTold`, `AloneKeepsCache`, `NothingHidden` |
| `provider_ops` | `MCProviderOps` | `Accounted`, `MoveKeeps`, `OkMeansDone`, `TypeFollows` over four providers |

Bounds. Migration: two workers, two paths and lists of up to two entries with
repeats, every strategy, and every initial content of the two stores up to a
renaming of the paths. Two workers on two entries show every conflict the engine can
have, since workers share only the claim counter, the report and an object named
twice; the theorems remove the bound. Streamed upload: buffers of three units and
sources of 0 to 13 units, cut in every way: no full buffer, exactly one, several,
and every remainder. Chunked upload: chunks of three units, 0 to 10 units, the four
attempts of the code. OAuth: two callers, two grants, three tokens (`MaxTokens`) and
one retry: a token, the one that replaces it and one more, so that a call can be two
behind; the theorems remove the bound. Encryption: frames of two units, payloads of
0 to 7 units with room for three frames, so that the counter also runs out; chunks
of one unit and of more than a frame, for source and storage; the theorems remove
these bounds. S3: parts of two units, payloads of 0 to 7, the retries of the code.
Drive paths: a folder and a path in it, two calls (`MaxCalls`), four nodes
(`MaxNodes`), one event (`MaxEvents`: an outage, a lost answer, an expiry, a clear
or a deletion by others) and one retry. Two calls and one event are the shortest way
to each of the races the hazards name; the theorems remove these bounds. Providers: two jobs (`MaxJobs`), one failure (`MaxFaults`), five paths of
up to three names with a folder whose name ends like its parent's, and two calls at
a time; the theorems remove these bounds. Except for these named bounds, no run
bounds a counter that the program does not bound. Deadlock is checked for
`OAuthSession` only, where time can always pass or a call be made; each other
program ends.

Fairness. `Migration`, `StreamedUpload`, `ChunkedUpload`: weak fairness of each
worker's continuation and of each call's answer: the event loop runs what is
ready, and a request or a file operation ends or fails. `S3Upload` has the same
two, for the client and the bucket. For `ChunkedUpload` also strong fairness of a
step in which the server keeps something more, because the loop has no limit on
rounds without progress; `Settles` is shown under that assumption only. The other
modules state safety only and need no fairness.

## Findings

1. `partial` does not mean that the source copy is still present
   (`engine.ts:36`): the deletion may have taken effect although its answer was an
   error, or another entry of the same path deleted it.
2. A listener that throws turns a transferred file into a failed one
   (`engine.ts:160` says that must not happen).
3. `uploadStream` loses the uncommitted end of a chunk when Drive keeps only a
   part of it: it follows the server's offset with the next buffer
   (`resumable.ts:124`, Python `_http.py:521`), and the upload completes with
   bytes missing, against "byte for byte" of the design document.

## What the code leaves open

Behaviours the modules contain and the properties therefore except. The list of
hazards has them at their lines, but for WebDAV's `createFolder`:

- Drive paths that overlapping calls create may exist twice; `NothingHidden` shows
  that nothing is out of reach for it while nothing is moved or removed. After a
  folder is deleted or moved, the cached ids of what was below it remain, which
  `AloneKeepsCache` names (the Python cache drops them). A stale id heals only in
  `download`; other calls fail until the entry expires.
- A refresh that was under way when `revoke()` cleared the storage writes a session
  back (`StaysRevoked` says that nothing else does).
- The token of a session without an `expiresAt` is sent however old it is
  (`oauth-client.ts:157`); `FreshToken` then says only that it is the stored one.
- The local provider does not carry the types of what is in a folder when the
  folder is copied or moved, and removes the type of a file that is moved onto
  itself (`local/adapter.ts:468`, `483-485`). `TypeFollows` leaves these paths
  out (`astray`) until something is uploaded there. It claims nothing once calls
  overlapped or a request failed (`calm`): file and sidecar are written one
  after the other.
- Memory and S3 lose an object that is moved onto itself; WebDAV's
  `createFolder` accepts a file that is there; a WebDAV MOVE that is retried after
  its answer was lost replaces what it moved if others put something at the source.
- A WebDAV listing leaves out an entry whose address ends with the name of the
  folder that is listed.
- An S3 upload whose completion lost its answer is reported as failed although the
  object is there, and the abort that follows finds nothing.

## Proofs

`MigrationProofs` proves, for every set of providers, paths, workers and jobs:
the type invariant, `NoLoss`, `Truthful`, `NoClobber`, `OneRecordEach`,
`StillOnceSettled`, and that `Migration` implements `MigrationContract` for two
different stores with atomic uploads and a listener that does not throw. They use
the assumptions on the constants that `Migration` states (jobs are well formed,
the flags are Boolean, there is a worker) and nothing else.

`NoLoss` is not inductive: a worker about to delete must have a whole copy on the
target, and no other worker may tear it. `IInv` adds what the code relies on:
`ClaimsInv` (the entry a worker holds is below the claim counter, and no two
workers hold one entry), `OnePlace` (with distinct paths therefore no two workers
are at one object), `SourceInv` (the source holds an object or nothing, and
nothing only if deletion was asked for), and `WorkerInv` (what a worker's place
says of the target: past an acknowledged upload the object is whole there).
`Inductive` shows `IInv` step by step: one lemma for a worker's step, which
changes records only, and one for each kind of storage step. `Complete` (every
claimed entry has a record or a worker that still holds it) gives `OneRecordEach`,
and `Untorn` (no torn object when uploads are atomic) the refinement, whose
mapping reads the verdict of an entry off its record: `WorkRefines`,
`ServeRefines` and `ReturnRefines` map the steps.

`ChunkedUploadProofs` proves, for every payload, chunk size, number of retries and
both kinds of server: the type invariant with the bound on attempts, `PrefixOnly`,
`InStep` and `KeepsContract`. The invariant adds to them that an answer still
describes the session when the client reads it (`AnswerInv`) and what each place
of the client knows of the session (`RequestInv`: between two chunks the offset is
the session's end, or the session is empty). The heart is `Splice`, which both
uploaders' proofs contain: to a prefix of the payload, the part of a repeated body
that lies beyond it appends exactly the next bytes. `ServeEffect` applies it to each
PUT; the client's steps are quiet (`QuietStep`) or send a PUT (`SendStep`).

`StreamedUploadProofs` proves, for every source, however it is cut, and every buffer
size: `NothingDropped` and `InStep`, and for a server that keeps whole bodies the
type invariant, `WholeObject` and the contract. That condition cannot go: with
partial commits `WholeObject` is violated (finding 3). The invariant accounts for
every byte: the session holds what precedes `offset`, the held buffer the next
`Aligned` bytes and the current buffer the rest of what was consumed
(`BufferInv`), and an answer that is not an error means that the session has the
body that was sent (`RequestInv`). `MiddleInv` and `LastInv` say which buffer the
body is a view of, and that the last PUT ends where the source does.

`S3Proofs` proves `Tidy` and the refinement of `UploadContract`, for every payload,
cut of the source, size of a part and number of retries. For `Tidy` the invariant
counts: each attempt at a creation opens one upload at most (`CreateInv`), only the
last one is ever used (`UploadInv`), and it is closed unless its abort was given up
(`ClosedInv`). For the contract it
says where each byte is: the parts are the beginning of the payload, the shared
buffer continues them and the chunk continues the buffer, up to what was read
(`HeldInv`), so that a completion, which has nothing left in chunk or buffer,
concatenates all of it; a good answer means that the object is there
(`ObjectInv`). `FlattenAppend` is the induction over parts.

`OAuthProofs` proves, for every set of callers and grants and any number of retries
and tokens: the type invariant, `Refreshable`, `FreshToken` and `StaysRevoked`.
They assume that the numbers are natural and that `None` is not a session.
`Refreshable` is not inductive: a call that waits to store a session could store
an old one. `FreshInv` says that every session on its way has the token Google
honours, and this holds because of `Unique`: where tokens rotate, the token of a
session on its way is neither in the storage nor in the hands of a call that could
refresh with it, so that no second refresh of the same grant can succeed before
it is stored. `Numbered` gives that new tokens differ from all others, and
`CallInv` what a call's place says of it, among it that a refresh that goes on
without a session in the storage was overlapped by a revocation, which is
`StaysRevoked`. `FreshToken` is about a step: its proof follows a request into
each of the places from which it leaves, with the stored session (`StoredToken`) or
the one that was just issued. `QuietStep` treats all steps that change one call only; storing,
revoking, issuing and ending a grant have a lemma each.

`E2EEProofs` proves, for every frame size, limit of frames, payload length, cut of
the source, damage of the envelope and cut of what the storage gives back:
`SameEnvelope`, `WholeOrFailed` and `RoundTrip`. A payload is as long as it likes, so
the proof needs induction over its frames. It is carried by the least element of
the set of counterexamples (`LeastElement`, from `WFMin` of the library; `Climb`
for the frames one after the other) and gives `WholeEnvelope` a value at each
position. `E2EEInv` says of the writer that what is sealed is the beginning of the
whole envelope, with at most one full frame held back, and of the reader that
every ciphertext it accepted was made under one header, with the numbers 0, 1, ...
and no final flag; the first final one ends the output. So the output is a
beginning of one of the two payloads, and all of it when no error is
raised. `EchoInv` is the other half, for an envelope that was not touched: what
was read, what is buffered and what is to come are the envelope still, so that no
check of the reader can fail.

`ProviderProofs` proves, for all four providers and for any workers, paths,
contents, stores, concurrency, numbers of jobs and faults: the type invariant,
`MoveKeeps`, `OkMeansDone`, `Accounted` and `TypeFollows`. It assumes of the paths
that they are sequences of names which contain the folders above each of them, of
contents that they are neither `None` nor `Folder`, and of the stores what
`StoresAssumption` says. Three invariants carry it, and TLC checked each on the
instance of the run, the last for the local provider, before it was proved.
`CallInv` is the promise of a call at each of its steps, which holds as long as
nobody else touched what it is about: a copy that was acknowledged is at the target,
a move that has yet to remove its source has made the copy. `BatchInv` is about a
batch: every folder above a file is there (`LaidOut`, from which a walk reaches
every file), nothing changed but by the batch itself (`OwnKept`) and nothing is
taken that was not asked for (`Aimed`); a file that is sought is found or below a
folder that is still to be listed (`OnTheWay`), also between two pages
(`PagesKept`); what was found is in the queue, with a worker or in a result
(`Queued`), and what counts as deleted is gone (`AllCleared`). `TypesInv` is about
calls that do not overlap (`Alone`): the type of each file that is not astray
(`Sure`) is recorded, or the one call that is under way will record it.
`TypeCarried` is its heart: a file that a copy or a move leaves, and whose path is
not astray after it, was there before, or is the one that was copied or moved and
had its type recorded.

`DrivePathsProofs` proves, for any number of callers, nodes, calls and events and
any set of paths that contains the folders above each of them: `AloneDoesAsTold`,
`AloneKeepsCache` and `NothingHidden`. It assumes of the constants only
`PathsAssumption`: paths are sequences of names that begin with the application's
folder.

The first part is about the Drive as a tree. `Lead` is `At` for any sequence of
nodes. Since a move may put a node below a later one, the order of creation does not
serve for recursion along parents: `Closure` gives `Visible` and `Below` their
values, and `LeastElement` carries the induction over the length of a path. A node
is led to by one path only (`LeadUnique`), what lies below it is reached only by
longer paths (`BelowIsBeyond`), and `Grown`, `Pruned` and `Transplanted` say what the
paths lead to after a creation, a removal and a move. The second part is about resolving:
`Grounded(lead, call)` says that a call's ids are those that `lead` gives for the
paths of its plan, as far as it has come, and `ResolveIs` that cache lookups keep
this, if the cache agrees with `lead`, however many folders are cached. It
is used twice, once with the nodes a path leads to, and once with all nodes there
are, which holds whoever else changes the Drive.

The three properties are not inductive: they speak of calls that are done, and a
call is right at the end only if what it took from the cache, and what Drive
answered, was right on the way. `IInv` says this at each place of a call. `Shape` holds
always: the plan, the ids reached and the answer fit together, and the ids exist.
`Sound` holds for a call that is alone, and for all calls until something is removed
or moved: each id leads where the call believes, an answer to a search is
below the path that is sought, and an answer of the adapter's request means that
its effect is there. `Sharp` is what a call needs to conclude that something is *not*
there, and holds for a call that is alone only: no second file or folder shares its
path, but for a folder that the call itself just made beside a file of the same
name (`Clear`). `Lost` is the exception that a download may meet, an entry whose
file is gone, and `Struck` the moment between a removal or a move and its answer,
when the cache is still as it was. The lemmas
from `Started` to `Expired` take the steps one by one; `Proceeding`, `Responded` and
`Disturbed` are what steps of a kind have in common, and `Frame` shows that the other
calls keep what the invariant says of them. TLC checked each part of `IInv` on the
instance of the run before it was proved.

Only model-checked: liveness (`Settles` of `Migration`, `StreamedUpload`,
`ChunkedUpload` and `S3Upload`), since the prover does not reason about fairness with
ENABLED. The runs that find a violation show it on one instance and are not
restated as theorems.

## Not modelled

- `uploadResumable` of the browser package. Its comment (`upload.ts:211`) says that
  the `Range` of a 308 is trusted "over our own counter"; the code (`upload.ts:250`)
  advances by what was sent, and says why. A module would share `DriveSession` with
  the uploaders.
- Virtual paths, request signing, PKCE, MIME types, logging: functions of their
  arguments with tables of expected results beside them.
- Uploads without a type. `BYOC.upload` always sends one; a migration sends what
  the source says, possibly nothing, and then a sidecar that was there stays.
- Answers that a server may give and the environments do not: a 200 with an error
  in its body to a `CopyObject` or a `CompleteMultipartUpload`, a 207 to a WebDAV
  `DELETE`. In `ProviderOps` a local write that fails half-way (`Migration` has
  it, as the upload that truncates first).
- Quota, upload and download grants, metadata queries: they read and change
  nothing. `list` of Drive, which asks for one page of 100.
- The multipart body of a Drive upload, XML and JSON parsing, except where an entry
  is left out of a listing.
- The Python mirror, where `PROJECT.json` does not say otherwise.

## Plan

1. Done: the modules above, and theorems for every safety property of the passing
   runs.
2. A module for `uploadResumable` over `DriveSession`.
3. `list` of Drive with more than one page; the Python resolver, which drops what is
   below a path from its cache.
