# codaze: TLA+ models and proofs

codaze is a gateway in front of the Codex/OpenAI responses API. It owns a pool of
accounts, each a refresh token in a file; it spreads the requests of its clients
over them, refreshes their access tokens, and tries another account when one is
rate limited, out of quota, suspected or broken. This directory holds TLA+ models
of the parts of it that carry state or decide what a failure means, the TLC
configurations that check them, and TLAPS proofs of every safety property the runs
check.
`PROJECT.json` lists every component, run, theorem and hazard, and maps each
definition to the lines it models. Paths below are relative to the repository.

Check a run with `tlc -config <run>.cfg <module>`, and the proofs of a module with
`tlapm <module>.tla`, for `AccountLeaseProofs`, `AccountPoolProofs`, `AccountFilesProofs`,
`ResponseStreamProofs`, `WebsocketProxyProofs`, `ModelsCacheProofs`, `RouterProofs` and
`FailurePathsProofs`.

## The system

**Account records** (`src/accounts/mod.rs`, `lifecycle.rs`, `selection.rs`). One
`AccountRecord` per account, in memory: routing state, block (reason, source,
end), backoff level, access token, `in_flight_requests`, `refresh_in_flight`,
`detached`. Some fifteen operations of `AccountStore` change several of these
fields each, by conditions that differ from operation to operation. They must
never say that a blocked account is ready, shorten a block, or strand a mark.

**Failover loop** (`src/failover.rs`). Each request selects an account, refreshes
its token if need be, sends, and settles the selection; on most failures it takes
the next account, on the first 401 it refreshes the token and tries the
same account again. It takes the store's write lock briefly and many times, and awaits the
token endpoint, the disk lock and the upstream between. A selection must be
settled exactly once on each of its many exits, and the loop must end. The caller
of the loop holds the account while it answers (body, stream or websocket)
and settles it then.

**Account directory** (`src/accounts/disk.rs`, `mod.rs`, `src/app/mod.rs`,
`src/main.rs`). One JSON file per account. Startup, a rescan timer, import,
deletion, refresh (the token endpoint replaces the refresh token at each use) and
retirement to `trash/` read and write it, each holding `account_disk_lock`, with
blocking disk operations that outlive a handler whose client leaves. A token lost is an
account lost: what is in memory and what is on disk must not drift apart, whatever
is killed half-way.

**Streamed responses** (`src/responses/stream.rs`). `ManagedResponseStream` passes
a body of server-sent events on, parses it on the way for the terminal event, adds an
event of its own when there is none, and settles the account. Chunks are cut
anywhere; completion, error, end, shutdown and drop come in any order.

**Responses websocket** (`src/responses/websocket/*`, `src/app/api.rs`). A `select!`
loop between a client socket and an upstream socket. Until the upstream commits a
request, what it says is held back and what the client sends is kept, so that the request
can be replayed on another account.

**Models cache** (`src/models.rs`, `src/app/api.rs`). One snapshot of the upstream's list
of models. Codex clients fetch it anew at each request, others read the
snapshot; a stale one is served and replaced by a task in the background, of which one
flag admits one at a time. A fetch whose answer cannot be read goes back into the
failover loop with the accounts it has tried. Fetches overlap and write in any order.

**Routing policies** (`src/router.rs`). Round robin (a cursor taken modulo the candidates
of the moment), least in flight, fill first. They should be fair although the
candidates change under them.

**Meaning of failures** (`src/classifier.rs`, `src/error_semantics.rs`,
`src/gateway_errors.rs`, `src/responses/failure.rs`, `pre_stream.rs`,
`websocket/errors.rs`, `src/http_shape.rs`, `src/upstream/http.rs`). An error comes as an
HTTP answer, an event in two layouts, a wrapped websocket error, a close frame, a
failed refresh or a broken transport. Its status, code, type and text decide how the account is
settled and for how long, whether the client resends, whether another account
is tried, and what the caller is told, in one of two shapes. These decisions are
taken at different places, by tables of their own, and have to agree.

**Others.** Normalization of requests and the headers of the HTTP client are
stateless.

The components meet in `AccountStore`: the loop, the stream, the websocket, the
fetch of models, the administration and the rescan all act on its records, under
one read-write lock, and on the directory, under one mutex.

## Modules

| Module | Models | State | Steps |
|---|---|---|---|
| `AccountLease` | what every user of the pool promises: take an account, settle it once | `lease`, `count` | take, settle, take over |
| `AccountRecord` | the operations on one record, as functions | - | - |
| `AccountPool` | requests in the failover loop over shared records, administrators, time | `records`, `diskLock`, `removing`; per request `pc`, `acct`, `tried`, `forced` | a critical section of the accounts lock, or an answer of upstream or disk |
| `AccountFiles` | the directory, the store, the token endpoint, crashes, an operator | `files`, `store`, `live`, `op`, `task`, `orphans` | a critical section, or one file written, moved or removed |
| `ResponseStream` | one streamed answer: parser, output queue, settlement | the fields of `ResponsesSseState` and `ManagedResponseStream`, `body`, `sent` | one `poll_next`, or the drop |
| `WebsocketProxy` | one websocket: client, upstream connections, turn, retry | `turn` is `pending_request`; `owed`, `asked`, `said`, `delivered`, `path` record what happened | one arm of the `select!`, or one answer the retry awaits |
| `ModelsCache` | the snapshot, its readers, fetches and background task | `cache`, `refreshing`; per fetch `pc`, `acct`, `tried`, `garbled`; `superseded`, `heard` record what happened | a critical section, or an answer |
| `Router` | the choice among candidates, over many requests | `policy`, `cursor`, `eligible`, `serving`; `passed` counts for a property | a selection, a settlement, a change of the candidates |
| `ErrorSemantics` | the tables: from status, code, type and hints to class, status and delay | - | - |
| `FailurePaths` | one request and the errors it meets, from the report to what the caller is told | `surface`, `phase`, `left`, `refreshed`, `attempt`, `report`, `settled`, `answer` | an answer, or one decision |
| `MC*` | instances for TLC: symmetry, small functions, the set of reports | | |
| `*Proofs` | lemmas and theorems | | |

`AccountPool` extends `AccountRecord`: an action of a request is the record operation at that
point of the code followed by where the loop goes next (`Continue`, `TryAnother`,
`Finish`). `AccountFiles` takes the records down to what concerns tokens and has the
disk in full; in `AccountPool` the disk is an outcome and a lock.
`WebsocketProxy`, `ResponseStream` and `ModelsCache` are callers that hold an account: their
settlements are `SettleHeld` of the pool. `FailurePaths` extends `ErrorSemantics` and
closes the gap between them: the pool, the stream and the websocket let a failure be of any class
its place allows, and `FailurePaths` derives the class from what the upstream reported.
`Router` makes the choice among eligible accounts that `AccountPool` leaves open.

### One abstract specification, three implementations

`AccountLease` says what the counter `in_flight_requests` rests on: a user holds
at most one account, and its count goes up and down with it. `AccountPool`,
`WebsocketProxy` and `ModelsCache` each instantiate it with a refinement mapping and have
`LeasesAccounts == Lease!Spec`:

- in the pool a request holds `acct[r]` from its selection to its
  settlement, and the count is the field of the record (0 when there is none);
- on the websocket the users are the loop and the retry; a retry that succeeds hands its
  connection to the loop, which is `TakeOver`;
- in the models cache the users are the fetches of callers and of the tasks.

TLC checks the last two, and all three are proved.

### What the models leave open or out

- `AccountPool`: any eligible account may be chosen, so that whatever routing policy is
  configured its choices are among the model's. The clock counts in seconds, and an access token is
  fresh, stale or absent. The upstream answers with any class of failure its call
  site can return.
- `AccountFiles`: the tokens of one account form a line (`Successor`), ids are the names of
  files and the hash of a token is the token itself, so that the fallback to the
  hash on import is there. The token endpoint takes a refresh token once; it is
  external. Emails, labels and timed blocks are left out. A scan is one step. The
  operator does not delete or break files between a scan and the end of its merge: the plan
  would then act on a directory that is no longer there; nor does it give a file the name
  of one that an import, a deletion or a merge is working on (`InWork`).
- `ResponseStream`: the body is made of pieces: the beginning of a field name, the
  rest of a data line with its event's kind, an empty line, text. Sequence numbers and
  the text of events are left out; the rewriting of failures to "gateway
  unavailable" is in `FailurePaths`.
- `WebsocketProxy`: a message is its kind. Payload rewriting, turn state and
  the dropping of `codex.rate_limits` for other callers are left out. A
  flush of several messages that fails delivers none of them; its client has gone.
- `ModelsCache`: a snapshot is a version that the upstream raises, an answer can be read or
  not. The clock counts in hours, as the time to live does, and does not tick between
  steps that only wait for a lock.
- `Router`: which accounts are eligible changes freely. `last_selected_at` is the order of
  the selections, on a clock that does not go back.
- `ErrorSemantics`, `FailurePaths`: a text is the set of hints the code looks for in it; words
  that mean the same to every table are one hint. Delays are numbers of seconds from now, absent or
  past. Messages, headers other than `retry-after` and the layout of bodies are left out, and
  so is when a block ends (`AccountPool`).

## Runs

| Run | Question | Instance |
|---|---|---|
| `pool_two_accounts` | Is every selection settled once, does a request keep its record, is a retirement left alone? | 2 accounts, 2 requests, 2 classes of failure |
| `pool_contention` | Do late settlements strand a mark or a detached record, contradict or shorten a block? | 1 account, 3 requests, all 8 classes, `Retry-After`, time to let all blocks end |
| `pool_liveness` | Is every client that stays answered? | 1 account, 2 requests that may disconnect |
| `files_durable` | Is every token in service on disk, and in service once? | 2 accounts (one file twice), 2 requests, drops, renames, crashes |
| `files_faults` | What holds when disk operations fail, clients leave, files are deleted or broken? | 1 account, 2 requests, everything switched on |
| `files_hot_load` | Is a file that stays loaded in the end? | 1 account, 2 requests, renames |
| `response_stream` | Do chunking and the order of endings matter? Do client and settlement agree? | every body of up to 6 pieces in chunks of up to 3 |
| `websocket_proxy` | Does the replay send all of the request, and the client read one response? Is each account settled once? | 3 accounts, 5 messages of client and upstream together |
| `models_cache` | Does one task refresh, is fresh fresh, who is blamed, does every fetch end? | 2 accounts, 2 callers that may both read a stale list, 2 tasks, clock to twice the time to live |
| `router` | Is round robin even, and is nobody starved by least in flight? | 3 accounts that come and go, 3 requests, a cursor that saturates at 7 |
| `failure_paths` | Do settlement, failover and what the caller is told agree, however an error is reported? | 2 accounts, 1 resend, every code with every type, every hint, every mixture of delays |
| `disconnect_leak` | see Disagreements | 1 account, 1 request |

### Why the bounds are enough

- Failover needs a second account, and the settlements of one account interfere from three
  requests on (one that fails, one late, one that selects again); hence two instances, one with
  two accounts and one with one account that three requests share. Cooldowns are 1
  and 2 seconds with `MaxTime` 2 in `pool_contention`: blocks of different lengths overlap
  and end. `LevelMax` is 1 there: the backoff has a first level and its
  cap. In `pool_two_accounts` time stands still, since its invariants do not
  speak of time; the proofs cover time for them.
- In `AccountFiles` a token is rotated once (0 to 1), so old and new are told
  apart; a second file name gives duplicates and renames; two requests are the fewest
  whose refreshes overlap. Symmetry exchanges requests only: ids are ordered.
- A data line in the middle of a chunk needs two pieces and an event three; six
  pieces hold two events, one of them cut, and text in front. `MaxChunk` 3 lets a
  chunk hold an event end and the beginning of the next.
- On the websocket two or three messages are a request, its continuation and a second
  request on the same socket; two or three upstream messages are one held back, the
  commit, and the end; five in all let each meet the others. Three accounts let a replacement fail in its turn.
- In `ModelsCache` two callers are the fewest that race for the mark of the refresh: both may have
  read the list as stale before either looks at the mark. Their fetches and one of a task
  overlap, and a second task is there to be started by mistake. Neither caller is Codex, which
  differs only in that it fetches while a list is cached; the proofs cover it. With two accounts one may be unreadable and one fail. `TTL` 1
  and `MaxTime` 2 let a snapshot grow stale and a list be superseded before that.
- Three accounts are the fewest for which a rotation that leaves one out is still a rotation. The
  cursor goes twice round three candidates before its limit.
- Two accounts and one resend (the code has four) let each decision be taken with and without
  something left to try; the proofs cover any number. Statuses are the ones the
  tables tell apart, plus two that they do not.

Deadlock is not checked where `CHECK_DEADLOCK FALSE` is set: a request, a stream
and a socket end, and nothing need happen afterwards.

### Fairness

`AccountPool`: weak fairness of a request's own steps (`Step`), since tokio polls it
and the upstream client has timeouts; strong fairness of the two that
take the disk lock, since a tokio mutex serves in order of arrival; weak
fairness of the end of a deletion that has begun. Callers that hold an account,
administrators and time are under no obligation.

`AccountFiles`: the same for refreshes and the lock (`FinishRefresh`, `Retire`,
strong), for disk operations under way (weak), and strong fairness of `Rescan`, which an
interval timer repeats. A request in use settles (streams end).

`ModelsCache`: weak fairness of each fetch, which `unary_request_timeout` bounds, of the
answer to a caller that has read a stale snapshot, and of the task's last step. Nothing is asked
of clients, of the upstream's list or of time.

`Router`: every request is settled (weak), and new ones that no account has
failed keep coming (strong): a policy can be fair only to requests that come.

## Properties

What each property says is above its definition. The ones that a reader should
know of:

- `InFlightExact`, `HoldersHaveRecords` (pool): the count of an account is the number of
  requests that still have to settle it, and none of those loses its record. The
  code subtracts saturating, so one settlement too many would not be noticed.
- `BlockNotCutShort`, `ReadyMeansUnblocked`, `RefreshFlagHasOwner`, `DetachedInUse`,
  `EventuallyAnswered` (pool).
- `RetirementUndisturbed` (pool): a retirement takes two critical sections, with the move to
  `trash/` between them; meanwhile nothing drops or detaches the record of an account that was
  not deleted before.
- `TokenOnDisk`, `OneAccountPerToken`, `MergeKeepsTokens`, `DeletedStaysDeleted`,
  `UsersKeepAccounts`, `TokenNeverGoesBack`, `HotLoaded` (files). The first four
  are claimed of a process that may be killed but whose disk and clients do not
  fail; the code makes no such promise otherwise (a failed write only warns).
- `ChunkingIrrelevant` compares the incremental parser with itself on the whole body;
  `OneTerminalEvent`, `SettlementMatchesOutput`, `Transparent`,
  `SyntheticStartsLine` (stream).
- `SettledOnce`, `WholeRequest`, `OneUpstreamPerTurn`, `NoAccountTwice`,
  `NothingHeldBack`, `ClientTold`, `LeasesAccounts` (websocket).
- `OneRefresh`, `FreshIsRecent`, `BlamedOnlyForGarbage`, `LeasesAccounts`, `FetchEnds`,
  `StaleIsReplaced` (models). `FreshIsRecent` holds although an older snapshot may overwrite a
  newer one: what it bounds is how long ago the list was the upstream's.
- `RotationIsEven`, `NotStarved` (router). The rotation holds below `usize::MAX`
  selections; there the cursor stops.
- `Collapsed`, `RejectionShown`, `LastResort`, `ReportsAgree`, `AskedAgain` (failures).
  They relate decisions taken at different places of the code: an answer has a status and an event
  one that a table infers; each surface asks for itself whether an error may be shown; HTTP
  fails over by class, the websocket by status and class; the client resends by a rule of its own.
- `ReportsAgree` compares an HTTP answer with events that carry no status, only the type that
  goes with it (`default_openai_error_type`), a code or a text. What `InferStatus` makes of them
  must mean what the status of the answer means: a row missing from that table breaks it, as in
  the mutant `InferStatusForgets`.

`TypeOK` of a module declares the domains of its variables. It is proved of the pool, the
files, the stream and the websocket (`TypeCorrect`, `FilesTypeCorrect`, `StreamTypeCorrect`,
`SocketTypeCorrect`).

## Proofs

Everything below holds for all values of the constants, from the assumptions named in
the modules: the cooldowns are positive and the special values distinct
(`CooldownAssumption`, `PoolAssumption`, `FilesAssumption`, `NothingAssumption`,
`ProxyAssumption`, `ModelsAssumption`), the bounds of a stream are numbers
(`StreamAssumption`), the requests or fetchers are finitely many, a reported error has the
parts that its carrier has (`PathsAssumption`), and a refresh token the endpoint issues is new
(`EndpointAssumption`: it is issued in place of one token only, and nobody had it before).
Four theorems about the files and the two about marks have a hypothesis
besides; it is said where they are described.

Each safety property of a passing run is stated by one theorem. Few of them are
inductive; the invariant that each needs is named below.

**The pool** (`AccountPoolProofs`). `TypeCorrect`;
`SettledOnce`: `Spec => []InFlightExact`; `NoRecordLost`: `Spec => []HoldersHaveRecords`.
Neither of the last two is inductive. The count is kept only if a settlement finds its record; the
record is there only because it is in use, that is, because the count is right.
`IndInv` therefore joins `StoreType` and `RequestsType`; `BusyHasAccount`, which
ties a request's place in the loop to whether it has an account; and
`RecordsCount`, which says that every known record is typed and counts its holders, and that an
unknown account has none. Lemmas about one record give for each record
operation that it keeps the type and what it does to the count (`Keeps`);
`SettleCounts`, `StayCounts` and `RewriteAll` lift that to the pool; then there is
one lemma per action, or per few alike. A request whose client left counts among
the holders: the theorem says the count is never wrong, not that it goes down (see
`disconnect_leak`).

Blocks and marks, in the same module: `ReadyIsUnblocked`: `Spec => []ReadyMeansUnblocked`;
`BlocksRunOut`: `Spec => BlockNotCutShort`; and while clients stay
(`~AllowDisconnect`) `MarksHaveOwners`: `Spec => []RefreshFlagHasOwner` and `DetachedGo`:
`Spec => []DetachedInUse`. The first two are about one record at a time:
each operation is shown to be `Respects`, which holds the two of them for one record, and `EachRecord` says
that every step rewrites each record by such operations, wakes excepted. The last
two need each other: a detached record may stay only as long as its mark, and
the mark only as long as the refresh. `UseInv` joins them. Without `~AllowDisconnect`
they do not hold: a client that leaves during a refresh or a retirement strands the mark
or the record. `RetirementsUndisturbed`: `Spec => RetirementUndisturbed` rests on the invariant `LockHeld`
(a request that moves an account to `trash/`, or persists a token, holds the disk lock), so that
deletions, imports and other retirements are not enabled meanwhile, and on `OthersStay`: no
operation a settlement or a refresh makes detaches a record, and an attached one is not dropped.

**The lease** (`AccountLeaseProofs`, and the modules of the three implementations).
`LeaseCounts`: in the abstract specification the count of an account
is the number of its holders. `PoolImplementsLease`, `SocketImplementsLease` and
`FetchesImplementLease`: the initial states map to initial states, and every step to a step or a
stutter. The pool's needs `MarksExact`, which is `IndInv` read through the mapping; the
websocket's `LeaseInv` (a retry has a candidate exactly while it replays, and all selections are
accounted for); the cache's `LoopInv` (where a fetch is tells whether it has an
account to settle).

**The files** (`AccountFilesProofs`). Without any hypothesis, so with crashes, failed disk
operations and dropped handlers:

- `FilesTypeCorrect`, from `TypeInv`: besides types, which operation may hold the disk lock for
  which request.
- `UsersKept`: `Spec => []UsersKeepAccounts`, from `UsersInv`: a record counts at least the
  requests at work on it. Equality would be false; clients that left are counted for ever.
- `NeverGoesBack`: `Spec => TokenNeverGoesBack`, from `SpentInv`: there is a set of tokens that
  the endpoint no longer takes, which has the predecessor of each token that is known anywhere
  and of each of its own, and a request whose answer carries a new token has sent one of them, which
  its account still has.

While clients stay (`~Disconnects`), `DeletionsLast`: `Spec => DeletedStaysDeleted`, from
`AttachedInv`: whatever is about to be written is the file of an account in service. A
dropped handler's write is the exception the code has (see Disagreements).

While besides the directory is in order (`Orderly`), `TokensOnDisk`: `Spec => []TokenOnDisk`,
`TokensNotShared`: `Spec => []OneAccountPerToken` and `MergesKeepTokens`:
`Spec => MergeKeepsTokens`. `Orderly` says that disk operations succeed, that the operator only drops and
renames files and all could be read at first, and that a token the operator
has a copy of is not one that a refresh has replaced and is not at home under another name. `files_durable` is an
instance of it. The last part is needed: a file is named by the hash of its first token, so that an
import of a replaced token is written over the file that holds the newer one. The three
need one invariant. `DirInv` says that an account's file has the account's token, that the token of
each attached account is in some file, and that it shares it with no other that is attached or has
a file and may be attached again, but for what is just being written or deleted; `WorkInv` says for each kind of operation under the lock how far it has
come and what its plan, made before, still has to do: of a merge, that what it
removes has a copy that it keeps. `FreshInv`, that a token an answer brings is nowhere yet,
carries them over the end of a refresh.

**The stream** (`ResponseStreamProofs`). `StreamTypeCorrect`: `Spec => []StreamInv`, for bodies and
chunks of any length, and from it `ChunksDoNotMatter`, `EndToldOnce`, `SettledAsTold`, `NothingLost`
and `EventStartsLine`, which are the five properties of the run. The parser is incremental, so that the
invariant has to say where it is after a body that may have been cut anywhere:

1. `FlattenSeq` and `Drain` compute along a sequence, which the provers cannot unfold. `LeastNumber`
   (a set of numbers that is not empty has a least one, from the well-founded order of the
   library) replaces induction: `Joined` and `Turns` describe the intermediate results, and the
   first that would be wrong cannot exist.
2. `DrainLater`: more bytes behind a buffer leave the events found in it where they are.
3. `Reads(x, <<>>, s)` says without chunks that s is the parser after the body x: no field has been
   seen and at most the beginning of one is held back, or x has been cut at its first field
   (`Split`) and the rest drained. `ObserveReads`: a chunk takes Reads of x to Reads of
   x with the chunk behind it. `ReadsUnique`: a body has one such parser, but for how its output is divided.
4. So the parser is always where `Observe` on the body in one piece would have brought it
   (`ChunkStep`). `StreamInv` says this while the stream goes on; once it is closing, that it
   ended as that parser does, or as it does at the end of the body; and that a stream that has ended has
   given all its output to the client.

`Drain` is for this a recursive function, of at most as many turns as the buffer has bytes.

**The websocket** (`WebsocketProxyProofs`). `SocketTypeCorrect`; `SocketSettlesOnce`;
`SocketNeverReturns`: `Spec => []NoAccountTwice`, from `PathInv`: whoever was connected to for an
uncommitted request is excluded from the next attempt or has the request now.
`RequestsReplayedWhole`: `Spec => []WholeRequest`, from `KeptInv`: what is kept of a request that may be
retried is all that the client has sent of it, in order, and the connection has it too.
`ResponsesFromOneAccount`: `Spec => []OneUpstreamPerTurn`, from `TalkInv`: no text of a request that may be
retried has reached the client. `CommitsPassOnAll`: `Spec => []NothingHeldBack`, from `HeldInv`: what
is held back and what the connection has said are in step. `ClientsTold`: `Spec => []ClientTold`.

**The models cache** (`ModelsCacheProofs`). `OneTaskRefreshes`, from `FlagInv`;
`BlameIsJust`: `Spec => BlamedOnlyForGarbage`, from `HeardInv`: the two sets the code keeps tell how the
accounts failed; `FreshIsFresh`: `Spec => []FreshIsRecent`, from `FreshInv`: what is
on its way into the cache is the upstream's list of this hour, since the clock stands meanwhile.

**The router** (`RouterProofs`). `RotationEven`: `Spec => []RotationIsEven`. The candidates are
the places of a wheel and the cursor modulo their number is where it stands; an account has been passed
over at most as often as the wheel has moved since it stood at its place
(`Behind`), and that is less than the number of places.

**Failures** (`FailurePathsProofs`). `LimitsCollapse`, `RejectionsShown`, `LimitIsLastResort`,
`AskedAgainInBounds` and `ReportsSettleAlike`, for any set of reports, any number of accounts and any number of
resends. The tables come first: lemmas say which class the code, type and
status decide. For `ReportsSettleAlike` they say besides when two statuses mean the same (`Like`),
and that `InferStatus` reads from the type, or the code, of an event one like the status it
stands for (`TypeRead`, `CodeRead`). `MetInv` says that what is settled is what was met, where it can be met; `StepTells`
that a step tells what its place calls for; `SendsInv` counts the sends of one account.

Only model-checked is liveness: `EventuallyAnswered`, `HotLoaded`, `FetchEnds`,
`StaleIsReplaced` and `NotStarved`. It rests on fairness, and the provers have neither
`ENABLED` nor an induction over how far a request still has to go.

## Disagreements between code and documents

One has a run that shows it: in `disconnect_leak` a client that leaves before the upstream answers leaves
its account counted as in use (`src/failover.rs:252`; docs/OPERATIONS.md:384).
The others were met while modelling and are left as notes.

- A late failure of another request overwrites the `AuthInvalid` state of an account that is being
  retired, which may then be selected (`src/accounts/lifecycle.rs:233`;
  docs/OPERATIONS.md:255, CHANGELOG.md:110).
- A rescan removes the only readable copy of a token when the account's own file
  is broken (`src/accounts/disk.rs:422`; README.md:26).
- Two refreshes may hold one refresh token, and the one refused trashes the
  account though the other has a fresh token (`src/app/mod.rs:116`; docs/DESIGN.md:187).
- Any settlement clears `refresh_in_flight`, not only that of the refresh
  (docs/OPERATIONS.md:93): `RefreshFlagHasOwner` states the direction that holds.
- When the record is gone as a retirement ends, the request is answered 500
  instead of failing over (`FinalizeRetire`; docs/FAQ.md:37). It takes a deletion before the
  retirement; `RetirementUndisturbed` says that nothing during it has that effect.
- A deleted account's file comes back when the handler of a refresh was dropped
  with its write under way (`Orphan`; docs/API.md:674).
- A refresh token that was rotated away and is imported again overwrites the
  current one in the account's file (`src/accounts/disk.rs:111`).
- A last event without its empty line is passed on, and the event the gateway
  adds is read as part of it.
- On the websocket an uncommitted `response.failed` without a `response` is held
  back and dropped; `NothingHeldBack` excepts it.
- A fetch of the models that read an older list may write it over a newer one
  (`WriteCache`; docs/DESIGN.md:280).
- Once a request on the websocket has committed, an account failure is passed on with its
  `resets_*` fields (`CommittedFails`; README.md:191): `Collapsed` excepts that phase.
- An HTTP 403 whose body names a rejected request is told as unavailable after one
  account, while the websocket fails over on it (docs/FAQ.md:46).
- Hints in the code or type of an error count for HTTP bodies but not for events, a
  close frame is searched for fewer hints, and "unauthorized" or a word of risk in the text of an
  error that nothing else places makes an event a 401 or 403, where an HTTP answer with its
  status 400 rejects the request; `ReportsAgree` is stated where they agree.
- The round-robin cursor stops at `usize::MAX` and then always takes the same
  candidate (`src/router.rs:25`); `RotationIsEven` is stated below it.

## Plan

Done: the models above, and a theorem for every safety property that a run checks. Left:

1. The retirement of an account in `AccountFiles` as a refinement of the part of `AccountPool`
   that prepares and finalizes it, so that the two agree on when a record may go.
2. The lease as the interface of the stream: `ResponseStream` with an account in place of the
   list of its settlements, as a fourth implementation of `AccountLease`.
3. Lemmas that state what is proved of the tables in `FailurePathsProofs` without the steps, for a
   reader who changes a table.

### Not modelled

- Request normalization (`src/request_normalization.rs`): it rewrites JSON without state.
- Headers, fingerprints and URLs of the upstream client, and the transport itself: formatting
  and I/O. Its resends, timeouts and the classes of its errors are in `FailurePaths`.
- The parsing of arguments, logging, and the layout of bodies and messages.
- The handlers that only call the failover loop and the administration's read-only ones.
