# codearts2api in TLA+

codearts2api is a gateway: it offers the OpenAI chat API and forwards each
request to CodeArts with one account of a pool. What is hard about it is not
the forwarding but the pool: requests, probes, a token watchdog, logins and an
administrator all act on the same accounts, an account has very few upstream
session slots, its `refresh_token` is good for one use, and the process may end
between any two of these steps. This directory models those parts, checks them
with TLC and proves the central ones with TLAPS.

## 1. Inventory

| component | state | operations | who it talks to |
|---|---|---|---|
| chat route, `internal/server/handler.go` | per request: accounts tried, attempts, ownership of a slot; per process: sticky routes `convAcct` | sticky lookup, fast failure, rotation, slot wait, retry and queue wait, 401 repair, error classification, relay, route, reward | pool, verdicts, upstream |
| account pool, `internal/pool/pool.go` | per account: slots in use, error count, cooldown, ban, `Auth`; `state.json` | pick, acquire, release, validate, judge, enable, clear, add, reload, save, load | everybody |
| token refresh, `pool.go`, `client.go`, `auth.go` | the one-time `refresh_token` in memory, on disk and upstream; `refreshMu` | refresh, save, login, reload | STS endpoint, credential files |
| availability prober, `availability.go` | verdict per account and model, sweep flag, time of last traffic | sweep, probe, mark | pool slots, upstream |
| token watchdog, `internal/scheduler` | a ticker | refresh or validate every account | pool |
| web login, `oauth.go` | login sessions with expiry | start, poll, callback, import, complete | upstream, pool, files |
| admin endpoints, `admin.go`, `admin_config.go` | settings overlay | enable, disable, clear, reload, keepalive, change settings | pool, files |
| stream relay, `internal/upstream/sse.go` | content, reasoning and tool-call accumulators, finish state | apply event, relay, aggregate | client, upstream body |
| model catalogue, `models.go`, `handler.go` | models and benefit flags per account, back-off per source, list with its negative cache, `models.json` | discover, merge, commit, reload | upstream, pool, files |
| self-update, `internal/update` | executable, backup, temporary files, version | check, apply, roll back | release server, file system |
| configuration, `cmd/server/config.go`, `admin_config.go` | layers: file and environment, panel overlay in memory and in `settings.json`, what runs, `WatchInfo` | load, normalise, PUT, merge at a start | files, pool, scheduler, client |
| requests, `request.go`, `handler.go` | none of its own; the history is the client's | parse, pair tool calls with results, name the conversation | upstream |
| tool calls in a text, `tools.go` | none of its own | find fenced and bare calls | client |
| signing, prompts, panel | none of their own | conversions | |

Hard behaviours, each listed with its line under "hazards" in `PROJECT.json`:

* *Interleaving.* Requests of one account compete for slots while bans,
  cooldowns and verdicts change under them; several goroutines refresh one
  account; a reload replaces an `Auth` somebody is refreshing.
* *Partial failure.* The chat handler gives its slot back on six paths, gives it
  up and takes it again around a queue wait, and may fail to get it back.
* *Crash and restart.* Some operations save `state.json`, some do not, and one
  saves after it has left the lock; a refresh spends the old token before the
  new one is on disk; an update renames the executable in two steps.
* *Writing after the unlock.* A PUT of the configuration, a save of the routes
  and a login's save of `state.json` take their snapshot under a lock and write
  it afterwards, so that saves overlap, and the process may exit in between.
* *Caches in a row.* The list of models, each account's catalogue, a negative
  cache and the back-off of each source keep a new answer away for a while.
* *Data that outlives a failure.* A client repeats an interrupted history with
  every turn; an answer may be cut off inside a tool call.
* *Bounded retries.* Rotation, retry loop and slot waits are nested.

What makes each part correct: no slot leaks or is given back by a stranger, and
no account is over its limit; every request is answered; the rotation spends
its turns on new accounts; a fast failure refuses nothing that could be served;
a restart makes no banned or frozen account usable; no used token is presented
while the surroundings behave, and a login always revives an account; what the
settings page refuses never takes effect, and what it was not told never changes;
a benefit model keeps its header as long as its source says so; what is sent of
a history is complete; and a tool call in a text is found once and not invented.

## 2. Modules

| module | models | extends |
|---|---|---|
| `SlotPool` | abstract: what the pool promises about slots | |
| `ChatGateway` | chat route, pool health and slots, prober, environment | |
| `MCChatGateway` | instance for TLC, fairness, `RequestEnds` | `ChatGateway` |
| `GatewayClaims` | documents' claims about the route that the code refutes | `MCChatGateway` |
| `ChatGatewayProofs` | TLAPS proofs: types, slots, the slot pool, turns of the rotation, immediate refusals | `ChatGateway` |
| `PoolState` | health in memory against `state.json`, reloads, restarts | |
| `PoolStateProofs` | TLAPS proofs: the file is the more cautious of the two | `PoolState` |
| `Serving` | the handlers of the server, as the next two see them | |
| `Settings` | the configuration page, its overlay and the start's merge | `Serving` |
| `RouteFile` | the sticky routes and their file | `Serving` |
| `Persistence` | both in one process, with restarts | `Settings`, `RouteFile` |
| `PersistenceProofs` | TLAPS proofs about settings and route file | `Persistence` |
| `MCPersistence` | instance for TLC of both | `Persistence`, `PoolState` |
| `Catalogue` | sources of models, catalogues, the list | |
| `MCCatalogue`, `CatalogueProofs` | instance for TLC; TLAPS proofs: the benefit header | `Catalogue` |
| `Messages` | what is sent of a history, and as which conversation | |
| `ToolCalls` | tool calls found in a text | |
| `TokenRefresh` | the one-time token in memory, on disk and upstream | |
| `MCTokenRefresh` | instance for TLC | `TokenRefresh` |
| `TokenRefreshProofs` | TLAPS proofs: no used token arrives, the account survives | `TokenRefresh` |
| `LoginSessions` | the web login: polls, callbacks, imports, and what they save | |
| `LoginSessionsProofs` | TLAPS proofs: tokens stay with their keys, done means saved, callbacks find their session | `LoginSessions` |
| `StreamRelay` | one upstream stream, relayed and aggregated | |
| `ChatDataProofs` | TLAPS proofs: no orphans, stable conversations; a stream is its aggregate; calls in a text are found, none invented | `StreamRelay`, `Messages`, `ToolCalls` |
| `MCChatData` | instance for TLC of these three | `StreamRelay`, `Messages`, `ToolCalls` |
| `SelfUpdate` | the online update: files, renames, restarts, power failures | |
| `MCSelfUpdate` | instance for TLC | `SelfUpdate` |
| `SelfUpdateProofs` | TLAPS proofs: something whole is left to start, the first backup, no downgrade | `SelfUpdate` |

### SlotPool and ChatGateway

`pc[c]` is the place of a client (a request's goroutine, or the prober) between
two critical sections of the pool or two answers of the upstream; these are the
points where goroutines interleave. `acct` is its account, `loc` the locals of
`chatCompletions` (`tried`, the two loop counters, `authRetried`, `serr`,
`stickyAcct`). `active`, `errCount`, `cooling` and `disabled` are the fields of
`pool.Account`; `avail` the cached verdicts for the one model all requests ask
for; `route` is `convAcct`. The code has no record of who owns a slot. In the
model a client owns one when its `pc` is in `Holding`, the stretches of the
handler between an acquisition and the matching release, and the refinement

    holders[a] = {c : acct[c] = a, pc[c] in Holding}

shows that the bare counter implements `SlotPool`.

| actions | code |
|---|---|
| `Arrive` | sticky lookup and `modelKnownUnusable`, handler.go:861-876 |
| `PickSticky`, `PickNext`, `GiveUp` | head of the rotation loop, 880-898 and 1084 |
| `Acquire`, `AcquireTimeout` | `AcquireLockWait`, 902 |
| `Validate`, `DropInvalid` | 910-920 and `Pool.Validate` |
| `Answer`, `RefreshAfter401` | one call of `ChatStreamWithOptions` and the repair, 956-976 |
| `BackoffElapsed`, `BackoffCancelled`, `Reacquire`, `ReacquireTimeout` | the queue wait, 977-994 |
| `ReleaseFailed`, `Blame` | 997-1008 and `handleUpstreamError` |
| `Respond`, `Reward`, `BodyFailed` | 1028-1083 |
| `ProbePick`, `ProbeLock`, `ProbeEnd` | `pendingProbes`, `probeModel` |
| `CooldownEnds`, `Ban`, `Unban`, `VerdictExpires`, `ForgetRoute` | time, panel, watchdog |

Abstractions: time is left open (a wait ends by timeout whenever it may, a
cooldown or a verdict ends at any moment); an upstream answer is one of ten
classes, those `handleUpstreamError` and the retry loop tell apart; the upstream
serves the model on a fixed set `Serves` of accounts; the prober looks at one
model, and one sweep runs at a time with `probeConcurrency` 1. A client that goes
away can end a call with `cancelled`, cut the relay, or end the queue wait.

### PoolState

The health record `[err, cool, dis]` of each account in memory (`mem`) and in
`state.json` (`file`). All operations but `AddAccount` run to the end under
`p.mu`, so each is one step with its save or without. `AddAccount` is three:
the change, the collection of the entries, and the write, which may come after
another operation's save and replace it (`overwritten`). `PoolRestart` is enabled
in every state, so it stands for crashes too.

### Serving, Settings, RouteFile and Persistence

`serving[h]` says what a handler is at work on. A PUT is four steps: under
`settings.mu` the overlay is filled and the text for the file made
(`SaveOverlay`), then hot fields take effect (`SetLive`), the file is replaced or
the write fails without a word (`Persist`), and `WatchInfo` is brought up to the
overlay of that moment (`SyncWatchInfo`). A setting is a value of a small set;
`Bad` stands for all that `validate()` and `normalize()` refuse, `None` for a nil
pointer. `stale` and `touched` are history variables.

`RouteFile` tells names from files, as a file system does: `tmp` and `path` are
the two names, `disk` what is in a file, and a writer keeps the file it has
opened when the name is moved away. All saves share one temporary name, so a
writer may empty, or write into, the file another has opened (`Open`, `Write`),
and rename a file that is not its own (`Rename`); any of the three steps may fail
(`GiveUp`). `mixed` and `behind` remember
overlaps and failures; old routes are dropped at any moment unless a chat under
way uses them.

`Persistence` runs both with the same handlers and lets the process exit between
any two steps. Exits are those of the process: the code syncs neither file, and
what a power failure leaves of them is not modelled.

### Catalogue

`cat` is what `agentModelCatalog` holds of an account, `blocked` the back-off of
a source, `list` and `saved` the list and its file. A discovery (`Ask`, `Visit`,
one `Query` per source, `Commit`, `Publish`) is cut wherever another may come in
between, since no lock is held from the queries to the commit. `offer` is what
the upstream would answer; it changes a bounded number of times. `round` records
what the last commit of an account rested on. One discovery asks for the list,
one also comes from the panel's button, which passes the caches by. Accounts
are banned and revived at any moment; the letter case of names and `ClaimBenefit`
are left out.

### Messages

A client sends its history at every length; `history` grows by any message that
`parseMessage` can return. `Complete`, `KeepCalls` and `KeepResults` are the two
loops of `pairedToolMessages`, `Sent` and `SentCalls` what
`buildUpstreamMessages` makes of them, `ChatId` is `conversationIDFor`.

### ToolCalls

The text of an answer is a sequence of tokens: opening and closing fences, a call,
a wrapper of calls, a call damaged behind its key, a word. It grows token by
token, so that every beginning is looked at as an answer that was cut off there.
`CutBlock` is one turn of the loop over the fenced blocks, `FencedCalls` the loop,
`Bare` the two fallbacks. The loop has no bound in the code; in the model it takes
as many turns as the text has tokens, which is enough because each turn removes at
least a fence, and a turn without a block changes nothing (`SearchEnds` in
`ChatDataProofs` proves that none is left). The references (`BlocksInOrder`,
`AllCalls`) read the text position by position. `ToolCallsAssumption` says that a
wrapper has a call: `parseToolCallsJSON` refuses one without (tools.go:182).

### TokenRefresh

One account seen by the upstream (`issued`, `spent`, `boundTo`), the credential
file (`disk`), the pool (`cur`), and each refreshing goroutine (`own`, the `Auth`
it began with; `answer`). Logins and reloads prepare an `Auth` and swap it in
later, without `refreshMu`; from then on a busy goroutine is `detached`: what it
saves no longer reaches the pool, but does reach the one file. `faults` is fixed
in `Init` and says what the surroundings may do, so one run covers a gentle
regime and all faults together.

### LoginSessions

The sessions are numbered in the order of their creation. `live`, `done`, `err`
and `fallback` are the store and the fields of its sessions, `code` what the
upstream knows of each session's authorization code, and `op[w]` the locals of a
handler. A handler is cut where it waits for the upstream, between the file and
the pool, and between the unlocked writes of `Done` and `Err`. Handlers keep a
pointer to their session, so marks reach sessions that have left the store. A
wrong PKCE verifier is refused and spends nothing, as the code's comment
reports of the upstream; the answer to the right one may be lost. All sessions
log the same account in, the case in which they can hurt each other.

### StreamRelay

The upstream sends frames in one of two dialects; each frame is given to the
relay, as long as it reads, and to the aggregation. `ApplyEvent` is the event
automaton both share, on texts that are sequences of pieces; `Added` the suffix
the relay passes on; `Deliver` what reaches the client, who may be gone after any
of the frames written for one event. What the upstream does after its end
marker is left to `Eof` and `Break`. Snapshots extend what was said: a snapshot
that takes text back cannot be relayed by appending, and is not modelled.

### SelfUpdate

`file` holds what stands at the executable's path (name 0), at `.backup` (1) and
at `.backup.backup` (2). `self` is the name `os.Executable()` gives, which follows
a rename of the running file and stays when that file is replaced. `unsynced`
holds the earlier states of the directory that a power failure may bring back;
a sync empties it, and may fail without notice. Mutual exclusion of updates and
rollbacks, which `updateMu` and `Service.lock` give twice over, is the single
variable `at`; the restart endpoint takes no lock, so `Exit` is always possible.
Releases only ever get newer; a release withdrawn between the two look-ups of
one update would be installed whatever its version is.

## 3. Runs

| run | instance and bounds | shows |
|---|---|---|
| `slots` | 1 account with 1 slot, 2 requests of one conversation and the prober, 2 rotations, 2 attempts, all the classes of answer that change control, 1 intervention, fair to `r1` | `TypeOK`, `SlotsAccounted`, `ImplementsSlotPool`, `RequestEnds` |
| `rotation` | 2 accounts, one of which serves the model, a plain request and one of a conversation, 1 attempt, 1 intervention | `RotationSpendsNewAccounts`, `FastFailSound` |
| `persistence` | 2 handlers, 3 requests, 2 restarts; a hot and an announced setting of 2 values, one of them refused in `config.json`; 2 conversations, 4 files. Beside it 1 account of the pool, threshold 2, clock to 3, error counts to 3 | `TypeOK`, `OnlyValidInEffect`, `LonePutAgrees`, `OverviewCatchesUp`, `UntouchedFollowConfig`, `ReadableUnlessMixed`, `QuietFileAgrees`; `PoolTypeOK`, `FileCoversMemory`, `RestartForgetsNothing` |
| `catalogue` | 1 account, 2 models of which one is a seed, 2 discoverers, 4 answers of the sources, 2 changes or restarts, fair to discoveries and lifetimes | `TypeOK`, `ConfirmedKeepsHeader`, `PromotedLosesHeader`, `ListConverges` |
| `token_refresh` | 2 goroutines, 5 tokens, 2 client ids, regimes gentle and everything | `GentleKeepsAccountAlive`, `IncomingTokensUnspent` |
| `capability` | as `rotation` | violation of `RoutingAvoidsUnusableAccounts` |
| `disconnect` | 2 accounts, threshold 2 | violation of `DisconnectsFreezeNoAccount` |
| `login_sessions` | 2 logins of one account, 2 handlers | `KeyMatches`, `DoneMeansSaved`, `CallbackReachesSession` |
| `login_poll` | as `login_sessions` | violation of `PollKeepsRefreshToken` |
| `chat_data` | bodies: 2 pieces of text, at most 3 in a body of at most 4 frames, both dialects, with usage and without; histories: 2 ids, 2 texts, at most 5 messages; texts: 2 calls, at most 6 tokens | `ClientFollows`, `StreamEqualsAggregate`, `NothingAfterDone`, `RewardedWhenDelivered`; `NoOrphans`, `OnlyBrokenTurnsDropped`, `ChatIdStable`; `FencedCallsFound`, `NothingInvented`, `CutOffCallFound` |
| `self_update` | 3 releases, 2 updates without a restart, failing renames and power failures | `FilesWhole`, `AlwaysRecoverable`, `FirstUpdateKeepsRunning`, `NoDowngrade` |
| `update_rollback` | no faults | violation of `BackupUsable` |

`persistence` and `chat_data` look at parts that share no state side by side, each
moving while the others are where they start; that is as good as a run of each.

The bounds. One slot makes every competition for it happen with two requests
and the prober; the proofs lift the slot results to any number of clients,
accounts and slots. Two attempts are the least for a queue wait and a repair to
be followed by another call, two rotations the least for a second account; a
third of either repeats the second. `errCount` is counted up to its threshold, which is all
that is ever asked of it in this module. An intervention more lets a ban be
lifted that a request has set, which the 401 repair does too. In `PoolState` no operation reads
another account's entry, and what operations on others do to this one, a save,
is `JudgeAbsent`. In `TokenRefresh` five tokens let two refreshes, a login and
another refresh follow each other. Two logins and two handlers let a bare code
meet a session it does not belong to while the right one is polled. A body's
frames only differ in what they add to the state of the readers; three pieces
let a snapshot follow a delta and precede another, four frames let an end, an
error or a usage frame follow. Two handlers are the most that a step of a PUT or
a save can tell apart, as everybody else is the other one; a third request lets
a lone one follow two that overlapped, which is what the properties say must
heal, and two restarts let a file that was written after one be read by the
next. Four files are what two names and two writers can hold. In `Catalogue` one
model is a seed and one is not, which is all that the flags depend on; accounts
never meet but in the union of the list; two discoveries may commit in either
order, and two changes let an answer change and change back, or a restart fall
between. Five messages hold two turns with a call and a result each and the user
that asked; six tokens hold two blocks, or a block and what stands before,
between and behind. In `SelfUpdate` a third update without a restart
repeats the second under longer names.

Fairness. `RequestEnds` assumes weak fairness of the steps of one request only:
its goroutine runs, its waits elapse, and its upstream calls and its body end.
Nothing is assumed of the other requests or the prober, which may keep their
slots for ever: the waits for a slot have deadlines in the code. That a call
ends is an assumption about the upstream: response headers have a timeout of
120 s (client.go), a body has none.

`ListConverges` assumes that discoveries go on, since each of their calls has a
timeout of 30 s, and that the lifetimes of caches and back-offs end; it says that,
if then the offer stays as it is and clients keep asking for the list, the list
becomes what the sources say. That clients ask is a hypothesis of the property
and no assumption of the model. Restarts and changes need not be bounded for it
by fairness: they are by `MaxEvents`.

`CHECK_DEADLOCK FALSE` everywhere but for `LoginSessions`: requests are served
once and then stop, the counters of `PoolState` and `TokenRefresh` end, so do a
body, a history, a text and the requests of `Serving`, and a process that was stopped without an executable stays down.

### What the violations say

* `capability`: the availability prober and the documents promise that the chat
  route avoids accounts on which a model is known not to work. The route calls
  `PickExcluding`, which knows nothing of models; the picker that does,
  `pickAccount`, is called by tests only. The request ends with 404 although
  another account is known to serve it.
* `disconnect`: a client that goes away before the response headers makes the
  call return a plain context error, which `handleUpstreamError` counts against
  the account; the streaming path has a comment and a check against just that.
* `login_poll`: the guard of a poll is checked before the portal is asked, and
  not again before the answer is saved. Once the portal's first callback has
  been received, which is part of every login whose browser runs beside the
  gateway, a poll may be under way when the code comes, and then replaces the
  refreshable credentials by temporary ones.
* `update_rollback`: after an update the running file is called `.backup`, and so
  `os.Executable()` says; the rollback looks for `.backup.backup`. The tests set
  the path by hand. This rests on the link `/proc/self/exe`, which `os.Executable`
  reads at each call on Linux; `Follows` also has the value of a build that
  keeps the path of its start, and the run `self_update` covers both.

Some weaknesses are in the models without a run of their own, most of them
because no document says otherwise:

* a reload during a refresh makes the pool present a used token (`TokenRefresh`
  with the fault `reload` violates `SentTokensUnspent`);
* a repaired 401 on the last attempt ends with a ban (`ChatGateway`);
* `RefreshToken` presents the pool's `client_id`, although README.md:311-313 says
  old accounts keep their recorded one (`Accepted` in `TokenRefresh`);
* a relay whose upstream connection breaks ends without `[DONE]`, although the
  comment at sse.go:466 guarantees one, and a body that ends without an end
  marker counts as complete (`RelayBroken` and `Eof` in `StreamRelay`);
* the restart endpoint may exit between the two renames of an update, although
  handler.go:169 counts restarts among what `updateMu` serialises (`Exit` in
  `SelfUpdate`); the backup is then left to be restored by hand;
* `NoteSuccess` (pool.go:403) is the one judgement that is not saved, so errors on
  both sides of a success become consecutive through a restart, although the
  comment at handler.go:1271-1272 says that a single one freezes nobody
  (`NoteSuccess`, `PoolRestart`, `NoteError`);
* a benefit model the source has withdrawn in a complete round is revived by the
  next round in which the benefit source fails, since `lastBenefit` is carried on
  even then, against models.go:95-97 and 118-119; a round of the agent source
  alone drops the flags (`SetAccountModels` in `Catalogue`);
* an account whose discovery failed is missing from the list, although the
  comment at handler.go:677 says its old catalogue is used (`Visit`), and the list
  a discovery returns lacks the benefit models whose flags it keeps (`Commit`);
* overlapping PUTs may leave the older snapshot in the file and the older value
  in the running program, against admin_config.go:44 (memory and file are updated
  together); a failed write is answered as a success; two writers of the map
  `WatchInfo` may end the process (`Persist`, `SetLive`, `Restart` in
  `Persistence`);
* the page reports `benefit_auto_claim` as false as long as no PUT has set it,
  since a start puts only six values into `WatchInfo` (main.go:94-101), and
  the panel, which saves the whole form, then turns it off;
* overlapping saves of the routes may leave a file that does not parse, and so no
  routes after a restart (`Open`, `Write`, `Rename` in `RouteFile`);
* a client that reuses an id of a tool call in a later turn keeps both calls and
  only the last result (`ResultIndex` in `Messages`); a history that consists of a
  result without its call passes the check for something to send, and nothing is
  sent;
* a fenced call whose fence is not closed is lost when another fenced block
  follows, a damaged bare call hides the bare calls behind it, and a text with
  nothing but damaged blocks is passed on as it is, although the comment at
  tools.go:105-106 forbids it (`CutBlock`, `Bare` and `ExtractToolCalls` in
  `ToolCalls`);
* two logins of one account may leave different credentials on disk and in the
  pool (`WriteFile` and `AddAccount` in `LoginSessions`).

## 4. Proofs

`ChatGatewayProofs` proves for every value of the constants that satisfies
`GatewayAssumption` (finitely many requests, positive limits):

* `TypeCorrect`: `Spec => []TypeOK`, in particular `active[a] <= MaxConcurrent`.
* `SlotsAreAccounted`: `Spec => []SlotsAccounted`.
* `GatewayImplementsSlotPool`: `Spec => ImplementsSlotPool`.

`TypeOK` is not inductive: the loop counters stay in range only because a step
that increments one is taken below its bound, and an account is taken from, or
given back to, the pool only by a client that works on one. `IInv` adds
`AcctOK` (every engaged client has an account, nobody else), `RotOK` and
`RetryOK` (the loop bounds hold wherever the loop body runs). For the slots,
every step is classified by lemmas as one that keeps every client where it is
with respect to slots, takes one, or gives one back (`Keeps`, `Takes`, `Gives`);
`SlotStep` says `Next` is always one of these. From the classification follow
both the count (`SlotStepAccounted`, over the cardinality theorems of the
library) and the refinement (`SlotStepRefines`): a step of the gateway is a
`Take`, a `GiveBack` or a stutter of `SlotPool`.

and about the rotation, in its second half:

* `RotationIsSpent`: `Spec => []RotationSpendsNewAccounts`.
* `RefusalIsSound`: `Spec => FastFailSound`.

For the first, every step of a request is one of six moves in its rotation
(`RotationStep`: it starts, ends, gives up its sticky account, tries an account,
turns to the next, or stays in its turn), and `StepBalances` follows the number
of accounts tried through each. The count alone is not inductive: a sticky
account may have been tried before, so `RInv` adds that a request outside any
conversation never has one (`NeverSticky`). For the second, `VInv` says that a
cached "unusable" is only about accounts outside `Serves`, and that a handler
with such a refusal in hand still works on the account it is about (`ErrOK`): a
refusal that outlived `NextAccount` would be charged to another account.

`SelfUpdateProofs` proves under `SelfUpdateAssumption`, for any releases and
any bound on the chain of backups:

* `SomethingLeft`: `Spec => []AlwaysRecoverable`.
* `NothingTorn`: `Spec => []FilesWhole`.
* `FirstBackupIsRunning`: `Spec => []FirstUpdateKeepsRunning`.
* `InstallsLater`: `Spec => NoDowngrade`, for versions that are `Comparable` and
  `SuffixesAhead`.

Neither property is inductive: a power failure brings back an earlier
directory, and an installation writes what was downloaded steps before. `IInv`
says that the directory *and every one of `unsynced`* is `Fit` (something is
left, nothing is torn), that what is in hand is flushed before it is renamed
(`NewReady`), that between the two renames the backup is where a failed
installation looks for it (`BackupMade`), and that no update outlives its
process (`StoppedIsIdle`). `FitPut` and `FitMove` say that the two ways of
changing a directory keep it fit; each action then needs one of them.

`FirstMove` follows the first of the moves since a start: before it the
executable is what runs, after it `.backup` is, if there is one, and while an
update is between its renames it works on the name the process was started
from. `NoDowngrade` needs `Upward`: what any file holds, in the directory or in
`unsynced`, has been installed or released, so nothing that starts is ahead of
the latest release unless it is the first installation; and from the check on,
what is going to be installed is later than what runs. That takes the lemma
`GreaterRank`, that the comparison of versions part by part agrees with `Rank`.
The two hypotheses are what the attempt to do without them found. `Rank` speaks
of three parts below 100 only. And the code has a gap: `Apply` asks for the
latest release twice and compares the first answer only. Suppose a release with
a suffix is *older* than the installed version, say 1.2.0-pre after 1.10.0 was
installed by hand. The check says yes to it, as to any other tag with a suffix
(update.go:622), and when 1.3.0 comes out before the second question, 1.3.0
replaces 1.10.0. `SuffixesAhead` excludes just this; `MCSelfUpdate` assumes both
hypotheses of its versions, and TLC evaluates them.

`LoginSessionsProofs` proves under `LoginAssumption`, for any number of logins
and handlers:

* `KeysMatch`: `Spec => []KeyMatches`.
* `DoneIsSaved`: `Spec => []DoneMeansSaved`.
* `CallbackFindsSession`: `Spec => []CallbackReachesSession`.

`IInv` adds the shapes a handler's record may have and `KeyInHand`: once a code
is exchanged, the key in hand is that of the code's own session, since only its
verifier is accepted. Between the exchange and the two writes other handlers
may do anything; they do not touch that record. For the second property `DInv`
adds that whoever is past the write has written its session's credentials
(`Handled`), and that a session not yet started is neither done nor has a code
(`OnlyStarted`): otherwise a new session could be born done. For the third,
`AllReach` says of every callback under way that its code has been issued, and
that its own session, if it was waiting, is still among the candidates unless a
refusal was unclear or the code is spent: a clean refusal of the right candidate
means that somebody else was faster.

`PoolStateProofs` proves under `PoolStateAssumption`, for any number of accounts
and any thresholds:

* `TypeCorrect`, `FileIsCautious` (`PoolSpec => []FileCoversMemory`) and
  `RestartIsCautious` (`PoolSpec => RestartForgetsNothing`).

A step either saves under the lock (`Saves`) or makes records more lenient and
touches neither the file nor a login's save (`Softens`); the order
`AtLeastAsStrict` is reflexive and transitive, with `Fresh` as its least element,
which is why new accounts do no harm. `SnapCovers` says that entries a login has
collected and not yet written cover the memory unless a save came in between:
that is what the file becomes when they are written.

`PersistenceProofs` proves under the assumptions of `Settings`, `RouteFile` and
`Persistence`, for any settings, conversations, files, handlers and restarts:

* `TypeCorrect`, `ValidTakesEffect` (`OnlyValidInEffect`), `UntouchedSettings`
  (`UntouchedFollowConfig`), `LonePutLeavesAgreement` (`LonePutAgrees`),
  `OverviewShowsPage` (`OverviewCatchesUp`), `RouteFileReadable`
  (`ReadableUnlessMixed`) and `QuietFileIsMemory` (`QuietFileAgrees`).

For the settings the invariant says of every place a value passes through, the
overlay, its file, a request under way and its text for the file, that it holds
valid values of touched fields only. For the route file it says which file each
writer has open and that, unless saves have overlapped, the one writer has the
temporary name for itself and what it is about to rename is whole.

What a lone PUT achieves it achieves step by step, with the others' leftovers
around. `PutsApart` says that a PUT either has no other beside it or everything
counts as possibly left behind, and `PutCarries` how far a lone one has come: its
text is the overlay, then the hot settings agree, then the file. `SaveCarries`
says the same of a lone save of the routes: its snapshot is the routes until it
has been written, then the file behind the temporary name is. `OverviewCatchesUp`
alone is inductive as it stands, since the last PUT to end brings the overview
up to an overlay that nobody changes any more.

`CatalogueProofs` proves under the assumptions of `Catalogue`:

* `TypeCorrect`, `ConfirmedModelsKeepHeader` and `PromotedModelsLoseHeader`.

Their invariant says of every account how the flags, the last benefit answer
and the seeds follow from what its last round rested on; only `Commit` and
`Restart` change any of it.

`TokenRefreshProofs` proves under `TokenRefreshAssumption`, for any number of
goroutines, tokens and client ids:

* `IncomingUnspent`: `Spec => []IncomingTokensUnspent`, whatever goes wrong.
* `GentleSurvives`: `Spec => []GentleKeepsAccountAlive`.

`IInv` adds that who refreshes holds the lock (`LockHeld`), that only issued
tokens are known anywhere (`OnlyIssued`), and that the token of a login is known
to nobody who could present it before it is in the pool (`LoginApart`). `Alive`,
which holds as long as only logins and orderly restarts happen beside the
refreshes, says where the one token that still works is: a worker presents the
pool's token or, when a login has replaced that meanwhile, another one
(`OwnOrReplaced`), and the pool's is unspent unless the worker that is about to
replace it has just spent it (`PoolTokenUnspent`).

`ChatDataProofs` proves for histories of any length:

* `NothingOrphaned` (`NoOrphans`), `BrokenTurnsDropped`
  (`OnlyBrokenTurnsDropped`) and `ChatKeepsId` (`ChatIdStable`),

and for bodies of any number of frames in any pieces:

* `ClientFollowsAlways` (`ClientFollows`), `StreamIsAggregate`
  (`StreamEqualsAggregate`), `DoneIsLast` (`NothingAfterDone`) and
  `RewardIsEarned` (`RewardedWhenDelivered`).

`Least` and `Greatest` give the `CHOOSE` of a first and of a last position its
meaning, by the well-foundedness of the naturals; for histories the rest follows
from the two loops: a message whose calls are kept has a result for each, and
that result is kept for it. For the relay, what the client has received is a fold
over the outputs of a frame; `FoldedExists` and `FoldedAgree` show by a least
counterexample that the fold can be taken apart output by output, which replaces
the induction over data the provers cannot do. `BothFollow` then says that both
readers have read the same of the body, `ClientUnderWay` that the client has what
its reader has and no end marker yet, and `Agreed` that after a relay to the end
nothing is missing from either.

Of texts of any length, with any calls, it proves:

* `BlocksAreFound` (`FencedCallsFound`), `CallsAreSaid` (`NothingInvented`) and
  `CutOffIsFound` (`CutOffCallFound`).

The search is a recursive function over its turns, and each reference one over the
positions of the text. `TurnsExist` and `FlatExists` show, again by a least
counterexample, that these functions exist; `SearchEnds` is the induction over the
turns in the form the provers can use: a set that has the untouched text in it, and
with each text the one with its next block cut out, has in it what the search ends
with, and then there is no closed block left. Each of the three proofs names such a
set: the calls found are those of the reference up to the end of the last block
(`BlocksFound`), they are some of all calls up to there (`OnlySaid`), and nothing
damaged has been kept (`CutOffFound`). `CutsBlock` and `CutsNothing` say what one
turn does to a text that is part kept and part untouched, `BlockCloses` that with
fences in turn the next block ends with a closing fence and nothing but words and
bare calls come before it.

Only model-checked are `RequestEnds` and `ListConverges`, which are liveness and
out of the prover's reach. All other properties of the passing runs are proved.

## 5. Plan

Done: the route, the pool and its file, tokens, logins, the relay, the update,
settings and route file, the catalogue, histories and tool calls in a text, with
the proofs of section 4. In this order next:

1. `Sweep`: the single flight of forced and scheduled sweeps and their stop.
2. A composition of `ChatGateway` with token ages: a late 401 for credentials
   that were replaced meanwhile; and of reloads with slots.
3. `ClaimBenefit` beside the catalogue.

## 6. Not modelled

Signing and DPoP, JSON parsing, prompt and response layout, the panel, the
credit and check-in endpoints and the one-shot tools under `cmd/` are
conversions or I/O without shared state. Left out because they have no caller:
pool methods at pool.go:675-893, `pickAccount` and `discoverMissingCatalogs`. Of
parts that are modelled: the claim of benefits and the letter case of model
names, damaged wrappers of tool calls, the prober's schedule and its
single-flight flag, the watchdog's ticker, and power failures while settings or
routes are written.
