# Verification of mautrix-telegram

mautrix-telegram bridges Telegram accounts to Matrix.  A user's account is
connected through a copy of the gotd library (`pkg/gotd`).  Its *connection pool*
and *RPC engine* carry requests over connections that die; its *updates engine*
turns an unreliable stream of numbered updates into calls of a handler.  The
*connector* (`pkg/connector`) converts these into events of the bridge framework
and Matrix events into requests, crawls the list of chats and imports their
history; `pkg/presence` carries the online status of Telegram users to the
homeserver.

This directory holds TLA+ models of the parts that keep state across several
goroutines or restarts, the TLC configurations that check them, and TLAPS proofs
of their most important properties for instances of every size.  `PROJECT.json` lists runs, the source lines
behind every definition, the mutants that show the checks can fail, the finding
and the hazards.

Contents: 1. Inventory.  2. Modules and how they correspond to the code.
3. Runs.  4. Fairness.  5. Proofs.  6. What the modelling found.  7. Limits.
8. Not modelled.  9. Plan.

## 1. Inventory

| Component | State | Operations | What makes it correct | Module |
|---|---|---|---|---|
| Sequence box (`sequence_box.go`, `gap_buffer.go`, `gap_check.go`) | local counter, pending updates, gaps, gap timer | Handle, applyPending, SetState, Clear | never moves past an update it has not applied; a gap is exactly what is missing and always timed | SequenceBox |
| Channel worker (`state_channel.go`) | a box (pts), diffTimeout, the stored pts | handleUpdate, handleTooLong, applyPts, getDifference, stop | nothing overtaken in memory or in the storage; every message arrives; a left channel stays left | ChannelState |
| Account worker (`state.go`, `state_apply.go`, `sort_pts.go`) | three boxes (pts, qts, seq), date, the stored State | handleUpdates, handleSeq, applySeq, applyCombined, applyPts, applyQts, getDifference | the same across nested calls; the storage keeps in step | InternalState |
| Queues (`state.go`, `state_channel.go`, `manager.go`) | externalQueue, internalQueue, one queue per channel | Push, the selects, the send of OtherUpdates | nobody waits for ever | UpdateQueues |
| Channel registry (`state.go`, `access_hash_feeder.go`, `manager.go`) | channels, recentlyLeftChannels, access hashes | handleChannel, RemoveChannel, createAndRunChannelState, Manager.Run | one worker per channel, one for a member, none for a private channel that was left | ChannelRegistry |
| Manager (`manager.go`) | the current internalState | Run, Reset, Handle, loadState | starts from the stored State | InternalState, ChannelRegistry (partly) |
| RPC engine (`rpc/engine.go`, `mtproto/rpc.go`, the `handle_*` files) | callbacks and acknowledgements by message id, salt, clock offset | Do, retryUntilAck, Notify*, Close, ForceClose, Invoke | executed once as long as a refused id stays refused, succeeds only if executed, ends | RpcEngine |
| Connection pool (`pool/pool.go`, `req_map.go`) | free connections, their number, waiting requests | acquire, release, dead, Invoke, Close | exact count, no connection lost, everyone served | ConnectionPool |
| Presence manager (`presence/presence.go`) | an entry per user, token bucket | Update, Activity, evictOne, Tick | tells the final state; never a false offline; respects debounce | PresenceManager |
| Last-seen reporter (`presence/seen.go`) | last times, a bounded queue | Note, Run | the latest time of everyone arrives | SeenReporter |
| Chat synchronisation (`chatsync.go`) | position and counts in the login's metadata | syncChats, handleDialogs, four callers | skips no dialog, keeps its limits, is completed | ChatSync |
| Backfill and takeout (`backfill.go`, `album.go`, end of `login.go`) | takeout session, its timer and lock, the queue's cursor | getTakeoutID, stopTakeout, FetchMessages | no hole, nothing twice, albums in order, sessions end | Backfill |
| Presence polling (`presencepoll.go`, `presencebisect.go`) | poll schedule | bisection over contacts | finds everyone online at a bounded number of requests | – |
| Online while active (`onlinewhileactive.go`) | a timer | Active, Stop | offline follows the last activity | – |
| Client lifecycle, logins (`client.go`, `push.go`, `login*.go`) | connection, login state | Connect, Disconnect, auth errors | one connection at a time | – |
| Events (`handletelegram.go`, `handlematrix.go`, `tomatrix.go`, …) | little | conversions | mapped one to one; mostly the bridge framework's state | – |
| MTProto connection (`mtproto/conn.go`, `read.go`, `telegram/client.go`) | connection state | reading and writing loops, ping, reconnection | reconnects | – |

How they interact.  A request goes through the pool, which gives it a connection,
to that connection's RPC engine, which sends it until the server acknowledges it.
Every message from the server is handled by a goroutine of its own: results and
refusals go to the RPC engine, updates into the account worker's externalQueue.
The account worker numbers an update through its boxes, calls the handler, and
pushes updates of channels into the queue of that channel's worker, which the
registry starts on demand.  Each worker asks the server for a difference when a
gap stays open for 500 ms, after 15 quiet minutes, and at the start; a channel's
worker sends what is not a message in its difference back to the account worker
through the internalQueue.  Both persist their positions after the handler has
returned.  The handler's status updates call the presence manager and the
last-seen reporter, whose own goroutines talk to the homeserver.  The chat
synchronisation creates rooms, whose history the backfill fetches; both may use
the takeout session, which an idle timer ends.

What is hard: updates, requests and answers are lost, repeated and reordered;
positions are in memory and in the storage, and the process may die between any
two writes; handler, storage and request errors are treated differently from
place to place; calls nest (an update's apply may run a difference, which handles
updates); bounded queues form a circle; lookups, sends and selects happen after
the lock is released; a timer runs against the call it belongs to.
`PROJECT.json` lists these as hazards at their lines.

## 2. Modules

A definition whose name starts with `Bad` is a mutant: a plausible mistake in
the definition after it, kept to show that a property can fail.  No
specification uses one.

**SequenceBox** is the box without an owner.  An update is its range
`[start, end]` of the counter.  `Handle` is split along its branches
(`HandleIgnore`, `HandleInGap`, `HandleApply`, `HandleRefetch`); because the box
calls its owner back in the middle of Handle, `phase` says whether applyPending
is walking the pending updates (`scan`) or the owner's apply runs (`apply`).
Copies of an update are counted; the order of the pending slice is abstracted to
"the earliest first", which is what the code sorts by.  The loop that consumes
the pending updates from a new gap is written in closed form (`ConsumeAll`).

**ChannelState** is one channel's worker: `pc` is where its goroutine stands in
Run, applyPts and getDifference, `stored` the pts in the database, `remote` the
server's.  Updates are not kept in a network: one that the server has produced
may arrive at any time, any number of times, or never.  `Faults` selects the
failures of an instance: handler, storage, request, private (CHANNEL_PRIVATE),
resync (onTooLong fails), dialog (an unusable Dialog), cancel (RemoveChannel),
crash.  `fate` is a history of what has become of each update.

**InternalState** is the account's worker with three instances of SequenceBox.
Its calls nest, so `stack` holds the running calls; `origin` says whether the
select returned a queue or a timer, because an error ends Run in the first case
and is logged in the second.  The server's log is the constant `Sent`; answers of
getDifference (whole, slice, empty, too long) are computed from it.  `Missing`
and the answers are external, modelled from how the code uses them.  So is the
server's numbering, the assumption `ServerNumbering`: a pts is never 0, ranges do not
overlap, those of a later container come later, and the numbers of a container
(`SeqRange`: one or several, from seq_start to seq) follow those before it.  A qts may
be 0, for which checkGap and applyQts have branches of their own: the box applies the
update wherever it stands and takes the 0 over, applyQts does not persist it.
`Placed` are the updates with a number above 0; the server may put the others into
any answer (`Gaps`).  `Counted` are those with a number and a count above 0; one with
count 0, like one with a qts of 0, has no place of its own on the counter, so no
difference need fetch it again, and the properties speak of the others.

**SequenceReader** is what the two workers promise, in terms of three variables: a
position, the saved position, and the items that are settled.  Items may be settled
early and repeatedly; the position moves only where everything before it is settled,
only the new position is saved, a crash goes back to the saved one, and a reader that
has left saves nothing any more.  ChannelState implements it with pts and its stored
pts (`Reader`), InternalState twice (`PtsReader`, `QtsReader`), though in a form in
which the position may also go back (`RepeatingSpec`, see section 6).  seq has no
reader of its own: it is stored before the box takes it over.

**UpdateQueues** keeps only who waits for whom: the three kinds of queues, the
container the account worker is sorting, and where each channel's goroutine is.

**ChannelRegistry** follows one channel: channels share only the account worker,
whose blocking is the subject of UpdateQueues.  The steps of handleChannel
(lookup, access hash, stored pts, create, push) are separate because they take and
release the lock; RemoveChannel marks, looks up and stops in three steps; the
goroutine of a worker deletes the entry by the channel's id.  The server's side is
`member`, `public` and the answers that tell of a leave (`notice`).  An object of
a worker is reused once nothing refers to it.

**RpcEngine** has one step for what happens under `e.mux`.  An id is a request and
a number, since Invoke makes a new id only after a refusal for the time; the server
executes an id once and answers or refuses each copy.  Ids carry the time: the server
takes them within a window (`read.go:19` has the client's side of the rule), so
`window` says whether the id of a request is early, timely or late, and `TimePasses`
moves it on between two copies.  `offset` is set or not, `right` says whether the
local time with it is the server's; `handleSessionCreated` sets an offset without
making it right.  `known` and `refused` are histories: the ids made with a known
offset, and those of which the server refused a copy for its time.  A handler takes a callback
from the map in one step (`fetched`) and calls it in another, which is where
answers meet a cancelled, repeated or ended Do.

**ConnectionPool** has one step for what happens under `c.mu` or under the mutex
of the request map.  `chan` is the one-place channel of a request; `woken` the
waiting requests whose stuck channel was closed; `missed` and `abandoned` are
histories of the two cases the code has no provision for (section 6).

**PresenceManager** models time as time since or time left, so that no clock
needs a bound (`ago` stops at the first value that makes no difference).  A tick
under the lock is one step; each request is a step for the limiter and one for its
result, with the handlers running in between.

**SeenReporter** splits Note after isNews, where the lock is released.  A caller
holds a status for a while, so that an older one can be noted after a newer one.
`told` is what the last request put, also if it is older than the one before;
`queued` and `newest` are histories of the order in which the times were queued.

**ChatSync** names a dialog by its date in the beginning; a new message gives it
the next date, which moves it to the top of the server's list.  `meta` is the
login's metadata in memory, `stored` in the database.  The loop of syncChats is
split at its requests and saves.  `checked` and `origin` are histories: the last
crawl that looked at a dialog, and the one that created its room.  A page is a set
of dialogs with the dates they had when it was fetched; its order is that of the
dates (`Position`, `Last`).

**Backfill** is one chat and the login's takeout session.  `pc` is where the two
callers of FetchMessages and the goroutine of the login stand; getTakeoutID is
split at the lock, the event, the request, the wait and the save.  The timer and
its sync.OnceFunc are `timer` and `spent`.  The bridge framework, which is not part
of the repository, appears as `Start…`, `Deliver` and `Record`: it calls with an
anchor and a cursor, puts what it gets into the room, and stores the cursor.
Messages are numbers, what a call has fetched is a set of them; albums, service
messages and calls are sets of a setting.  `lost` are the messages that the size of
a forward batch leaves out.

`MC…` modules only give names to small values; a `.cfg` fills in the rest.

## 3. Runs

| Run | Instance | Distinct states | Result |
|---|---|---|---|
| channel_safety | 4 updates (1, 2, 0 and 1 counts), all faults, one held copy of each | 709,497 | 8 properties hold |
| channel_liveness | the same updates; request and storage errors | 8,088 | every message arrives |
| internal | 3 containers (a qts of 0 among them), 2 arrivals, 2 failures of any kind | 527,940 | 5 properties hold |
| queues_liveness | 2 channels, queues of 1, 3 containers, 1 answer with OtherUpdates | 153,813 | nobody waits for ever |
| queues_wedge | the same, 2 answers | – | WorkerReturns violated |
| registry | 2 workers, 3 joins or leaves, a crash, a failure, 2 updates under way | 516,616 | 3 properties hold |
| rpc | 1 request, 2 attempts of 3 copies, a change of salt, all faults | 1,937,152 | 3 properties hold |
| pool | 3 requests, 4 calls, 1 connection allowed | 151,528 | 4 properties hold |
| presence | 2 users, room for 1 or 2, 4 or 3 reports | 525,258 | 4 properties hold |
| seen | 2 users, 2 callers, 2 times each, a queue of 1 | 87,323 | the latest time arrives, unless overtaken |
| chat_sync | 3 dialogs in pages of 2, 5 settings, 1 message, 2 crawls, 2 failures | 166,590 | 4 properties hold |
| backfill | 7 settings of up to 7 messages, requests of 3, 2 syncs, 2 failures | 309,804 | 6 properties hold |

Why the bounds are enough.

*channel.*  Three neighbouring ranges, one of length two, and an update without a
count are the least that makes two separate holes in one gap, a cut in the middle
of a gap, a duplicate inside and a stale one behind the counter.  `MaxCopies = 1`
bounds copies held at once, not deliveries: one update can still arrive again and
again.  `DiffLimit = 1` lets handleTooLong take both branches.

*internal.*  Each kind of number has at least two updates, so each box can have a gap;
a numbered container carries updatePtsChanged, so a difference runs inside applySeq; a
vote with a qts of 0 arrives on its own or among the OtherUpdates of an answer; two
failures let a second one hit the recovery from the first, and two arrivals let the
second container open a gap that the first one fills, or one be a duplicate.  How the
boxes take longer series of arrivals is the subject of channel_safety, and of the proofs.

*queues.*  One place instead of ten: what matters is full and empty.

*registry.*  Three changes of membership let a user leave, come back and leave
again while the answer about the first leave is still on its way.  A third worker
is never needed: a new one is made only when the entry is gone.

*rpc.*  Requests share the salt, the clock and the maps by id, where they do not meet;
one request with two attempts meets its own older id.  What another request would do
to the salt and the clock, `Rotate` and `SessionCreated` do.  A third attempt meets
two older ids; the theorems cover it.

*pool.*  With one connection allowed and three requests, one holds it, one waits
and one comes at any point of the other two's steps.

*presence.*  With room for one of two users every new user evicts; with room for
both nothing is evicted.  `Forget`, `Refresh` and `Debounce` are small but ordered
as in the code.

*seen.*  One place makes the queue overflow at once; two callers let a time be
overtaken between isNews and the queue.

*chat_sync.*  Pages of two make a full and a last page; the settings are:
everything at once, a limit with a part at the login, no limit behind a takeout,
and a dialog without a date in the middle or at the end.

*backfill.*  The settings without takeout are: an album across the end of a
batch, a whole batch of service messages with a forward batch that may be too
small, a call as the anchor of a chat that nobody writes to, a forward batch of
two requests with a backward batch larger than a request, and a first batch that
leaves the room empty.  Those with takeout have short histories, because there the
session is what matters.

Deadlock is checked for the account worker, the registry and presence.  It is not
elsewhere: the channel worker stops for good when it is removed, the requests of
rpc and pool are finitely many, the queues and the last-seen times are bounded,
and chat synchronisation and backfill end when they are complete.

What the properties say:

* `NothingOvertaken`, `CrashLosesNothing` (channel and account): neither the
  counter in memory nor the persisted one passes an update that was not handed
  to the handler, with the exceptions the code makes on purpose: the handler's
  error in applyPts of a channel, OtherUpdates that are on the internalQueue,
  and differences the server declares too long.
* `ReadsWithoutHoles` (channel), `AccountReads` (pts and qts of the account): the
  worker implements SequenceReader.  Beyond the two above this relates the writes of
  a step: what is stored is the position the worker moves to in the same step, or
  what was stored before.
* `BatchIsContiguous`, `GapsAreMissing`, `FilledGapApplies`: the box's
  bookkeeping is exact.  The third also says that the "Empty buffer" warning of
  applyPending is unreachable for a channel.
* `OpenGapHasTimer`: a known gap is always about to be resolved, also one that
  was opened inside getDifference after the gaps were cleared.
* `LeftStaysLeft`, `NeverBackwards` (channel): what a stopping or confused worker
  must not do to its position.  They are theorems and have no run: in the run
  ReadsWithoutHoles stands for them, which implies the first and lets the counter go
  back to the stored position only.
* `StorageInStep`: a waiting account worker's State is the stored one.  It holds
  for pts and date; `seq` may be *behind* in memory, because applySeq sets it
  to the batch's value after a difference has moved it ahead; and `qts` may be 0 in
  memory while the storage keeps the old value, after an update with a qts of 0.
* `EveryMessageArrives`, `EveryUpdateArrives`: lost pushes are made up for.
  Updates of a channel that are not messages are excluded: see section 6.  The
  account's worker owes nothing while Run has ended, which nothing in the code starts
  again (section 4); once it is started, it makes up for what it missed.
* `WorkerReturns`: the account worker gets its update into a channel's queue.  In
  queues_liveness there are as many places in the internalQueue as answers with
  OtherUpdates, so the circle of the hazard at state_channel.go:275 cannot close:
  what holds there is that a stop releases a waiting Push.  queues_wedge is the run
  in which the circle can close, and does.
* `RunningIsRegistered`: whoever deletes, looks up, creates and stops in whatever
  order, a running worker is the one in the map.  It depends on RemoveChannel
  leaving the entry to the worker's goroutine.
* `MemberIsServed`, `LeftIsForgotten`: membership wins over late answers.
* `ExecutedOnce`, `SuccessIsReal`, `CallsEnd`: a request that is sent up to six
  times under up to two ids has one effect, its own result, and an end.  The first
  makes an exception for an id that was made before the offset was known, of which
  the server refused one copy for its time and executed another (section 6).
* `TotalIsExact`, `NothingLost`, `EveryoneServed`, `CloseEndsCalls`: the pool's
  count, its connections and its waiting requests.  The first makes the panic in
  `dead` unreachable.
* `OfflineIsNews`, `DebounceWhileTracked`, `Converges`, `OnlineIsRepeated`: what
  the homeserver sees of a ghost.
* `LatestArrives`: the homeserver is left with the latest time of each user, or the
  request for it failed: the next snapshot repairs what a full queue dropped, or what
  a call that noted an older time held back.  It does not repair a time that was
  queued in the wrong order, which is the exception (`Overtaken`, section 6).
* `NothingSkipped`, `CompleteIsTrue`, `CreateLimitKept`, `EventuallyComplete`:
  the crawl across calls, errors and restarts.
* `NoHoles`, `NothingTwice`, `AlbumIndexes`, `EverythingBridged`: the room has the
  history, once, in order and in the end completely.
* `AcceptedIsNoticed`, `SessionEnds`: no wake-up is lost, and a session ends, with the
  exceptions that the code has no provision for: the request to end it failed, the
  bridge was restarted and has not used it since, or does not know it.

## 4. Fairness

*ChannelState.*  Weak fairness of the worker's own steps: a goroutine that can
run does.  Weak fairness of the two timers.  Strong fairness of IdleTimeout: the
idle timer is reset by each update, so it fires only in quiet periods, which are
assumed to recur.  Strong fairness of Request: a request that is made again and
again is answered in the end.  Arrivals, restarts and server updates have none.

*InternalState.*  Weak fairness of the worker's steps and of the idle timer; the
number of arrivals is bounded, so quiet comes by itself.  getDifference retries
transient errors without limit (`state.go`), so the answer is one of its steps.
`Start` has none: when Run ends with an error, `runInBackground` reports it to the
user (`client.go:581`), and `Manager.Run` refuses to run again until it is Reset
(`manager.go:145`).  A start is something that may happen.

*UpdateQueues.*  Weak fairness of each goroutine.  Strong fairness of a channel's
read of its queue: Go's select picks among the ready cases at random, so a timer
cannot win for ever.  Stops and pushes have none.

*ChannelRegistry.*  Weak fairness of the account worker, of RemoveChannel and of a
worker's end; the idle timer is why a worker finds out that its channel is
private.  A member gets updates with the full channel again and again, and the
account worker comes to them (strong).  Failures, crashes and leaves have none.

*RpcEngine.*  Weak fairness of the callers' goroutines, which includes the retry
timer and the call of a callback that was fetched.  Nothing is assumed of the
server.

*ConnectionPool.*  Weak fairness of the callers' goroutines; a new connection
becomes ready or dies.  After Close, the select of a creating request does not
avoid the end of the context for ever (strong).  Callers' contexts have none.

*PresenceManager.*  The ticker, the requests and time proceed; a request for one
user that is made for ever succeeds sometimes (strong fairness of its success).

*SeenReporter.*  Weak fairness of the goroutines; "the network repeats the same
time in every snapshot" (`seen.go`): a status of each user comes again and again
(strong).

*ChatSync.*  Weak fairness of the loop, strong of the lock.  The calls after a
login and after a restart are made, and so is the one of a takeout: "we assume
it'll resume from a getTakeoutID call" (`client.go`).  Messages, the command,
errors and crashes have none.

*Backfill.*  Weak fairness of the goroutines, of the timer and of the wait, which
ends when its delay is over; strong of the mutex.  The framework creates the room
and takes a task up until it is done.  That the user accepts is not assumed.

## 5. Proofs

Eight modules `…Proofs` extend a component's module and prove theorems for every
value of its constants: the bounds of the runs are gone, and with them the sizes
of section 3.  What a theorem assumes are the named assumptions on the constants
in the component's module (types and ranges, listed here where they say more) and
nothing else.

| Module | Theorem | Statement |
|---|---|---|
| ChannelStateProofs | TypeCorrect | `Spec => []TypeOK` |
| | OvertakesNothing | `Spec => []NothingOvertaken` |
| | CrashSafe | `Spec => []CrashLosesNothing` |
| | ContiguousBatches | `Spec => []BatchIsContiguous` |
| | GapsAreTimed | `Spec => []OpenGapHasTimer` |
| | GapsLackTheirUpdates | `Spec => []GapsAreMissing` |
| | FilledGapsApply | `Spec => FilledGapApplies` |
| | LeftForGood | `Spec => LeftStaysLeft` |
| | Forwards | `Spec => NeverBackwards` |
| | ImplementsReader | `Spec => ReadsWithoutHoles` (refinement of SequenceReader) |
| InternalStateProofs | WorkerInvariant | `Spec => []Inv` |
| | CountersNeverOvertake | `Spec => []NothingOvertaken` |
| | CrashIsSafe | `Spec => []CrashLosesNothing` |
| | StorageFollows | `Spec => []StorageInStep` |
| | ImplementsReaders | `Spec => AccountReads` (two refinements of SequenceReader) |
| ChannelRegistryProofs | OneWorker | `Spec => []RunningIsRegistered` |
| RpcEngineProofs | AtMostOnce | `Spec => []ExecutedOnce` |
| | SuccessHappened | `Spec => []SuccessIsReal` |
| ConnectionPoolProofs | CountIsRight | `Spec => []TotalIsExact` |
| | ConnectionsKept | `Spec => []NothingLost` |
| | ConnectionsUndivided | `Spec => []Undivided` |
| PresenceManagerProofs | NoOfflineWithoutNews | `Spec => OfflineIsNews` |
| | RequestsAreSpaced | `Spec => DebounceWhileTracked` |
| ChatSyncProofs | PositionIsBehind | `Spec => []NothingSkipped` |
| | CompleteCrawls | `Spec => []CompleteIsTrue` |
| | CreationIsLimited | `Spec => []CreateLimitKept` |
| BackfillProofs | WakeUpIsKept | `Spec => []AcceptedIsNoticed` |
| | BatchesAreNew | `Spec => []NothingTwice` |
| | BatchesJoin | `Spec => []NoHoles` |
| | AlbumsInOrder | `Spec => []AlbumIndexes` |

Each module has the same shape: `Inv`, the conjunction of named parts; lemmas
about the operators; one lemma or step per action; `InvInductive`, `InvHolds`, and
the theorems.  None of the properties is inductive alone.  What each `Inv` adds,
and why:

**ChannelState.**  The assumptions are `UpdatesAreRanges` and `ChannelConstants`:
updates are ranges of naturals that the server's numbering keeps apart, none lies
below the initial position, and none ends at 0.

* `Positions`: the counter, the server's counter and the position of the running
  answer cut no update in two, and the counter is never ahead of the server.
  Without it a step from one position to a later one could skip half an update.
* `Batch` and `Chain`: while applyPending scans or apply runs, the accepted
  updates continue the counter one after another up to `next`.  Since updates do
  not overlap, whatever ends between the counter and `next` is one of them, and
  so is covered once the handler has it.
* `Saving`: between handler.Handle and SetChannelPts the batch is covered.
* `Answered`: in each stage of an answer, what the earlier stages were
  responsible for is covered; in the last, everything up to the answer's pts.
* `Timer`: an open gap outside getDifference has an armed timer.
* `Left`: after -1 was stored the worker is cancelled, so SetChannelPts fails.

* `GapsOK`, a second invariant above `Inv`: gaps are open only between two calls of
  Handle and outside an answer, their ends cut no update in two, and what follows the
  counter is either held or the start of a gap.  The last part is what makes a filled
  gap leave something to apply; it needs that `ConsumeAll` leaves the piece between
  the counter and the first held update (`RefetchStarts`).

Steps that leave the box alone share the lemmas `StandStill` and `MoveOn`, answers
`HandOutInv` and `TakeOverInv`.

`ImplementsReader` goes step by step (`ReaderStep`).  `FatesStay`: an update keeps
being settled, whatever its later fate.  `ReaderSteps` names the actions that touch a position: one
that takes a new position is an Advance, because `NothingOvertaken` holds after it and
`Left` lets it store nothing for a channel that was left; storing -1 is Leave, the end
of the process Resume; the others settle updates or are not seen by the reader.

**InternalState.**  The assumptions are `InternalConstants` (types; the log and its
items are finite) and `ServerNumbering` (section 2).  The difficulty is the stack: a
property must survive the return of a call into a caller that was left in the middle.
`Inv` therefore says, for each kind of frame, what its caller may rely on:

* `Nested`: which calls can be below which.  applySeq is at the bottom; getDifference
  runs alone or at the end of applySeq; applyCombined runs for a container, for a
  part of applySeq's batch, or for the edits of a difference.  So the stack has at
  most three frames, and only the innermost one is in the middle of something else
  than a call.
* `Busy`: while the pts or the qts box is busy, applyCombined is innermost, the other
  box rests, and what ends by the box's next position ends by the current one or is
  in the batch.
* `SeqBatch`, `SeqLoop`: the batch of the seq box is a chain of containers that the
  server has sent; everything up to the cursor of applySeq is settled, and seq is
  there.  That the numbers were sent is needed at the end: the difference that
  updatePtsChanged asked for stores a seq that is not behind the batch, whose own
  position the box takes over afterwards.
* `CombinedLoop`: the handler has the batch when its position is saved and the
  container when its seq is; until then all before the container is settled.
* `Differences` (`Answered`): in each stage of an answer, what is settled, what still
  runs in the applyCombined above it, and what the next stage will settle make up
  the whole answer.
* `Synced`, `Covered`: storage and memory are in step, and no counter of either has
  passed anything that is not settled.  A qts of 0 in memory is allowed (`QtsKept`)
  once an update with that number was settled (`Rewound`).

`CombinedInv` and `DiffInv` prove the steps of a call once for all frames below it.
The server's side is `ServerFacts`: what ends by the server's position after j
containers is in them.  `Heaviest` and `LastFacts` give the maximum of a finite set
without induction over data, from a minimum of the well-founded order on the sizes
of sets.

`ImplementsReaders`: `SavesOrStops` sorts the steps.  Those that store something
(`Saves`) take the position they store, or fail to store it; with `Covered` after the
step they are a Move of both readers.  The end of Run and a crash (`Stops`) are Resume,
because a worker that is down is at its stored State; a start from a State the storage
already has is not seen by the readers, and the first one (`StartReads`) settles what
lies before the State the server gives.

**ChannelRegistry.**  `Registered` and `NotEnded` make the entry and the worker the
same thing; the point is `Sole`: from the lookup that found no entry until
createAndRunChannelState the entry stays absent, because only the account worker
creates one.  `Holds` and `Found` say who may hold a stale worker.  Two names for
workers are enough (`RegistryConstants` asks for them): `FreshWorker` shows that
one of them is free whenever a worker is created, so the set is not a bound on
behaviours.

**RpcEngine.**  `Replaced`: whenever Invoke goes on to a new id, the server had
refused a copy of the old one for its time, and the old one was made without a known
offset; for `handleBadMsg` reports a resync only when the offset was unset.
`ExecutedIsMade`: nothing is executed under an id that was not yet made.  So of two
ids under which a request was executed the older is among `refused \ known`, which is
all that AtMostOnce leaves open: no clock is assumed.  `Says` is what an answer claims about the id it is for; the rest of
`Inv` follows a claim on its way from the server (`AnswersTrue`) through a fetched
callback (`FetchedTrue`) and the variables of Do (`AnswerTrue`, `ResultTrue`).
`Current`: the maps hold callbacks of the running Do only, under the id it sends.
A late callback of an earlier attempt is the hard case: it is called, but for a Do
that has returned.

**ConnectionPool.**  `Roles` ties a request's place in acquire to what it holds;
`FreeOnce` and `Exclusive`: a connection is in one place only: the free list once,
one request, or one channel.  With that every step changes the two sides of
`TotalIsExact` alike, and `Kept` (NothingLost) is preserved because a connection
leaves one place only for another.  `Undivided` is the part that callers rely on.
`Conns` is a set of numbers of any size.

**PresenceManager.**  `Paced` relates sentAt of an entry with the time of the last
request, `DueIsPaced` carries the debounce over to the requests Tick has noted and
not yet sent, and `OneEach` and `Accounted` say that these are one for each ghost,
whose entry is there or was deleted meanwhile.  `News`: an entry that wants to go
offline had an online before, or an offline has been sent or is about to be.
`PresenceConstants` has `Debounce <= Refresh`: true of the defaults, and meant by
the names, but not checked by the code; a shorter refresh would win over the
debounce.

**ChatSync.**  A dialog either has its first date or one above all first dates
(`DatesOK`), so messages during the crawl only move dialogs up.

* `PositionOK`, of the position in memory and of the stored one: everything at or
  above the offset is checked; `count` has at least the dialogs above it that got no
  message (so the create limit is not spent twice) and, if every dialog has a date,
  not more than there are (so the update limit is not reached too early); between
  the offset and the cursor there is nothing with a date.
* `PageOK`: the page lists, without a gap, what lies between its ends, and the
  same counts hold with the page included; checked once `HandleDialogs` is done.
* `LimitsOK`: the limits of the running call are the configured ones minus the
  count; when the loop ends, the dialogs that matter are checked.
* `CreateOK`: where a crawl has created a portal, fewer than create_limit quiet
  dialogs are listed before it; so the created ones fit into the limit.

`Later` describes everything that happens to dates and checks during the crawl;
`PositionKept`, `PageKept`, `TopKept` and `CreateKept` show that it breaks none of
these.  `SameIsLast` is the argument that a page ending with the old cursor is the
last one.

**Backfill.**  The assumptions are `BackfillConstants` (types and ranges) and
`AlbumsAreConsecutive`, which is what the comment of telegramAlbumIndex says of
albums.  `LockHeld` is enough for the wake-up.  The history needs `ForwardOK`
(a forward call goes on from the newest bridged message, which remains that until it
ends), `BackwardOK` (a backward one from below everything bridged, or looked at
without anything to bridge, and what it has reaches up to there), `RecordOK` (the
cursor that is about to be stored), and `Above(cursor)`: from the stored cursor to
the newest message there is no hole, which is why a crash before the next cursor is
stored does no harm.

* `CallHistory`, for a chat with calls that nobody writes to: an anchor that is a call
  makes FetchMessages start from the newest message, so the joint is not the anchor
  but the end of the chat.  From everything that was bridged from a batch, from the
  cursor, and from where a backward call began there is no hole up to the newest
  message (`Reaches`).
* `Albums`, for a chat without calls: no item of an album is in the room before those
  that come before it (`InOrder`), unless a forward batch has cut the album.  A full
  backward answer has whole albums after trimTrailingAlbum (`TrimmedIsWhole`, by
  counting: a batch that is nothing but one album is as large as the album), and one
  that is not full has all that is left (`AnswerIsFull`).  So whoever computes an index
  knows the items before it (`IndexIsRight`).  The one place where the two directions
  meet is a backward batch that comes while a forward call holds indexes it computed
  without it: then the anchor between the two would be an item of the same album, whose
  earlier items are in the room already.

Every invariant, every action property and both refinements that the runs check are
the subject of a theorem.  Only model-checked is liveness (the properties under
fairness), which the prover does not handle; no proof needs ENABLED or induction over
data.

## 6. What the modelling found

One disagreement with the code's own words has a run:

* **queues_wedge.**  A channel that waits for a place in the internalQueue does
  not read its own queue, while the only reader of the internalQueue waits for a
  place there.  With the real sizes it takes eleven answers with OtherUpdates and
  eleven updates for one of these channels at about the same time, as after a
  long disconnection.

The others are exceptions that the properties make, each at its hazard:

* `state_channel.go:241` says that all updates ignored during the wait are
  restored by a later difference.  One that came from an earlier answer's
  OtherUpdates is not: its pts was stored already.
* `state_apply.go:101`: applyCombined hands every update that belongs to no
  channel to the handler after its loop, also one that its box has just held back.
  It is delivered before the missing one, and again afterwards.  The same line is
  why no update is lost when a box drops its pending copies.
* `state.go:600`, found by checking that pts only moves forward: when the handler has
  failed, its updates stay pending, and the OtherUpdates of a later slice may join
  them.  They are applied beyond the slice, that position is stored, and setState of
  the slice takes pts back.  The next difference brings these updates once more, so
  nothing is lost; AccountReads lets the position go back.
* `state_apply.go:184`: applyQts skips SetQts for a qts of 0, but the box takes the 0
  over.  The worker then asks for its next difference from qts 0, and receives all
  that the server still has for qts once more; a restart goes on from the stored
  value.  Nothing is lost, and the answer puts the two in step again.
* `handle_bad_msg.go:58`, `engine.go:207`: a request whose id has a wrong time is sent
  again under the same id until the refusal is handled, and then under a new one.  If
  time moves the old id into the server's window between two copies (or out of it),
  one copy is executed and another refused, and the repetition executes the request a
  second time.  It takes an id from before the offset was known: once it is known,
  a refusal for the time is an error.
* `pool.go:197`: acquire queues a request, releases the lock and only then takes
  the channel of `c.stuck`.  If the last connection dies in between, the request
  waits until its context ends (`missed`).
* `pool.go:183`: a request that is cancelled while its connection is created
  leaves a connection that counts against the limit and that nobody gets
  (`abandoned`).
* `engine.go:80`: Do looks at isClosed and adds to the wait group afterwards, so
  Close can return before such a call; ForceClose still ends it.
* `presence.go:131`: the time of the last request is deleted with its entry, so
  an evicted user who comes back is due at once; and an entry evicted while its
  online request runs leaves the ghost online until the homeserver lets it decay
  (`orphaned`).  Activity compares under the lock and updates after releasing it;
  a longer online reported in between is cut short.
* `seen.go:80`: the comment at line 47 says that each time is sent once, in order.  Two
  callers that isNews let pass can queue their times in the other order; the older one
  is then put last and stays, because isNews (line 99) takes the later time in the
  next snapshot for old.  It stays until the user is active again (`Overtaken`).
* `chatsync.go:164`: if no dialog of a page has a usable top message the offset
  becomes 0, and the next request starts from the top again.
* `chatsync.go:159`, found by the proof of CompleteCrawls: with takeout.dialog_sync
  the page of the login may be so small that it has only such dialogs.  The full
  crawl then starts from the top with a cursor.  If a message changes the order, its
  first full page can end with that cursor, and the crawl is marked as complete
  although there is more.  `Dated` therefore asks for settings without it.
* `backfill.go:308`, found by the proof of BatchesJoin: the first backward batch has
  nothing to bridge, so the room is still empty when new messages come; a forward
  batch smaller than their number then leaves out the older ones, down to the cursor.
  They count as left out by the size of the batch (`lost`).
* `backfill.go:191`, found by the attempt to prove NoHoles for every chat: an anchor
  that is a call has no message id, so a forward and a backward call both start with
  the newest message.  If messages come between their requests and the forward batch is
  small, what came first lies in a hole between the two; only the live bridging of
  these messages, which the model leaves out, fills it.  `Steady` therefore asks for a
  chat without calls or without new messages, and AlbumIndexes for one without calls.
* `backfill.go:102`: the idle timer runs while the call waits for the acceptance.
  If it fires then, the session that was just accepted is ended after its first
  batch, and the user is asked once more.
* `backfill.go:142`: if the request to end a session fails, the OnceFunc is spent
  and nothing ends that session before a restart (`unfinished`).
* `album.go:165`: a `batch_size` above the 100 messages of one request is never
  reached, so nothing is trimmed and albums may be cut; forward batches are not
  trimmed either (`Fits`, `cut`).

## 7. Limits

* The server is an assumption: it numbers updates without overlap, answers a
  difference with what lies behind the given position, executes a message id once
  and takes it only within a window of time, and lists dialogs and messages by date
  and id.
* The handler is one step.  What it does with an update is not modelled, only
  that it returns nil or an error.
* Updates: the short forms of messages and the account's differenceTooLong with
  its missing resync; Manager.Reset and Handle before Run.  OtherUpdates that are
  lost from the internalQueue by a crash count as `passed` and are accepted by
  CrashLosesNothing; the code gives no stronger guarantee.
* Registry: an update pushed to a stopping worker vanishes, as in the code; the
  unlocked read of `s.channels` in saveChannelHashes sees the value before or
  after a write.  Hashes of users are left out.
* RPC: what a request and its answer contain; rpc_drop_answer is only the
  replacement of the callback.
* Presence: Activity has at most one unfinished call per user; the token bucket
  counts whole tokens and gains them in whole units of time.
* Last seen: a failed request is not made again, as in the code; the check of a
  time against the clock is left out.
* Chat synchronisation: communities, which do not count for create_limit, pinned
  order, ResetOnLogout, and what a sync puts into a room.  A dialog that appears
  on two pages counts twice for update_limit, as in the code.  Resyncs that were
  queued in memory are lost by a crash, which the model does not follow.  With
  dialog_sync on and the backfill takeouts off, no takeout call is ever made; the
  fairness above then does not apply.  That the idle timer may end a takeout while
  the crawl uses it is left out.
* Backfill: an empty room is filled from one side at a time; live messages,
  deletions, reactions and topics are left out.  The code reads the database once
  for each message of an album (`album.go:102`), the model once for a batch (`Return`);
  the two differ only while the other direction delivers in between.

## 8. Not modelled

`components` in `PROJECT.json` gives the reason for each part.  In short:
conversions, formatting and descriptions of rooms have no state of their own and
are better served by table tests; media transfer and the database are I/O;
cryptography and framing are out of a model checker's reach.  By far the most of
the repository's 912,000 lines is the generated schema in `pkg/gotd/tg`: getters
and encoders, 35,000 lines in the largest file, without behaviour to check.  The
share of lines that the models stand for is therefore small, and can only be read
against the hand-written code.

## 9. Plan

Done: SequenceBox, ChannelState, InternalState, SequenceReader, UpdateQueues,
ChannelRegistry, RpcEngine, ConnectionPool, PresenceManager, SeenReporter, ChatSync,
Backfill, and the proofs of section 5.

Models worth adding:

1. ClientLifecycle: Connect, Disconnect, auth errors, Manager.Run and Reset, and
   the reconnections of the MTProto client under it.
2. OnlineWhileActive and the bisection of presence polling (as a function, against
   a reference definition, with its request cost).
3. The album collector of outgoing events, reaction lists, poll votes, sticker
   synchronisation, live locations.
