------------------------------ MODULE Backfill ------------------------------
(* pkg/connector/backfill.go, album.go and the end of login.go: the history   *)
(* of one chat is fetched in batches, the newest first, through a takeout     *)
(* session (an export of data that the user has to accept) if the             *)
(* configuration says so.                                                     *)
(*                                                                            *)
(* FetchMessages is called forward by the event loop of the portal, for what  *)
(* came since the newest bridged message, and backward by the backfill queue, *)
(* for what is older than the oldest one.  takeoutLock is held from the       *)
(* request for the session to the end of the call.  A timer ends a session    *)
(* that nobody has used for an hour.                                          *)
EXTENDS Integers, FiniteSetsExt

CONSTANTS
    MaxID,         \* bound: messages of a chat
    ChunkLimit,    \* chunkLimit: 100
    MaxAlbumSize,  \* maxAlbumSize: 10
    Configs,       \* the chats and settings to choose from (see below)
    MaxResyncs,    \* bound: forward calls
    MaxFailures    \* bound: errors, crashes and sessions the server ends

IDs == 1..MaxID

\* What a setting has: the newest message in the beginning and in the end (a
\* bound); the messages that are not bridged from a batch (service
\* messages, senders without an intent), among them the calls, bridged when they
\* happened under an id that is not one of a message; the album of each message
\* (0: none); the sizes of the batches (forward without and with an anchor,
\* backward); and takeout.forward_backfill and takeout.backward_backfill.
ASSUME BackfillConstants ==
    /\ MaxID \in Nat
    /\ ChunkLimit \in Nat \ {0} /\ MaxAlbumSize \in Nat \ {0}
    /\ MaxResyncs \in Nat /\ MaxFailures \in Nat
    /\ \A c \in Configs :
        /\ c.last \in 0..MaxID /\ c.first \in 0..c.last
        /\ c.service \subseteq IDs /\ c.calls \subseteq c.service \cap 1..c.first
        /\ c.album \in [IDs -> Nat]
        /\ {c.initial, c.catchup, c.batch} \subseteq Nat \ {0}
        /\ c.takeout \in [{"forward", "backward"} -> BOOLEAN]

\* "The messages of a Telegram album are created atomically ... and therefore have
\* consecutive IDs, and an album has at most 10 items" (telegramAlbumIndex).
ASSUME AlbumsAreConsecutive ==
    \A c \in Configs : \A a, b \in IDs :
        c.album[a] # 0 /\ c.album[a] = c.album[b] =>
            /\ b < a + MaxAlbumSize
            /\ \A m \in a..b : m \notin c.service /\ c.album[m] = c.album[a]

Fetchers == {"forward", "backward"}
Callers == Fetchers \cup {"login"}
Nobody == "nobody"

VARIABLES
    config,
    top,                        \* the server: the newest message
    session,                    \* the server: the open session (0: none)
    accepted,                   \* the server: the next request gets a session
    edit,                       \* an update about the acceptance is on its way
    takeoutID, stored,          \* TakeoutID in tc.metadata and in the database
    takeoutAccepted,            \* the event, set or not
    timer, spent,               \* stopTakeoutTimer, and its OnceFunc has run
    stopping,                   \* the calls of stopTakeout that wait for the lock
    holder,                     \* takeoutLock
    pc, tid, call,              \* of each caller: position, takeoutID, the rest
    cursor, done,               \* of the task in the backfill queue
    bridged, albumIndex,        \* the messages in the database of the bridge
    lost, cut,                  \* history: what the size of a forward batch left out
    unfinished,                 \* history: a request to end the session failed
    resyncs, failures

server == <<session, accepted, edit>>
saved == <<takeoutID, stored>>
stopTimer == <<timer, spent, stopping>>
takeout == <<saved, takeoutAccepted, stopTimer, holder, unfinished>>
room == <<bridged, albumIndex, lost, cut>>
chat == <<config, top, cursor, done, room, resyncs>>
data == <<chat, call>>
vars == <<data, server, takeout, pc, tid, failures>>

NoIndex == [m \in IDs |-> 0]

NoCall == [anchor |-> 0, min |-> 0, orig |-> 0, offset |-> 0, count |-> 0, limit |-> 0,
           messages |-> {}, index |-> NoIndex]

NeedsTakeout(p) == p = "login" \/ config.takeout[p]

Init ==
    /\ config \in Configs
    /\ top = config.first /\ session = 0 /\ accepted = FALSE /\ edit = FALSE
    /\ takeoutID = 0 /\ stored = 0 /\ takeoutAccepted = FALSE
    /\ timer = "none" /\ spent = FALSE /\ stopping = 0 /\ holder = Nobody
    /\ pc = [p \in Callers |->
               IF p = "login" /\ \E f \in Fetchers : config.takeout[f]
               THEN "lock" ELSE "idle"]
    /\ tid = [p \in Callers |-> 0] /\ call = [p \in Fetchers |-> NoCall]
    /\ cursor = 0 /\ done = FALSE
    /\ bridged = config.calls /\ albumIndex = NoIndex
    /\ lost = {} /\ cut = {} /\ unfinished = FALSE
    /\ resyncs = 0 /\ failures = 0

Failure == failures < MaxFailures /\ failures' = failures + 1

-----------------------------------------------------------------------------
(* The server and the user                                                    *)

NewMessage ==
    /\ top < config.last /\ top' = top + 1
    /\ UNCHANGED <<config, cursor, done, room, resyncs, server, takeout, pc, tid, call,
                   failures>>

\* The user accepts an export that was asked for, now or earlier.
Accept ==
    /\ ~accepted /\ \E p \in Callers : pc[p] \in {"clear", "init", "waiting"}
    /\ accepted' = TRUE /\ edit' = TRUE
    /\ UNCHANGED <<data, session, takeout, pc, tid, failures>>

\* Another export makes the session invalid.
Invalidate ==
    /\ Failure /\ session # 0 /\ session' = 0
    /\ UNCHANGED <<data, accepted, edit, takeout, pc, tid>>

\* The message about the export is edited: "Accepted".
OnEdit ==
    /\ edit /\ edit' = FALSE /\ takeoutAccepted' = TRUE
    /\ UNCHANGED <<data, session, accepted, saved, stopTimer, holder, unfinished, pc,
                   tid, failures>>

-----------------------------------------------------------------------------
(* getTakeoutID and the timer                                                 *)

To(p, step) == pc' = [pc EXCEPT ![p] = step]

\* The lock is free: stop the timer, and use the session or ask for one, with
\* a new timer.
Lock(p) ==
    /\ pc[p] = "lock" /\ holder = Nobody
    /\ holder' = p
    /\ IF takeoutID # 0
       THEN /\ tid' = [tid EXCEPT ![p] = takeoutID] /\ To(p, "fetch")
            /\ timer' = IF timer = "none" THEN timer ELSE "off"
            /\ UNCHANGED spent
       ELSE /\ timer' = "armed" /\ spent' = FALSE /\ To(p, "clear")
            /\ UNCHANGED tid
    /\ UNCHANGED <<data, server, saved, takeoutAccepted, stopping, unfinished,
                   failures>>

Clear(p) ==
    /\ pc[p] = "clear" /\ To(p, "init")
    /\ takeoutAccepted' = FALSE
    /\ UNCHANGED <<data, server, saved, stopTimer, holder, unfinished, tid, failures>>

\* An id that nobody remembers stands for a new one.
NewID == Min(1..5 \ ({session, takeoutID, stored} \cup {tid[p] : p \in Callers}))

InitTakeoutSession(p) ==
    /\ pc[p] = "init" /\ accepted
    /\ session' = NewID /\ accepted' = FALSE
    /\ takeoutID' = session' /\ tid' = [tid EXCEPT ![p] = session']
    /\ To(p, "save")
    /\ UNCHANGED <<data, edit, stored, takeoutAccepted, stopTimer, holder, unfinished,
                   failures>>

\* Mutant: the event is cleared after the answer, before the wait.
BadInitDelay(p) ==
    /\ \/ pc[p] = "init" /\ ~accepted /\ To(p, "waiting") /\ UNCHANGED takeoutAccepted
       \/ pc[p] = "waiting" /\ takeoutAccepted' = FALSE /\ UNCHANGED pc
    /\ UNCHANGED <<data, server, saved, stopTimer, holder, unfinished, tid, failures>>

InitDelay(p) ==
    /\ pc[p] = "init" /\ ~accepted /\ To(p, "waiting")
    /\ UNCHANGED <<data, server, takeout, tid, failures>>

\* The event is set, or the delay is over and the server gives a session.
Wake(p) ==
    /\ pc[p] = "waiting" /\ To(p, "clear")
    /\ \/ takeoutAccepted /\ UNCHANGED accepted
       \/ accepted' = TRUE
    /\ UNCHANGED <<data, session, edit, takeout, tid, failures>>

SaveTakeout(p) ==
    /\ pc[p] = "save" /\ stored' = takeoutID /\ To(p, "fetch")
    /\ UNCHANGED <<data, server, takeoutID, takeoutAccepted, stopTimer, holder,
                   unfinished, tid, failures>>

\* Mutant: the end of a call does not start the timer again.
BadRestartTimer(p) == UNCHANGED <<timer, spent>>

\* Reset works on a timer that has fired, too, but its function does not run again.
RestartTimer(p) ==
    IF tid[p] = 0 THEN UNCHANGED <<timer, spent>>
    ELSE timer' = "armed" /\ spent' = (spent /\ timer # "none")

\* The deferred calls of FetchMessages and of the login.
Unlock(p) ==
    /\ RestartTimer(p)
    /\ holder' = IF holder = p THEN Nobody ELSE holder
    /\ tid' = [tid EXCEPT ![p] = 0]

LoginReturns ==
    /\ pc["login"] = "fetch" /\ Unlock("login") /\ To("login", "idle")
    /\ UNCHANGED <<data, server, saved, takeoutAccepted, stopping, unfinished,
                   failures>>

\* An error before the session is known or saved: the timer of getTakeoutID runs.
GetTakeoutFails(p) ==
    /\ Failure /\ pc[p] \in {"init", "save"} /\ To(p, "idle")
    /\ holder' = Nobody
    /\ tid' = [tid EXCEPT ![p] = 0]
    /\ call' = [q \in Fetchers |-> IF q = p THEN NoCall ELSE call[q]]
    /\ UNCHANGED <<chat, server, saved, takeoutAccepted, stopTimer, unfinished>>

\* The function is a sync.OnceFunc.
Fire ==
    /\ timer = "armed" /\ timer' = "off" /\ spent' = TRUE
    /\ stopping' = IF spent THEN stopping ELSE stopping + 1
    /\ UNCHANGED <<data, server, saved, takeoutAccepted, holder, unfinished, pc, tid,
                   failures>>

StopTakeout ==
    /\ stopping > 0 /\ holder = Nobody
    /\ stopping' = stopping - 1
    /\ session # 0 /\ session' = 0 /\ takeoutID' = 0
    /\ holder' = "stop"
    /\ UNCHANGED <<data, accepted, edit, stored, takeoutAccepted, timer, spent,
                   unfinished, pc, tid, failures>>

SaveStopped ==
    /\ holder = "stop" /\ holder' = Nobody
    /\ \/ stored' = takeoutID /\ UNCHANGED failures
       \/ Failure /\ UNCHANGED stored
    /\ UNCHANGED <<data, server, takeoutID, takeoutAccepted, stopTimer, unfinished, pc,
                   tid>>

\* There is no session, or the request fails.
StopFails ==
    /\ stopping > 0 /\ holder = Nobody
    /\ stopping' = stopping - 1
    /\ \/ session = 0 /\ UNCHANGED <<unfinished, failures>>
       \/ session # 0 /\ unfinished' = TRUE /\ Failure
    /\ UNCHANGED <<data, server, saved, takeoutAccepted, timer, spent, holder, pc, tid>>

\* Another goroutine saves the login.
SaveLogin ==
    /\ stored # takeoutID /\ stored' = takeoutID
    /\ UNCHANGED <<data, server, takeoutID, takeoutAccepted, stopTimer, holder,
                   unfinished, pc, tid, failures>>

-----------------------------------------------------------------------------
(* FetchMessages                                                              *)

Newest(S) == IF S = {} THEN 0 ELSE Max(S)
Oldest(S) == IF S = {} THEN 0 ELSE Min(S)

Forward(p) == p = "forward"

\* Mutant: the cursor alone says where to go on.
BadOffset(from, after) == IF after # 0 THEN after ELSE from

\* Where a backward call starts: the older of the anchor and the cursor.
Offset(from, after) ==
    IF after # 0 /\ (from = 0 \/ after < from) THEN after ELSE from

\* The parameters of a call, and what it makes of them.
Parameters(p, anchor, count) ==
    LET known == anchor \notin config.calls
        from == IF known THEN anchor ELSE 0
        offset == IF Forward(p) THEN 0 ELSE Offset(from, cursor)
    IN [anchor |-> anchor, min |-> IF Forward(p) THEN from ELSE 0, orig |-> offset,
        offset |-> offset, count |-> count, limit |-> count, messages |-> {},
        index |-> NoIndex]

Start(p, anchor, count) ==
    /\ pc[p] = "idle" /\ To(p, IF NeedsTakeout(p) THEN "lock" ELSE "fetch")
    /\ call' = [call EXCEPT ![p] = Parameters(p, anchor, count)]

\* An empty room is filled from one side.
Free(p) == bridged # {} \/ pc[p] = "idle"

\* The chat is synced: after the room was created, or after the bridge was away.
StartForward ==
    /\ resyncs < MaxResyncs /\ resyncs' = resyncs + 1
    /\ Free("backward")
    /\ LET newest == Newest(bridged)
       IN Start("forward", newest, IF newest = 0 THEN config.initial ELSE config.catchup)
    /\ UNCHANGED <<config, top, cursor, done, room, server, takeout, tid, failures>>

\* The queue has the task once there is a room.
StartBackward ==
    /\ resyncs > 0 /\ ~done
    /\ Free("forward")
    /\ Start("backward", Oldest(bridged), config.batch)
    /\ UNCHANGED <<chat, server, takeout, tid, failures>>

\* messages.getHistory: the newest ones, up to the limit.  Answers are sorted, the
\* newest first, so a set says it all; its oldest message is the last one.
GetHistory(c) ==
    LET found == {m \in 1..top : m > c.min /\ (c.offset = 0 \/ m < c.offset)}
        Newer(m) == Cardinality({n \in found : n > m})
    IN {m \in found : Newer(m) < c.limit /\ Newer(m) < ChunkLimit}

\* A request of the loop; only a forward call makes more than one.
Fetch(p) ==
    /\ pc[p] = "fetch" /\ tid[p] \in {0, session}
    /\ LET new == GetHistory(call[p])
           messages == call[p].messages \cup new
       IN IF Cardinality(new) < ChunkLimit \/ ~Forward(p)
          THEN /\ To(p, "convert")
               /\ call' = [call EXCEPT ![p].messages = messages]
          ELSE LET limit == call[p].limit - Cardinality(new)
               IN /\ To(p, IF limit > 0 THEN "fetch" ELSE "convert")
                  /\ call' = [call EXCEPT ![p].messages = messages, ![p].limit = limit,
                                          ![p].offset = Oldest(new)]
    /\ UNCHANGED <<chat, server, takeout, tid, failures>>

\* TAKEOUT_INVALID: the id is forgotten, and the call fails.
TakeoutInvalid(p) ==
    /\ pc[p] = "fetch" /\ tid[p] \notin {0, session}
    /\ takeoutID' = 0
    /\ \/ stored' = 0 /\ UNCHANGED failures
       \/ Failure /\ UNCHANGED stored
    /\ Unlock(p) /\ To(p, "idle")
    /\ call' = [call EXCEPT ![p] = NoCall]
    /\ UNCHANGED <<chat, server, takeoutAccepted, stopping, unfinished>>

\* The error of a request or of the conversion of a message.
FetchFails(p) ==
    /\ Failure /\ pc[p] \in {"fetch", "convert"}
    /\ Unlock(p) /\ To(p, "idle")
    /\ call' = [call EXCEPT ![p] = NoCall]
    /\ UNCHANGED <<chat, server, saved, takeoutAccepted, stopping, unfinished>>

\* The album of a message that is a *tg.Message.
GroupedID(m) == IF m \in config.service THEN 0 ELSE config.album[m]

\* Mutant: an album at the end of a batch is left in two parts.
BadTrimTrailingAlbum(s) == s

\* Without the album at the end, unless it is all there is.
trimTrailingAlbum(s) ==
    LET album == GroupedID(Oldest(s))
        rest == {m \in s : \E n \in s : n <= m /\ GroupedID(n) # album}
    IN IF s = {} \/ album = 0 \/ rest = {} THEN s ELSE rest

\* The messages that a call goes on with.
Batch(p) ==
    IF ~Forward(p) /\ Cardinality(call[p].messages) >= call[p].count
    THEN trimTrailingAlbum(call[p].messages) ELSE call[p].messages

\* What is bridged of them.
Converted(p) ==
    {m \in Batch(p) \ config.service :
        IF Forward(p) THEN m > call[p].min ELSE call[p].orig = 0 \/ m < call[p].orig}

\* The items of the batch and of the database tell the index of another.
telegramAlbumIndex(m, known) ==
    IF GroupedID(m) = 0 THEN 0 ELSE
    m - Min({m} \cup {o \in known : /\ o \in (m - MaxAlbumSize + 1)..(m - 1)
                                    /\ GroupedID(o) = GroupedID(m)})

\* Mutant: a batch without anything to bridge is the last one.
BadHasMore(p) == Converted(p) # {}

HasMore(p) == Batch(p) # {}

\* Mutant: the cursor is the last message of the answer, trimmed or not.
BadNextCursor(p) ==
    IF Forward(p) THEN 0 ELSE Oldest(call[p].messages)

NextCursor(p) == IF Forward(p) THEN 0 ELSE Oldest(Batch(p))

\* FetchMessages returns.  The answer stays in call[p] until it is used.
Return(p) ==
    /\ pc[p] = "convert" /\ To(p, "deliver")
    /\ Unlock(p)
    /\ call' = [call EXCEPT ![p].index = [m \in IDs |->
                    IF m \in Converted(p)
                    THEN telegramAlbumIndex(m, bridged \cup Batch(p)) ELSE 0]]
    /\ UNCHANGED <<chat, server, saved, takeoutAccepted, stopping, unfinished,
                   failures>>

\* The bridge sends a batch.  A forward batch that was too small leaves out the
\* messages since the anchor, or those since the task in the queue began if it
\* found nothing to bridge, and parts of albums.
Deliver(p) ==
    /\ pc[p] = "deliver"
    /\ bridged' = bridged \cup Converted(p)
    /\ albumIndex' = [m \in IDs |-> IF m \in Converted(p) \ bridged
                                    THEN call[p].index[m] ELSE albumIndex[m]]
    /\ IF Forward(p)
       THEN LET oldest == Oldest(call[p].messages)
                from == IF call[p].anchor # 0 THEN call[p].anchor + 1
                        ELSE IF done THEN 1 ELSE cursor
            IN /\ lost' = IF from = 0 THEN lost ELSE lost \cup from..(oldest - 1)
               /\ cut' = cut \cup {GroupedID(m) : m \in
                            {n \in Converted(p) : \E o \in IDs \ bridged' :
                                o < n /\ GroupedID(o) = GroupedID(n)}}
               /\ call' = [call EXCEPT ![p] = NoCall] /\ To(p, "idle")
       ELSE To(p, "record") /\ UNCHANGED <<call, lost, cut>>
    /\ UNCHANGED <<config, top, cursor, done, resyncs, server, takeout, tid, failures>>

\* The queue stores where the task stands.
Record ==
    /\ pc["backward"] = "record" /\ To("backward", "idle")
    /\ cursor' = NextCursor("backward") /\ done' = ~HasMore("backward")
    /\ call' = [call EXCEPT !["backward"] = NoCall]
    /\ UNCHANGED <<config, top, room, resyncs, server, takeout, tid, failures>>

\* The bridge ends and is started again.
Crash ==
    /\ Failure
    /\ takeoutID' = stored /\ takeoutAccepted' = FALSE
    /\ timer' = "none" /\ spent' = FALSE /\ stopping' = 0
    /\ holder' = Nobody /\ unfinished' = FALSE
    /\ pc' = [p \in Callers |-> "idle"] /\ tid' = [p \in Callers |-> 0]
    /\ call' = [p \in Fetchers |-> NoCall]
    /\ UNCHANGED <<chat, server, stored>>

-----------------------------------------------------------------------------
Takeout(p) ==
    Clear(p) \/ InitTakeoutSession(p) \/ InitDelay(p) \/ Wake(p) \/ SaveTakeout(p)

Fetching(p) == Fetch(p) \/ TakeoutInvalid(p) \/ Return(p) \/ Deliver(p)

Next ==
    \/ NewMessage \/ Accept \/ Invalidate \/ OnEdit
    \/ \E p \in Callers : Lock(p) \/ Takeout(p) \/ GetTakeoutFails(p)
    \/ \E p \in Fetchers : Fetching(p) \/ FetchFails(p)
    \/ LoginReturns \/ StartForward \/ StartBackward \/ Record
    \/ Fire \/ StopTakeout \/ SaveStopped \/ StopFails \/ SaveLogin \/ Crash

Spec == Init /\ [][Next]_vars

\* Goroutines run, the mutex starves nobody, delays pass and timers fire.  The
\* room is created, and the queue takes a task up again until it is done.  The
\* user need not accept anything.
LiveSpec ==
    /\ Spec
    /\ \A p \in Callers : SF_vars(Lock(p)) /\ WF_vars(Takeout(p))
    /\ \A p \in Fetchers : WF_vars(Fetching(p))
    /\ WF_vars(resyncs = 0 /\ StartForward) /\ WF_vars(StartBackward) /\ WF_vars(Record)
    /\ WF_vars(LoginReturns) /\ WF_vars(Fire) /\ WF_vars(SaveStopped)
    /\ SF_vars(StopTakeout \/ StopFails)

-----------------------------------------------------------------------------
(* Properties                                                                 *)

Settled(m) == m \in bridged \cup config.service \cup lost

\* A chat without calls, or one that nobody writes to.  Where the anchor is a call,
\* both directions begin with the newest message, and leave a hole if more come
\* between their requests (these are bridged live, which the model leaves out).
Steady == config.calls = {} \/ config.first = config.last

\* Between the oldest and the newest message that was bridged from a batch there is
\* no hole, although batches end in albums or have nothing to bridge, calls fail,
\* and a crash comes before the cursor is stored.  (A forward batch that is too
\* small makes a hole: the configuration wants it.)
NoHoles ==
    Steady => \A a, b \in bridged \ config.calls : \A m \in a..b : Settled(m)

\* No message comes into the room twice: a batch that was bridged but not
\* recorded is not fetched again (the anchor counts as well as the cursor).  Only
\* an anchor that is a call makes a call start too early, and then it asks for
\* aggressive deduplication.
NothingTwice ==
    \A p \in Fetchers :
        pc[p] = "deliver" /\ config.calls = {} => Converted(p) \cap bridged = {}

\* The albums that a batch can hold as a whole; a batch of more than ChunkLimit
\* is not trimmed, since the answer has less than it.
Fits(g) ==
    /\ g # 0 /\ config.batch <= ChunkLimit
    /\ Cardinality({m \in IDs : GroupedID(m) = g}) <= config.batch

\* The items of an album have their places in it as indexes, also if the batches
\* of a backward import end inside the album, unless the size of a forward batch
\* has cut it in two (trimTrailingAlbum).  After a call as the anchor the two
\* directions may meet inside an album.
AlbumIndexes ==
    config.calls = {} =>
        \A m \in bridged :
            Fits(GroupedID(m)) /\ GroupedID(m) \notin cut =>
                albumIndex[m] = m - Min({o \in IDs : GroupedID(o) = GroupedID(m)})

\* A call that waits for an export that has been accepted is woken: the event is
\* set, or the update that sets it is still on its way.  No wake-up is lost.
AcceptedIsNoticed ==
    \A p \in Callers : pc[p] = "waiting" /\ accepted => takeoutAccepted \/ edit

\* A session does not stay open for ever, unless a request to end it failed, or
\* the bridge was started again and has not used it since, or does not know it.
SessionEnds ==
    <>[](\/ session = 0 \/ session # takeoutID
         \/ unfinished \/ timer = "none")

\* The whole history gets into the room, whatever fails on the way, with the
\* sessions that have to be asked for again.
EverythingBridged ==
    <>[](done /\ (Steady => \A m \in 1..Newest(bridged) : Settled(m)))
=============================================================================
