-------------------------- MODULE ChannelRegistry ---------------------------
(* pkg/gotd/telegram/updates: which channels have a worker.  handleChannel    *)
(* (state.go) starts one for the first update of a channel, the worker's own  *)
(* goroutine takes it out of s.channels when it ends, RemoveChannel stops it  *)
(* from any goroutine that learns that the user has left, and Manager.Run     *)
(* starts the workers of the stored channels.                                 *)
(*                                                                            *)
(* The module follows one channel: channels share only the account worker,    *)
(* whose blocking is the subject of UpdateQueues.  What a worker does with    *)
(* its updates is in ChannelState; here it stores positions and finds out     *)
(* that the channel is private.                                               *)
EXTENDS Integers, FiniteSets

CONSTANTS
    Workers,      \* identities of channelState objects, reused when out of use
    MaxPending,   \* bound: updates of the channel under way
    MaxChanges,   \* bound: how often the user leaves or joins
    MaxFailures,  \* bound: failures of the storage or of a request
    MaxCrashes    \* bound: ends of the process

NoWorker == "no worker"

ASSUME RegistryConstants ==
    /\ IsFiniteSet(Workers) /\ NoWorker \notin Workers
    /\ \E v, w \in Workers : v # w
    /\ MaxPending \in Nat /\ MaxChanges \in Nat /\ MaxFailures \in Nat
    /\ MaxCrashes \in Nat

VARIABLES
    member,       \* server: the user is in the channel
    public,       \* server: outsiders may read the channel
    notice,       \* a goroutine holds an answer that says the user left
    pending,      \* updates of the channel under way, by the entity they carry
    pc, u, state, \* account worker: its place, the update, the worker it found
    channels,     \* s.channels[channelID]
    recentlyLeft, \* the channel is in s.recentlyLeftChannels
    worker,       \* what became of each channelState
    removal,      \* RemoveChannel: its place
    victim,       \* and the worker it found
    stored,       \* storage: no pts, a pts or -1
    hash,         \* storage: the access hash is known
    changes, failures, crashes  \* what was used up of the bounds

account == <<pc, u, state>>
remover == <<removal, victim>>
outside == <<member, public, notice>>
storage == <<stored, hash>>
bounds == <<changes, failures, crashes>>
vars == <<outside, pending, account, channels, recentlyLeft, worker, remover,
          storage, bounds>>

\* The *tg.Channel among the chats of an update: none, min, full, left, or a
\* *tg.ChannelForbidden.
Entities == {"none", "min", "full", "left", "forbidden"}

\* down: no process; loaded, refused: ForEachChannels saw a member, an outsider.
Places ==
    {"down", "loaded", "refused", "idle", "taken", "lookup", "hash", "pts",
     "create", "push"}

Init ==
    /\ member \in BOOLEAN /\ public \in BOOLEAN /\ notice = FALSE /\ pending = {}
    /\ pc = "down" /\ u = "none" /\ state = NoWorker
    /\ channels = NoWorker /\ recentlyLeft = FALSE
    /\ worker = [w \in Workers |-> "none"]
    /\ removal = "none" /\ victim = NoWorker
    /\ stored \in {"none", "pts", "left"} /\ hash \in BOOLEAN
    /\ changes = 0 /\ failures = 0 /\ crashes = 0

Up == pc \notin {"down", "loaded", "refused"}
Go(place) == pc' = place

\* A call that may fail; the error is logged or answered by a way round.
Fails == failures < MaxFailures /\ failures' = failures + 1

\* SetChannelPts.
Store(value) ==
    \/ stored' = value /\ UNCHANGED failures
    \/ Fails /\ UNCHANGED stored

Fate(w, fate) == worker' = [worker EXCEPT ![w] = fate]

\* newChannelState: an object nobody refers to any more.
Fresh(w) == worker[w] = "none" /\ w \notin {channels, state, victim}

NewWorker == CHOOSE w \in Workers : Fresh(w)

\* createAndRunChannelState.
CreateAndRun ==
    /\ channels' = NewWorker
    /\ Fate(NewWorker, "running")

-----------------------------------------------------------------------------
(* Manager.Run                                                                *)

\* ForEachChannels and checkParticipant; the hash, -1 and OnNotChannelMember must
\* succeed, or Run returns.  A failed request counts as membership.
Load ==
    /\ pc = "down"
    /\ IF stored = "pts" /\ hash
       THEN \/ member /\ Go("loaded") /\ UNCHANGED <<stored, failures>>
            \/ Fails /\ Go("loaded") /\ UNCHANGED stored
            \/ ~member /\ stored' = "left" /\ Go("refused") /\ UNCHANGED failures
            \/ Fails /\ stored' \in {stored, IF member THEN stored ELSE "left"} /\ Go("down")
       ELSE Go("refused") /\ UNCHANGED <<stored, failures>>
    /\ UNCHANGED <<outside, pending, u, state, channels, recentlyLeft, worker,
                   remover, hash, changes, crashes>>

\* newState.
NewState ==
    /\ pc \in {"loaded", "refused"} /\ Go("idle")
    /\ recentlyLeft' = (stored = "left")
    /\ IF pc = "loaded" THEN CreateAndRun
                        ELSE UNCHANGED <<channels, worker>>
    /\ UNCHANGED <<outside, pending, u, state, remover, storage, bounds>>

-----------------------------------------------------------------------------
(* The account worker                                                         *)

\* handleUpdates, with saveChannelHashes: s.channels is read without the lock,
\* so before or after whatever another goroutine does to it.
Take(e) ==
    /\ pc = "idle" /\ e \in pending
    /\ Go("taken") /\ u' = e /\ pending' = pending \ {e}
    /\ IF e \in {"full", "left", "forbidden"} /\ channels = NoWorker
       THEN \/ hash' = TRUE /\ UNCHANGED failures
            \/ Fails /\ UNCHANGED hash
       ELSE UNCHANGED <<hash, failures>>
    /\ UNCHANGED <<outside, state, channels, recentlyLeft, worker, remover,
                   stored, changes, crashes>>

\* Mutant: a channel joined again is not taken out of recentlyLeftChannels.
BadCheckLeft ==
    /\ pc = "taken" /\ u' = "none"
    /\ recentlyLeft' = (recentlyLeft \/ u = "left")
    /\ Go(IF u \in {"left", "forbidden"} \/ recentlyLeft THEN "idle" ELSE "lookup")
    /\ UNCHANGED <<outside, pending, state, channels, worker, remover,
                   storage, bounds>>

\* handleChannel up to the lookup.
CheckLeft ==
    /\ pc = "taken" /\ u' = "none"
    /\ recentlyLeft' = IF u \in {"min", "full"} THEN FALSE
                       ELSE recentlyLeft \/ u = "left"
    /\ Go(IF u \in {"left", "forbidden"} \/ (u = "none" /\ recentlyLeft)
          THEN "idle" ELSE "lookup")
    /\ UNCHANGED <<outside, pending, state, channels, worker, remover,
                   storage, bounds>>

Lookup ==
    /\ pc = "lookup"
    /\ state' = channels
    /\ Go(IF channels = NoWorker THEN "hash" ELSE "push")
    /\ UNCHANGED <<outside, pending, u, channels, recentlyLeft, worker, remover,
                   storage, bounds>>

\* GetChannelAccessHash, or restoreChannelAccessHash: the difference may hold the
\* channel, and then saveChannelHashes saves it; if not the update is ignored.  A
\* hash that cannot be read counts as missing.
GetHash ==
    /\ pc = "hash"
    /\ \/ hash /\ Go("pts") /\ UNCHANGED <<hash, failures>>
       \/ ~hash /\ Go("pts") /\ hash' = TRUE /\ UNCHANGED failures
       \/ ~hash /\ Go("idle") /\ UNCHANGED <<hash, failures>>
       \/ Fails /\ (Go("pts") \/ Go("idle")) /\ UNCHANGED hash
    /\ UNCHANGED <<outside, pending, u, state, channels, recentlyLeft, worker,
                   remover, stored, changes, crashes>>

\* GetChannelPts, and SetChannelPts if there is none.
GetPts ==
    /\ pc = "pts" /\ Go("create")
    /\ IF stored = "pts" THEN UNCHANGED <<stored, failures>> ELSE Store("pts")
    /\ UNCHANGED <<outside, pending, u, state, channels, recentlyLeft, worker,
                   remover, hash, changes, crashes>>

Create ==
    /\ pc = "create" /\ Go("push")
    /\ CreateAndRun /\ state' = NewWorker
    /\ UNCHANGED <<outside, pending, u, recentlyLeft, remover, storage, bounds>>

\* Push: into the queue, or nowhere if the worker was stopped.
Push ==
    /\ pc = "push" /\ Go("idle")
    /\ state' = NoWorker
    /\ UNCHANGED <<outside, pending, u, channels, recentlyLeft, worker, remover,
                   storage, bounds>>

-----------------------------------------------------------------------------
(* A channel's worker                                                         *)

\* A position is stored: applyPts, or getDifference of a channel one may read.
StorePts(w) ==
    /\ worker[w] = "running"
    /\ Store("pts")
    /\ UNCHANGED <<outside, pending, account, channels, recentlyLeft, worker,
                   remover, hash, changes, crashes>>

\* Mutant: the difference of a channel one may not read is only logged.
BadChannelPrivate(w) ==
    /\ worker[w] = "running" /\ ~member /\ ~public
    /\ Store("left")
    /\ UNCHANGED <<outside, pending, account, channels, recentlyLeft, worker,
                   remover, hash, changes, crashes>>

\* CHANNEL_PRIVATE up to s.stop.
ChannelPrivate(w) ==
    /\ worker[w] = "running" /\ ~member /\ ~public
    /\ Store("left")
    /\ Fate(w, "private")
    /\ UNCHANGED <<outside, pending, account, channels, recentlyLeft, remover,
                   hash, changes, crashes>>

StopPrivate(w) ==
    /\ worker[w] = "private" /\ Fate(w, "stopped")
    /\ UNCHANGED <<outside, pending, account, channels, recentlyLeft, remover,
                   storage, bounds>>

\* Run returns, and the goroutine deletes the entry of the channel.
Deleted(w) ==
    /\ worker[w] = "stopped" /\ Fate(w, "none")
    /\ channels' = NoWorker
    /\ UNCHANGED <<outside, pending, account, recentlyLeft, remover, storage, bounds>>

-----------------------------------------------------------------------------
(* RemoveChannel, from selfLeaveChat                                          *)

\* There is nothing to remove before newState.
RemoveChannel ==
    /\ notice /\ notice' = FALSE
    /\ removal = "none"
    /\ IF Up THEN removal' = "lookup" /\ recentlyLeft' = TRUE
             ELSE UNCHANGED <<removal, recentlyLeft>>
    /\ UNCHANGED <<member, public, pending, account, channels, worker, victim,
                   storage, bounds>>

\* Mutant: the entry is deleted here, and again by the worker's goroutine.
BadRemoveLookup ==
    /\ removal = "lookup"
    /\ victim' = channels /\ channels' = NoWorker
    /\ removal' = IF channels = NoWorker THEN "none" ELSE "stop"
    /\ UNCHANGED <<outside, pending, account, recentlyLeft, worker, storage, bounds>>

RemoveLookup ==
    /\ removal = "lookup"
    /\ victim' = channels
    /\ removal' = IF channels = NoWorker THEN "none" ELSE "stop"
    /\ UNCHANGED <<outside, pending, account, channels, recentlyLeft, worker,
                   storage, bounds>>

RemoveStop ==
    /\ removal = "stop" /\ removal' = "none" /\ victim' = NoWorker
    /\ IF worker[victim] = "none" THEN UNCHANGED worker ELSE Fate(victim, "stopped")
    /\ UNCHANGED <<outside, pending, account, channels, recentlyLeft, storage, bounds>>

-----------------------------------------------------------------------------
(* The surroundings                                                           *)

\* The user joins or leaves; somebody will hear of the latter.
ChangeMembership ==
    /\ changes < MaxChanges /\ changes' = changes + 1
    /\ member' = ~member /\ notice' = (notice \/ member)
    /\ UNCHANGED <<public, pending, account, channels, recentlyLeft, worker,
                   remover, storage, failures, crashes>>

\* An update of the channel; outsiders are told of their leave only, or read a
\* public channel.
Send(e) ==
    /\ Up /\ Cardinality(pending) < MaxPending
    /\ e \notin pending /\ pending' = pending \cup {e}
    /\ IF member THEN e \in {"none", "min", "full"}
                 ELSE e \in {"left", "forbidden"} \/ (public /\ e = "none")
    /\ UNCHANGED <<outside, account, channels, recentlyLeft, worker, remover,
                   storage, bounds>>

Crash ==
    /\ crashes < MaxCrashes /\ crashes' = crashes + 1
    /\ Go("down") /\ u' = "none" /\ state' = NoWorker /\ pending' = {}
    /\ channels' = NoWorker /\ recentlyLeft' = FALSE
    /\ worker' = [w \in Workers |-> "none"]
    /\ removal' = "none" /\ victim' = NoWorker /\ notice' = FALSE
    /\ UNCHANGED <<member, public, storage, changes, failures>>

-----------------------------------------------------------------------------
Account ==
    \/ Load \/ NewState \/ CheckLeft \/ Lookup \/ GetHash \/ GetPts \/ Create \/ Push
    \/ \E e \in Entities : Take(e)
Removal == RemoveChannel \/ RemoveLookup \/ RemoveStop

\* What a worker will do, once the idle timer has asked for the difference.
Ending(w) == ChannelPrivate(w) \/ StopPrivate(w) \/ Deleted(w)

Next ==
    \/ Account
    \/ \E e \in Entities : Send(e)
    \/ \E w \in Workers : StorePts(w) \/ Ending(w)
    \/ Removal
    \/ ChangeMembership
    \/ Crash

Spec == Init /\ [][Next]_vars

\* The goroutines run, the idle timer asks for the difference, and a member gets
\* full updates now and then, which the account worker comes to.
LiveSpec ==
    /\ Spec
    /\ WF_vars(Account) /\ WF_vars(Removal)
    /\ \A w \in Workers : WF_vars(Ending(w))
    /\ SF_vars(Send("full")) /\ SF_vars(Take("full"))

-----------------------------------------------------------------------------
(* Properties                                                                 *)

\* Every worker that runs is the one in s.channels, so a channel never has two,
\* and no update goes to another than the one that stores the positions.  The
\* entry is deleted by the channel's id, whichever worker it holds, while
\* handleChannel and RemoveChannel look it up and use it without the lock.
RunningIsRegistered ==
    \A w \in Workers : worker[w] \in {"running", "private"} => channels = w

\* A user who is in the channel for good ends up with a running worker, and
\* updates that name no chats are not refused any more, whatever answers about an
\* earlier leave are still on their way.
MemberIsServed ==
    <>[]member =>
        <>[](channels # NoWorker /\ worker[channels] = "running" /\ ~recentlyLeft)

\* The worker of a private channel that the user has left for good goes away,
\* also when it was started while RemoveChannel looked for it.
LeftIsForgotten == ~public /\ <>[]~member => <>[](channels = NoWorker)
=============================================================================
