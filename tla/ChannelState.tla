---------------------------- MODULE ChannelState ----------------------------
(* The worker of one channel: state_channel.go on top of SequenceBox.         *)
(*                                                                            *)
(* The server numbers the channel's updates (pts); "remote" is its counter.   *)
(* Every message of the server is handled by a goroutine of its own           *)
(* (mtproto/read.go), and the channel's queue is emptied while a difference   *)
(* is postponed, so an update the server has produced may reach the worker at *)
(* any later time, in any order, several times or never.  What is missing is  *)
(* fetched with updates.getChannelDifference.                                 *)
(*                                                                            *)
(* pc is where the worker's goroutine stands.                                 *)
(*   run      in the select of Run; the box may be busy (phase)               *)
(*   save     in applyPts, between handler.Handle and SetChannelPts           *)
(*   diff     entering getDifference                                          *)
(*   drain    waiting for diffTimeout, throwing updates away                  *)
(*   request  waiting for the answer of updates.getChannelDifference          *)
(*   others, messages, store    the three parts of an answer                  *)
(*   resync   calling onTooLong                                               *)
(*   stopped  Run has returned                                                *)
(*   down     the process is not running                                      *)
EXTENDS SequenceBox

CONSTANTS
    Messages,     \* the updates a difference returns as NewMessages
    InitialPts,   \* the pts the channel starts with
    DiffLimit,    \* s.diffLim
    MaxCopies,    \* bound: copies of one update held back at once
    Faults        \* the failures this instance may meet

AllFaults == {"handler", "storage", "request", "private", "resync",
              "dialog", "cancel", "crash"}

\* The server's numbering: two updates never overlap.
Apart(u, v) == u.end <= v.start \/ v.end <= u.start

ASSUME ChannelConstants ==
    /\ Messages \subseteq Updates
    /\ InitialPts \in Nat
    /\ DiffLimit \in Nat
    /\ MaxCopies \in Nat \ {0}
    /\ Faults \subseteq AllFaults
    /\ \A u \in Updates : InitialPts <= u.start /\ u.end > 0
    /\ \A u, v \in Updates : u = v \/ Apart(u, v)

VARIABLES
    remote,       \* the server's pts of this channel (external)
    stored,       \* the persisted pts; -1 when the channel has been left
    pc,           \* where the worker stands
    diff,         \* the answer of getChannelDifference being processed
    diffTimeout,  \* time.Now() is before s.diffTimeout
    cancelled,    \* runCtx is done
    out,          \* OtherUpdates on their way through the internalQueue
    fate          \* history: what has become of each update (see Mark)

worker == <<pc, diff, diffTimeout, cancelled>>
vars == <<box, remote, stored, worker, out, fate>>

\* The updates that move the counter.
Counted == {u \in Updates : Count(u) > 0}

\* none       nothing yet
\* passed     put on the internalQueue as part of diff.OtherUpdates
\* failed     refused by the handler in applyPts
\* skipped    jumped over because the difference was too long
\* resynced   skipped, and covered by a chat resync requested afterwards
\* delivered  accepted by the handler
Fate == {"none", "passed", "failed", "skipped", "resynced", "delivered"}

\* The updates of U meet fate f; the first delivery or resync is remembered.
Mark(U, f) ==
    fate' = [u \in Counted |->
                IF u \in U /\ fate[u] \notin {"delivered", "resynced"}
                THEN f ELSE fate[u]]

NoDiff == [kind |-> "none", pts |-> 0, final |-> TRUE, timeout |-> FALSE]

Diff == [kind : {"none", "difference", "empty", "tooLong", "badDialog"},
         pts : Nat, final : BOOLEAN, timeout : BOOLEAN]

\* The type of the worker's variables.
TypeOK ==
    /\ BoxTypeOK
    /\ remote \in Nat
    /\ stored \in Nat \cup {-1}
    /\ pc \in {"run", "save", "diff", "drain", "request", "others",
               "messages", "store", "resync", "stopped", "down"}
    /\ diff \in Diff
    /\ diffTimeout \in BOOLEAN
    /\ cancelled \in BOOLEAN
    /\ out \subseteq Updates
    /\ fate \in [Counted -> Fate]

\* newChannelState and the call of Run: the worker first gets a difference.
Init ==
    /\ NewBox(InitialPts)
    /\ remote = InitialPts
    /\ stored = InitialPts
    /\ pc = "diff"
    /\ diff = NoDiff
    /\ diffTimeout = FALSE
    /\ cancelled = FALSE
    /\ out = {}
    /\ fate = [u \in Counted |-> "none"]

-----------------------------------------------------------------------------
(* The server and the clock (external)                                        *)

\* The server produces the next update of the channel.
ServerUpdate ==
    /\ \E u \in Counted : u.start = remote /\ remote' = u.end
    /\ UNCHANGED <<box, stored, worker, out, fate>>

\* The positions at which no update is cut in two.
Whole(p) == \A u \in Updates : p <= u.start \/ u.end <= p

\* What the server reports between two positions.
Between(from, to) == {u \in Counted : from <= u.start /\ u.end <= to}

\* The timeout of the last difference is over.
DiffTimeoutExpires ==
    /\ diffTimeout
    /\ diffTimeout' = FALSE
    /\ UNCHANGED <<box, remote, stored, pc, diff, cancelled, out, fate>>

-----------------------------------------------------------------------------
(* The select of Run and handleUpdate                                         *)

Waiting == pc = "run" /\ phase = "idle"

\* An update arrives, late, again or out of order.
Arrive(u) ==
    /\ Waiting
    /\ u.end <= remote
    /\ pending[u] < MaxCopies
    /\ Handle(u)
    /\ UNCHANGED <<remote, stored, worker, out, fate>>

\* An update of diff.OtherUpdates comes back: the internalState worker sorts
\* it to this channel (applyCombined, handleChannel) like any other.
ReturnOther(u) ==
    /\ Waiting
    /\ u \in out
    /\ pending[u] < MaxCopies
    /\ out' = out \ {u}
    /\ Handle(u)
    /\ UNCHANGED <<remote, stored, worker, fate>>

\* handleTooLong: a difference is fetched, unless the announced pts is too far
\* away, in which case only a resync is requested.  An announcement without a
\* pts counts as 0; one with an older pts behaves like 0 or like remote.
ChannelTooLong(announced) ==
    /\ Waiting
    /\ pc' = IF announced - state > DiffLimit THEN "resync" ELSE "diff"
    /\ UNCHANGED <<box, remote, stored, diff, diffTimeout, cancelled, out, fate>>

GapTimeout ==
    /\ Waiting
    /\ GapTimeoutFires
    /\ pc' = "diff"
    /\ UNCHANGED <<state, gaps, pending, phase, next, accepted,
                   remote, stored, diff, diffTimeout, cancelled, out, fate>>

IdleTimeout ==
    /\ Waiting
    /\ pc' = "diff"
    /\ UNCHANGED <<box, remote, stored, diff, diffTimeout, cancelled, out, fate>>

\* Run sees that runCtx is done and returns.
Exit ==
    /\ Waiting
    /\ cancelled
    /\ pc' = "stopped"
    /\ UNCHANGED <<box, remote, stored, diff, diffTimeout, cancelled, out, fate>>

-----------------------------------------------------------------------------
(* applyPending and applyPts                                                  *)

Scan ==
    /\ pc = "run"
    /\ ScanNext \/ ScanEnd
    /\ UNCHANGED <<remote, stored, worker, out, fate>>

AcceptedSet == {accepted[i] : i \in 1..Len(accepted)}

\* handler.Handle(converted) returns nil.
ApplyHandled ==
    /\ pc = "run"
    /\ phase = "apply"
    /\ Mark(AcceptedSet, "delivered")
    /\ pc' = "save"
    /\ UNCHANGED <<box, remote, stored, diff, diffTimeout, cancelled, out>>

\* It returns an error, which applyPts logs: the box moves on all the same.
ApplyFailed ==
    /\ pc = "run"
    /\ cancelled \/ "handler" \in Faults
    /\ ApplyOk
    /\ Mark(AcceptedSet, "failed")
    /\ UNCHANGED <<remote, stored, worker, out>>

\* SetChannelPts, whose errors are logged.  The storage refuses a done context.
SetChannelPts(pts) ==
    \/ ~cancelled /\ stored' = pts
    \/ (cancelled \/ "storage" \in Faults) /\ UNCHANGED stored

\* Mutant: the position before the batch is persisted.
BadSavePts ==
    /\ pc = "save"
    /\ SetChannelPts(state)
    /\ ApplyOk
    /\ pc' = "run"
    /\ UNCHANGED <<remote, diff, diffTimeout, cancelled, out, fate>>

SavePts ==
    /\ pc = "save"
    /\ SetChannelPts(next)
    /\ ApplyOk
    /\ pc' = "run"
    /\ UNCHANGED <<remote, diff, diffTimeout, cancelled, out, fate>>

-----------------------------------------------------------------------------
(* getDifference                                                              *)

EnterDifference ==
    /\ pc = "diff"
    /\ ClearGaps
    /\ pc' = IF diffTimeout THEN "drain" ELSE "request"
    /\ UNCHANGED <<state, pending, gapTimeout, phase, next, accepted,
                   remote, stored, diff, diffTimeout, cancelled, out, fate>>

\* "Ignoring update due to getChannelDifference timeout".
DrainUpdate(u) ==
    /\ pc = "drain"
    /\ u.end <= remote
    /\ out' \in {out, out \ {u}}
    /\ UNCHANGED <<box, remote, stored, worker, fate>>

\* The wait is over, or the worker has been told to stop.
DrainEnd ==
    /\ pc = "drain"
    /\ \/ ~diffTimeout /\ pc' = "request"
       \/ cancelled /\ pc' = "run"
    /\ UNCHANGED <<box, remote, stored, diff, diffTimeout, cancelled, out, fate>>

\* The server's answer (external): the updates from the worker's position up
\* to some later one, nothing new, or a jump to the current position.
Answer ==
    \/ \E p \in {u.end : u \in Counted}, t \in BOOLEAN :
          /\ state < p /\ p <= remote /\ Whole(p)
          /\ diff' = [kind |-> "difference", pts |-> p,
                      final |-> p = remote, timeout |-> t]
          /\ pc' = "others"
    \/ \E t \in BOOLEAN :
          /\ state = remote
          /\ diff' = [kind |-> "empty", pts |-> remote,
                      final |-> TRUE, timeout |-> t]
          /\ pc' = "store"
    \/ \E t \in BOOLEAN :
          /\ state < remote
          /\ diff' = [kind |-> "tooLong", pts |-> remote,
                      final |-> TRUE, timeout |-> t]
          /\ pc' = "store"
    \/ \E t \in BOOLEAN :
          /\ "dialog" \in Faults
          /\ state < remote
          /\ diff' = [kind |-> "badDialog", pts |-> 0,
                      final |-> TRUE, timeout |-> t]
          /\ pc' = "store"

\* Mutant: the new position is persisted before the answer is handled.
BadRequest ==
    /\ pc = "request"
    /\ ~cancelled
    /\ Answer
    /\ stored' = diff'.pts
    /\ UNCHANGED <<box, remote, diffTimeout, cancelled, out, fate>>

Request ==
    /\ pc = "request"
    /\ ~cancelled
    /\ Answer
    /\ UNCHANGED <<box, remote, stored, diffTimeout, cancelled, out, fate>>

\* The request fails: the error is logged by the caller and the worker waits.
RequestError ==
    /\ pc = "request"
    /\ cancelled \/ "request" \in Faults
    /\ pc' = "run"
    /\ UNCHANGED <<box, remote, stored, diff, diffTimeout, cancelled, out, fate>>

\* CHANNEL_PRIVATE or CHANNEL_INVALID: the channel is marked as left and the
\* worker stops itself.
RequestPrivate ==
    /\ pc = "request"
    /\ ~cancelled
    /\ "private" \in Faults
    /\ SetChannelPts(-1)
    /\ cancelled' = TRUE
    /\ pc' = "run"
    /\ UNCHANGED <<box, remote, diff, diffTimeout, out, fate>>

\* diff.OtherUpdates go to the internalState worker; a cancelled worker may
\* return here instead.
SendOthers ==
    /\ pc = "others"
    /\ LET others == Between(state, diff.pts) \ Messages
       IN \/ /\ out' = out \cup others
             /\ Mark(others, "passed")
             /\ pc' = "messages"
             /\ UNCHANGED diff
          \/ /\ cancelled /\ others # {}
             /\ pc' = "run"
             /\ diff' = NoDiff
             /\ UNCHANGED <<out, fate>>
    /\ UNCHANGED <<box, remote, stored, diffTimeout, cancelled>>

\* diff.NewMessages go to the handler, whose error ends the call.
HandleMessages ==
    /\ pc = "messages"
    /\ LET messages == Between(state, diff.pts) \cap Messages
       IN \/ /\ Mark(messages, "delivered")
             /\ pc' = "store"
             /\ UNCHANGED diff
          \/ /\ cancelled \/ "handler" \in Faults
             /\ messages # {}
             /\ pc' = "run"
             /\ diff' = NoDiff
             /\ UNCHANGED fate
    /\ UNCHANGED <<box, remote, stored, diffTimeout, cancelled, out>>

\* The position of the answer is persisted and becomes the worker's own.
StoreDifference ==
    /\ pc = "store"
    /\ diff.kind \in {"difference", "empty"}
    /\ SetChannelPts(diff.pts)
    /\ SetState(diff.pts)
    /\ diffTimeout' = (diffTimeout \/ diff.timeout)
    /\ pc' = IF diff.final THEN "run" ELSE "diff"
    /\ diff' = NoDiff
    /\ UNCHANGED <<gaps, gapTimeout, phase, next, accepted,
                   remote, cancelled, out, fate>>

\* Mutant: the position jumps, but onTooLong is not called.
BadStoreTooLong ==
    /\ pc = "store"
    /\ diff.kind = "tooLong"
    /\ SetChannelPts(diff.pts)
    /\ SetState(diff.pts)
    /\ Mark(Between(state, diff.pts), "skipped")
    /\ diffTimeout' = (diffTimeout \/ diff.timeout)
    /\ pc' = "run"
    /\ diff' = NoDiff
    /\ UNCHANGED <<gaps, gapTimeout, phase, next, accepted,
                   remote, cancelled, out>>

\* updates.channelDifferenceTooLong: everything in between is skipped, and
\* onTooLong is called next.
StoreTooLong ==
    /\ pc = "store"
    /\ diff.kind = "tooLong"
    /\ SetChannelPts(diff.pts)
    /\ SetState(diff.pts)
    /\ Mark(Between(state, diff.pts), "skipped")
    /\ diffTimeout' = (diffTimeout \/ diff.timeout)
    /\ pc' = "resync"
    /\ diff' = NoDiff
    /\ UNCHANGED <<gaps, gapTimeout, phase, next, accepted,
                   remote, cancelled, out>>

\* The same answer without a usable Dialog: the position is kept.
StoreBadDialog ==
    /\ pc = "store"
    /\ diff.kind = "badDialog"
    /\ diffTimeout' = (diffTimeout \/ diff.timeout)
    /\ pc' = "resync"
    /\ diff' = NoDiff
    /\ UNCHANGED <<box, remote, stored, cancelled, out, fate>>

\* onTooLong: the connector queues a chat resync with backfill.
OnTooLong ==
    /\ pc = "resync"
    /\ \/ Mark({u \in Counted : fate[u] = "skipped"}, "resynced")
       \/ "resync" \in Faults /\ UNCHANGED fate
    /\ pc' = "run"
    /\ UNCHANGED <<box, remote, stored, diff, diffTimeout, cancelled, out>>

-----------------------------------------------------------------------------
(* Stopping and restarting                                                    *)

\* RemoveChannel stops the worker from outside.
Cancel ==
    /\ "cancel" \in Faults
    /\ pc \notin {"stopped", "down"}
    /\ ~cancelled
    /\ cancelled' = TRUE
    /\ UNCHANGED <<box, remote, stored, pc, diff, diffTimeout, out, fate>>

\* The process dies: all but the storage is gone.
Crash ==
    /\ "crash" \in Faults
    /\ pc # "down"
    /\ pc' = "down"
    /\ RenewBox(0)
    /\ diff' = NoDiff
    /\ diffTimeout' = FALSE
    /\ cancelled' = FALSE
    /\ out' = {}
    /\ UNCHANGED <<remote, stored, fate>>

\* Mutant: a channel that has been left is started again.
BadRestart ==
    /\ pc = "down"
    /\ RenewBox(stored)
    /\ pc' = "diff"
    /\ UNCHANGED <<remote, stored, diff, diffTimeout, cancelled, out, fate>>

\* newState starts a worker for every channel whose stored pts is not -1.
Restart ==
    /\ pc = "down"
    /\ stored # -1
    /\ RenewBox(stored)
    /\ pc' = "diff"
    /\ UNCHANGED <<remote, stored, diff, diffTimeout, cancelled, out, fate>>

-----------------------------------------------------------------------------
Step ==
    \/ Scan \/ ApplyHandled \/ ApplyFailed \/ SavePts
    \/ EnterDifference \/ DrainEnd
    \/ Request \/ RequestError \/ RequestPrivate
    \/ SendOthers \/ HandleMessages
    \/ StoreDifference \/ StoreTooLong \/ StoreBadDialog \/ OnTooLong

Next ==
    \/ Step
    \/ ServerUpdate \/ DiffTimeoutExpires
    \/ \E u \in Updates : Arrive(u) \/ ReturnOther(u) \/ DrainUpdate(u)
    \/ \E announced \in {0, remote} : ChannelTooLong(announced)
    \/ GapTimeout \/ IdleTimeout \/ Exit
    \/ Cancel \/ Crash \/ Restart

Spec == Init /\ [][Next]_vars

\* The worker's goroutine runs, its timers fire, an answer eventually comes,
\* and there are quiet periods long enough for the idle timer.
Fairness ==
    /\ WF_vars(Step)
    /\ WF_vars(DiffTimeoutExpires)
    /\ WF_vars(GapTimeout)
    /\ SF_vars(IdleTimeout)
    /\ SF_vars(Request)

LiveSpec == Spec /\ Fairness

-----------------------------------------------------------------------------
(* Properties                                                                 *)

\* Every update up to position p has met its fate.
Covered(p) == \A u \in Counted : u.end <= p => fate[u] # "none"

\* No update is overtaken: every update below the box's position was handed to
\* the handler, refused by it, passed on to the internalState worker, or
\* skipped by an explicit "too long" answer (checkGap, applyPending and
\* getDifference never move past an update they have not seen).
NothingOvertaken == Covered(state)

\* The same for the persisted pts, at every moment: a crash between any two
\* steps never resumes behind an update that was not dealt with
\* (SetChannelPts comes after handler.Handle in applyPts and getDifference).
CrashLosesNothing == Covered(stored)

\* A batch that the box hands to apply continues the local counter without a
\* hole or an overlap and ends at the new counter (applyPending).
BatchIsContiguous ==
    phase = "apply" =>
        /\ accepted # << >>
        /\ accepted[1].start = state
        /\ accepted[Len(accepted)].end = next
        /\ \A i \in 2..Len(accepted) : accepted[i].start = accepted[i-1].end

\* While the worker waits with an open gap, the gap timer is armed, so the gap
\* is closed by a difference after fastgapTimeout at the latest (Handle,
\* GapTimeout; getDifference clears the gaps but not the timer).
OpenGapHasTimer ==
    (Waiting /\ gaps # {}) => gapTimeout

\* An open gap lies above the local counter and lacks exactly what has not
\* arrived: no held update touches it.  Otherwise the box would wait for the
\* timeout although it holds what it waits for (gapBuffer.Consume).
GapsAreMissing ==
    \A g \in gaps :
        /\ state <= g.from /\ g.from < g.to
        /\ \A u \in Held \cap Counted : u.end <= g.from \/ g.to <= u.start

\* When a gap is filled, applyPending accepts at least one update: the warning
\* "Empty buffer" is never logged by a channel's worker.
FilledGapApplies ==
    [][phase = "scan" /\ phase' = "idle" /\ pc' = "run" => accepted # << >>]_vars

\* A worker that has marked its channel as left never revives the stored pts,
\* although it may still handle updates after stop() (Run's select is unfair).
LeftStaysLeft ==
    [][stored = -1 => stored' = -1]_vars

\* Only a restart takes the local counter back.
NeverBackwards ==
    [][state' < state => pc' = "down"]_vars

\* The worker is a reader of the channel's updates: the box, the gaps, the
\* differences and the timeouts are its own affair.  A process that is not running
\* stands where it will go on.
Reader == INSTANCE SequenceReader
    WITH Items <- Counted, Beginning <- InitialPts,
         position <- IF pc = "down" THEN stored ELSE state, saved <- stored,
         settled <- {u \in Counted : fate[u] # "none"}

\* Whatever arrives late, twice, out of order or not at all, and whatever fails, a
\* channel is read without a hole: the counter moves on over what was dealt with
\* only, SetChannelPts persists only the position that the counter takes in the same
\* step (so the stored pts never goes back), a restart goes on from there, and a
\* channel that was left and restarted is not read again (state_channel.go).
ReadsWithoutHoles == Reader!Spec

\* Every message the server has produced is eventually handed to the handler,
\* or covered by a resync request.
EveryMessageArrives ==
    \A m \in Messages \cap Counted :
        (m.end <= remote) ~> (fate[m] \in {"delivered", "resynced"})

=============================================================================
