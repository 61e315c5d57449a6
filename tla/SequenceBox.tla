---------------------------- MODULE SequenceBox ----------------------------
(* The gap detector of the updates engine (gotd/telegram/updates):            *)
(* sequence_box.go, gap_buffer.go, gap_check.go and the ranges of update.go.  *)
(*                                                                            *)
(* A box follows one counter of the Telegram server (a channel's pts, or the  *)
(* account's pts, qts or seq).  An update stands for the counter moving from  *)
(* u.start to u.end.  An update that continues the local counter is applied,  *)
(* an older one is ignored, and one from the future opens a gap and waits for *)
(* the missing ones, which have fastgapTimeout (500 ms) to arrive.            *)
(*                                                                            *)
(* The box calls back its owner (apply) in the middle of Handle, so a call is *)
(* several steps here: "phase" is where the call stands.                      *)
(*   idle   no call of Handle is running                                      *)
(*   scan   applyPending walks over the pending updates                       *)
(*   apply  the owner's apply runs with the accepted updates                  *)
(*                                                                            *)
(* The box has no Next of its own: its owners (ChannelState, InternalState)   *)
(* call these actions.  A definition whose name starts with Bad is a mutant   *)
(* of the one after it, used to show that the checks can fail.                *)
EXTENDS Integers, Sequences

CONSTANT Updates    \* the updates this box may ever be handed

ASSUME UpdatesAreRanges ==
    /\ Updates \subseteq [start : Int, end : Nat]
    /\ \A u \in Updates : u.start <= u.end

VARIABLES
    state,        \* s.state, the local counter
    gaps,         \* s.gaps, the ranges known to be missing
    pending,      \* s.pending, how many copies of each update are held back
    gapTimeout,   \* s.gapTimeout is armed
    phase,        \* where the running call of Handle stands
    next,         \* the local variable "state" of applyPending
    accepted      \* the local variable "accepted" of applyPending

box == <<state, gaps, pending, gapTimeout, phase, next, accepted>>

Gap == [from : Int, to : Int]

BoxTypeOK ==
    /\ state \in Nat
    /\ gaps \subseteq Gap
    /\ pending \in [Updates -> Nat]
    /\ gapTimeout \in BOOLEAN
    /\ phase \in {"idle", "scan", "apply"}
    /\ next \in Nat
    /\ accepted \in Seq(Updates)

NothingPending == [u \in Updates |-> 0]

\* newSequenceBox: nothing is pending and the timer is stopped.
NewBox(initial) ==
    /\ state = initial
    /\ gaps = {}
    /\ pending = NothingPending
    /\ gapTimeout = FALSE
    /\ phase = "idle"
    /\ next = 0
    /\ accepted = << >>

\* The same as an action: a box that replaces the current one.
RenewBox(initial) ==
    /\ state' = initial
    /\ gaps' = {}
    /\ pending' = NothingPending
    /\ gapTimeout' = FALSE
    /\ phase' = "idle"
    /\ next' = 0
    /\ accepted' = << >>

-----------------------------------------------------------------------------
Count(u) == u.end - u.start

\* Mutant: an update from the future is applied as well.
BadCheckGap(local, u) ==
    IF u.end = 0 \/ local + Count(u) <= u.end THEN "apply" ELSE "ignore"

\* What an update means to a box at position local.  An update whose counter
\* is 0 (a qts update in a gap) is always applied.
CheckGap(local, u) ==
    IF u.end = 0 \/ local + Count(u) = u.end THEN "apply"
    ELSE IF local + Count(u) > u.end THEN "ignore"
    ELSE "refetch"

Held == {u \in Updates : pending[u] > 0}

Hold(held, u) == [held EXCEPT ![u] = @ + 1]

Drop(held, u) == [held EXCEPT ![u] = @ - 1]

\* trimStale: the updates that position local has outdated are released.
TrimStale(local, held) ==
    [u \in Updates |-> IF CheckGap(local, u) = "ignore" THEN 0 ELSE held[u]]

\* gapBuffer.Consume: an update inside a gap cuts the gap in at most two.
Inside(u, g) == g.from <= u.start /\ u.end <= g.to

\* Mutant: the part of the gap in front of the update is forgotten.
BadCut(g, u) ==
    IF Inside(u, g)
    THEN {h \in {[from |-> u.end, to |-> g.to]} : h.from < h.to}
    ELSE {g}

\* Mutant: the first part ends where the update ends.
BadCutEnd(g, u) ==
    IF Inside(u, g)
    THEN {h \in {[from |-> g.from, to |-> u.end],
                 [from |-> u.end, to |-> g.to]} : h.from < h.to}
    ELSE {g}

Cut(g, u) ==
    IF Inside(u, g)
    THEN {h \in {[from |-> g.from, to |-> u.start],
                 [from |-> u.end, to |-> g.to]} : h.from < h.to}
    ELSE {g}

Consume(G, u) == UNION {Cut(g, u) : g \in G}

\* The loop over s.pending after gaps.Enable: what is left of the range g once
\* every update of U inside it has been consumed.  These are the ranges
\* between two neighbouring ends of such updates that no update fills.
ConsumeAll(g, U) ==
    LET V    == {u \in U : Inside(u, g)}
        From == {g.from} \cup {u.end : u \in V}
        To   == {g.to} \cup {u.start : u \in V}
    IN {h \in [from : From, to : To] :
            /\ h.from < h.to
            /\ \A u \in V : u.end <= h.from \/ h.to <= u.start}

-----------------------------------------------------------------------------
(* sequenceBox.Handle                                                         *)

\* applyPending starts: local counter "state", nothing accepted yet.
BeginApplyPending ==
    /\ phase' = "scan"
    /\ next' = state
    /\ accepted' = << >>

NoApply == UNCHANGED <<phase, next, accepted>>

\* "Outdated update, skipping".
HandleIgnore(u) ==
    /\ CheckGap(state, u) = "ignore"
    /\ pending' = TrimStale(state, pending)
    /\ UNCHANGED <<state, gaps, gapTimeout>>
    /\ NoApply

\* A gap is open: the update is held back, and may be what the gap lacks.
HandleInGap(u) ==
    /\ CheckGap(state, u) # "ignore"
    /\ gaps # {}
    /\ pending' = Hold(pending, u)
    /\ gaps' = Consume(gaps, u)
    /\ \/ /\ gaps' = {}
          /\ gapTimeout' = FALSE
          /\ BeginApplyPending
       \/ /\ gaps' # {}
          /\ UNCHANGED gapTimeout
          /\ NoApply
    /\ UNCHANGED state

\* The update continues the counter.
HandleApply(u) ==
    /\ CheckGap(state, u) = "apply"
    /\ gaps = {}
    /\ \/ /\ Held # {}
          /\ pending' = Hold(pending, u)
          /\ BeginApplyPending
       \/ /\ Held = {}
          /\ phase' = "apply"
          /\ next' = u.end
          /\ accepted' = <<u>>
          /\ UNCHANGED pending
    /\ UNCHANGED <<state, gaps, gapTimeout>>

\* Mutant: the gap timer is not started.
BadHandleRefetch(u) ==
    /\ CheckGap(state, u) = "refetch"
    /\ gaps = {}
    /\ pending' = Hold(pending, u)
    /\ gaps' = ConsumeAll([from |-> state, to |-> u.start], Held \cup {u})
    /\ IF gaps' = {} THEN BeginApplyPending ELSE NoApply
    /\ UNCHANGED <<state, gapTimeout>>

\* The update is from the future: a gap opens, unless the pending updates
\* fill it already.
HandleRefetch(u) ==
    /\ CheckGap(state, u) = "refetch"
    /\ gaps = {}
    /\ pending' = Hold(pending, u)
    /\ gaps' = ConsumeAll([from |-> state, to |-> u.start], Held \cup {u})
    /\ \/ /\ gaps' = {}
          /\ BeginApplyPending
          /\ UNCHANGED gapTimeout
       \/ /\ gaps' # {}
          /\ gapTimeout' = TRUE
          /\ NoApply
    /\ UNCHANGED state

Handle(u) ==
    /\ phase = "idle"
    /\ \/ HandleIgnore(u)
       \/ HandleInGap(u)
       \/ HandleApply(u)
       \/ HandleRefetch(u)

-----------------------------------------------------------------------------
(* sequenceBox.applyPending                                                   *)

\* The updates that may come first in the sorted slice.  The stable order of
\* updates that start together is left open.
Earliest == {u \in Held : \A v \in Held : u.start <= v.start}

\* Mutant: the local counter of the loop does not follow the accepted updates.
BadScanNext ==
    /\ phase = "scan"
    /\ \E u \in Earliest :
          /\ pending' = Drop(pending, u)
          /\ \/ CheckGap(next, u) = "apply" /\ accepted' = Append(accepted, u)
             \/ CheckGap(next, u) = "ignore" /\ UNCHANGED accepted
    /\ UNCHANGED <<state, gaps, gapTimeout, phase, next>>

\* One turn of the loop: the earliest update is accepted, or dropped as old.
ScanNext ==
    /\ phase = "scan"
    /\ \E u \in Earliest :
          /\ pending' = Drop(pending, u)
          /\ \/ /\ CheckGap(next, u) = "apply"
                /\ accepted' = Append(accepted, u)
                /\ next' = u.end
             \/ /\ CheckGap(next, u) = "ignore"
                /\ UNCHANGED <<next, accepted>>
    /\ UNCHANGED <<state, gaps, gapTimeout, phase>>

\* The loop ends: apply is called, unless nothing was accepted.
ScanEnd ==
    /\ phase = "scan"
    /\ \A u \in Earliest : CheckGap(next, u) = "refetch"
    /\ IF accepted = << >>
       THEN phase' = "idle" /\ next' = 0
       ELSE phase' = "apply" /\ UNCHANGED next
    /\ UNCHANGED <<state, gaps, pending, gapTimeout, accepted>>

\* The owner's apply returned nil: setState(state).
ApplyOk ==
    /\ phase = "apply"
    /\ state' = next
    /\ pending' = TrimStale(next, pending)
    /\ phase' = "idle"
    /\ next' = 0
    /\ accepted' = << >>
    /\ UNCHANGED <<gaps, gapTimeout>>

\* The owner's apply returned an error: the counter stays where it was, the
\* accepted updates are gone from the pending ones.
ApplyError ==
    /\ phase = "apply"
    /\ phase' = "idle"
    /\ next' = 0
    /\ accepted' = << >>
    /\ UNCHANGED <<state, gaps, pending, gapTimeout>>

-----------------------------------------------------------------------------
(* What an owner does to a box outside Handle                                 *)

\* sequenceBox.SetState.
SetState(value) ==
    /\ state' = value
    /\ pending' = TrimStale(value, pending)

\* gapBuffer.Clear, at the start of every getDifference.  The timer runs on.
ClearGaps == gaps' = {}

\* The gap timer fires: its channel is read by the owner's select.
GapTimeoutFires ==
    /\ gapTimeout
    /\ gapTimeout' = FALSE
=============================================================================
