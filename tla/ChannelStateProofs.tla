------------------------- MODULE ChannelStateProofs -------------------------
(* Proofs about ChannelState, for every set of updates, every position and    *)
(* every combination of failures.                                             *)
EXTENDS ChannelState, WellFoundedInduction, TLAPS

-----------------------------------------------------------------------------
(* Types                                                                      *)

\* A counted update is an update, with a start below its end.
LEMMA UpdateFacts ==
    /\ Counted \subseteq Updates
    /\ \A u \in Updates : /\ u.start \in Nat /\ u.end \in Nat
                          /\ u.start <= u.end /\ u.end # 0
    /\ \A u \in Counted : u.start < u.end
BY UpdatesAreRanges, ChannelConstants DEF Counted, Count

\* Sequences of updates.
LEMMA SeqFacts ==
    /\ << >> \in Seq(Updates)
    /\ \A u \in Updates : <<u>> \in Seq(Updates)
    /\ \A u \in Updates, s \in Seq(Updates) : Append(s, u) \in Seq(Updates)
OBVIOUS

LEMMA HoldType ==
    ASSUME NEW held \in [Updates -> Nat], NEW u \in Updates
    PROVE  Hold(held, u) \in [Updates -> Nat]
BY DEF Hold

\* Handle keeps the types of the box.
LEMMA HandleType ==
    ASSUME BoxTypeOK, NEW u \in Updates, Handle(u)
    PROVE  BoxTypeOK'
<1>1. u.start \in Nat /\ u.end \in Nat
  BY UpdateFacts
<1>2. CASE HandleIgnore(u)
  BY <1>2 DEF HandleIgnore, BoxTypeOK, NoApply, TrimStale
<1>3. CASE HandleInGap(u)
  <2>1. gaps' \subseteq Gap
    BY <1>1, <1>3 DEF HandleInGap, BoxTypeOK, Consume, Cut, Gap
  <2> QED
    BY <1>3, <2>1, HoldType, SeqFacts
    DEF HandleInGap, BoxTypeOK, BeginApplyPending, NoApply
<1>4. CASE HandleApply(u)
  BY <1>1, <1>4, HoldType, SeqFacts DEF HandleApply, BoxTypeOK, BeginApplyPending
<1>5. CASE HandleRefetch(u)
  <2>1. gaps' \subseteq Gap
    BY <1>1, <1>5, UpdateFacts
    DEF HandleRefetch, BoxTypeOK, ConsumeAll, Gap, Held
  <2> QED
    BY <1>5, <2>1, HoldType, SeqFacts
    DEF HandleRefetch, BoxTypeOK, BeginApplyPending, NoApply
<1> QED
  BY <1>2, <1>3, <1>4, <1>5 DEF Handle

\* So do the steps of applyPending.
LEMMA ScanType ==
    ASSUME BoxTypeOK, ScanNext \/ ScanEnd
    PROVE  BoxTypeOK'
<1>1. CASE ScanNext
  <2>1. PICK u \in Earliest :
          /\ pending' = Drop(pending, u)
          /\ \/ /\ CheckGap(next, u) = "apply"
                /\ accepted' = Append(accepted, u)
                /\ next' = u.end
             \/ /\ CheckGap(next, u) = "ignore"
                /\ UNCHANGED <<next, accepted>>
    BY <1>1 DEF ScanNext
  <2>2. u \in Updates /\ pending[u] > 0 /\ u.end \in Nat
    BY UpdateFacts DEF Earliest, Held
  <2>3. pending' \in [Updates -> Nat]
    BY <2>1, <2>2 DEF BoxTypeOK, Drop
  <2>4. accepted' \in Seq(Updates)
    BY <2>1, <2>2, SeqFacts DEF BoxTypeOK
  <2>5. next' \in Nat
    BY <2>1, <2>2 DEF BoxTypeOK
  <2> QED
    BY <1>1, <2>3, <2>4, <2>5 DEF ScanNext, BoxTypeOK
<1>2. CASE ScanEnd
  BY <1>2 DEF ScanEnd, BoxTypeOK
<1> QED
  BY <1>1, <1>2

\* Moving the counter keeps the types of the box.
LEMMA ApplyOkType ==
    ASSUME BoxTypeOK, ApplyOk
    PROVE  BoxTypeOK'
BY SeqFacts DEF BoxTypeOK, ApplyOk, TrimStale

LEMMA SetStateType ==
    ASSUME BoxTypeOK, NEW p \in Nat, SetState(p),
           UNCHANGED <<gaps, gapTimeout, phase, next, accepted>>
    PROVE  BoxTypeOK'
BY DEF BoxTypeOK, SetState, TrimStale

LEMMA RenewBoxType ==
    ASSUME NEW p \in Nat, RenewBox(p)
    PROVE  BoxTypeOK'
<1>1. NothingPending \in [Updates -> Nat]
  BY DEF NothingPending
<1> QED
  BY <1>1, SeqFacts DEF BoxTypeOK, RenewBox

LEMMA MarkType ==
    ASSUME fate \in [Counted -> Fate], NEW U, NEW f \in Fate, Mark(U, f)
    PROVE  fate' \in [Counted -> Fate]
BY DEF Mark

\* The positions of the server's answers are natural numbers.
LEMMA AnswerType ==
    ASSUME TypeOK, Answer
    PROVE  diff' \in Diff /\ pc' \in {"others", "store"}
<1>1. remote \in Nat
  BY DEF TypeOK
<1>2. ASSUME NEW p \in {u.end : u \in Counted}, NEW t \in BOOLEAN
      PROVE  [kind |-> "difference", pts |-> p,
              final |-> p = remote, timeout |-> t] \in Diff
  <2>1. p \in Nat
    BY UpdateFacts
  <2>2. (p = remote) \in BOOLEAN
    OBVIOUS
  <2> QED
    BY <2>1, <2>2 DEF Diff
<1>3. ASSUME NEW t \in BOOLEAN, NEW p \in Nat, NEW k \in {"empty", "tooLong", "badDialog"}
      PROVE  [kind |-> k, pts |-> p, final |-> TRUE, timeout |-> t] \in Diff
  BY DEF Diff
<1> QED
  BY <1>1, <1>2, <1>3 DEF Answer

LEMMA NoDiffType == NoDiff \in Diff
BY DEF NoDiff, Diff

\* Every step keeps the types.
LEMMA TypeInductive ==
    ASSUME TypeOK, [Next]_vars
    PROVE  TypeOK'
<1> USE DEF TypeOK
<1>1. CASE UNCHANGED vars
  BY <1>1 DEF vars, box, worker, BoxTypeOK
<1>2. ASSUME UNCHANGED box PROVE BoxTypeOK'
  BY <1>2 DEF box, BoxTypeOK
<1>3. CASE ServerUpdate
  BY <1>3, <1>2, UpdateFacts DEF ServerUpdate, worker
<1>4. CASE DiffTimeoutExpires
  BY <1>4, <1>2 DEF DiffTimeoutExpires, worker
<1>5. CASE IdleTimeout
  BY <1>5, <1>2 DEF IdleTimeout, worker
<1>6. CASE Exit
  BY <1>6, <1>2 DEF Exit, worker
<1>7. CASE DrainEnd
  BY <1>7, <1>2 DEF DrainEnd, worker
<1>8. CASE RequestError
  BY <1>8, <1>2 DEF RequestError, worker
<1>9. CASE Cancel
  BY <1>9, <1>2 DEF Cancel, worker
<1>10. CASE \E announced \in {0, remote} : ChannelTooLong(announced)
  BY <1>10, <1>2 DEF ChannelTooLong, worker
<1>11. CASE \E u \in Updates : DrainUpdate(u)
  BY <1>11, <1>2 DEF DrainUpdate, worker
<1>12. CASE \E u \in Updates : Arrive(u)
  BY <1>12, HandleType DEF Arrive, worker
<1>13. CASE \E u \in Updates : ReturnOther(u)
  BY <1>13, HandleType DEF ReturnOther, worker
<1>14. CASE GapTimeout
  BY <1>14 DEF GapTimeout, GapTimeoutFires, BoxTypeOK, worker
<1>15. CASE Scan
  BY <1>15, ScanType DEF Scan, worker
<1>16. CASE ApplyHandled
  BY <1>16, <1>2, MarkType DEF ApplyHandled, Fate
<1>17. CASE ApplyFailed
  BY <1>17, ApplyOkType, MarkType DEF ApplyFailed, worker, Fate
<1>18. CASE SavePts
  BY <1>18, ApplyOkType DEF SavePts, SetChannelPts, BoxTypeOK
<1>19. CASE EnterDifference
  BY <1>19 DEF EnterDifference, ClearGaps, BoxTypeOK
<1>20. CASE Request
  BY <1>20, <1>2, AnswerType DEF Request
<1>21. CASE RequestPrivate
  BY <1>21, <1>2 DEF RequestPrivate, SetChannelPts
<1>22. CASE SendOthers
  <2>1. Between(state, diff.pts) \subseteq Updates
    BY UpdateFacts DEF Between
  <2> QED
    BY <1>22, <1>2, <2>1, MarkType, NoDiffType DEF SendOthers, Fate
<1>23. CASE HandleMessages
  BY <1>23, <1>2, MarkType, NoDiffType DEF HandleMessages, Fate
<1>24. CASE StoreDifference
  <2>1. diff.pts \in Nat /\ diff.timeout \in BOOLEAN
    BY DEF Diff
  <2>2. BoxTypeOK'
    BY <1>24, <2>1, SetStateType DEF StoreDifference
  <2> QED
    BY <1>24, <2>1, <2>2, NoDiffType DEF StoreDifference, SetChannelPts
<1>25. CASE StoreTooLong
  <2>1. diff.pts \in Nat /\ diff.timeout \in BOOLEAN
    BY DEF Diff
  <2>2. BoxTypeOK'
    BY <1>25, <2>1, SetStateType DEF StoreTooLong
  <2> QED
    BY <1>25, <2>1, <2>2, NoDiffType, MarkType DEF StoreTooLong, SetChannelPts, Fate
<1>26. CASE StoreBadDialog
  <2>1. diff.timeout \in BOOLEAN
    BY DEF Diff
  <2> QED
    BY <1>26, <1>2, <2>1, NoDiffType DEF StoreBadDialog
<1>27. CASE OnTooLong
  BY <1>27, <1>2, MarkType DEF OnTooLong, Fate
<1>28. CASE Crash
  BY <1>28, RenewBoxType, NoDiffType DEF Crash
<1>29. CASE Restart
  BY <1>29, RenewBoxType DEF Restart
<1> QED
  BY <1>1, <1>3, <1>4, <1>5, <1>6, <1>7, <1>8, <1>9, <1>10, <1>11, <1>12,
     <1>13, <1>14, <1>15, <1>16, <1>17, <1>18, <1>19, <1>20, <1>21, <1>22,
     <1>23, <1>24, <1>25, <1>26, <1>27, <1>28, <1>29
  DEF Next, Step

LEMMA InitType == Init => TypeOK
<1>1. NothingPending \in [Updates -> Nat]
  BY DEF NothingPending
<1>2. [u \in Counted |-> "none"] \in [Counted -> Fate]
  BY DEF Fate
<1>3. InitialPts \in Nat
  BY ChannelConstants
<1>4. ASSUME Init PROVE BoxTypeOK
  <2>1. state \in Nat /\ gaps \subseteq Gap /\ pending \in [Updates -> Nat]
    BY <1>1, <1>3, <1>4 DEF Init, NewBox
  <2>2. gapTimeout \in BOOLEAN
    BY <1>4 DEF Init, NewBox
  <2>3. phase \in {"idle", "scan", "apply"} /\ next \in Nat
    BY <1>4 DEF Init, NewBox
  <2>4. accepted \in Seq(Updates)
    BY <1>4, SeqFacts DEF Init, NewBox
  <2> QED
    BY <2>1, <2>2, <2>3, <2>4 DEF BoxTypeOK
<1> QED
  BY <1>2, <1>3, <1>4, NoDiffType DEF Init, TypeOK

\* The variables keep their types in every behaviour: no step of the worker,
\* the server or a failure leads outside the states TypeOK describes.
THEOREM TypeCorrect == Spec => []TypeOK
<1>1. Init => TypeOK
  BY InitType
<1>2. TypeOK /\ [Next]_vars => TypeOK'
  BY TypeInductive
<1> QED
  BY <1>1, <1>2, PTL DEF Spec

-----------------------------------------------------------------------------
(* The inductive invariant                                                    *)

\* No position of the system cuts an update in two.
Positions ==
    /\ Whole(remote) /\ Whole(state) /\ Whole(stored)
    /\ pc = "down" => state = 0

\* While the box is busy, all below its next position is dealt with or is in
\* the batch; the box is only busy while the worker is in Handle.
Batch ==
    phase # "idle" =>
        /\ pc \in {"run", "save"}
        /\ Whole(next) /\ state <= next
        /\ \A u \in Counted : u.end <= next =>
              fate[u] # "none" \/ \E i \in 1..Len(accepted) : u = accepted[i]

\* The accepted updates form a chain from the box's position to the next one.
Chain ==
    phase # "idle" =>
        /\ accepted = << >> => next = state /\ phase = "scan"
        /\ accepted # << >> =>
              /\ accepted[1].start = state
              /\ accepted[Len(accepted)].end = next
              /\ \A i \in 2..Len(accepted) : accepted[i].start = accepted[i-1].end

\* Between the handler and the storage, the batch has been delivered.
Saving == pc = "save" => phase = "apply" /\ Covered(next)

\* How far the answer being processed has been dealt with.
Answered ==
    /\ pc \in {"others", "messages"} => diff.kind = "difference"
    /\ (pc \in {"others", "messages", "store"} /\ diff.kind # "badDialog")
          => Whole(diff.pts) /\ state <= diff.pts
    /\ pc = "messages" =>
          \A u \in Between(state, diff.pts) \ Messages : fate[u] # "none"
    /\ (pc = "store" /\ diff.kind \in {"difference", "empty"}) =>
          \A u \in Between(state, diff.pts) : fate[u] # "none"

\* Outside getDifference an open gap has a running timer.
Timer == (pc # "diff" /\ gaps # {}) => gapTimeout

\* A worker whose channel is marked as left has been told to stop.
Left == stored = -1 => cancelled \/ pc = "down"

Inv ==
    /\ TypeOK
    /\ Positions
    /\ Batch
    /\ Chain
    /\ Saving
    /\ Answered
    /\ Timer
    /\ Left
    /\ NothingOvertaken
    /\ CrashLosesNothing

-----------------------------------------------------------------------------
(* Facts about positions and fates                                            *)

\* An update ends where no other update is cut.
LEMMA WholeEnd ==
    ASSUME NEW u \in Updates
    PROVE  Whole(u.end)
<1>1. ASSUME NEW v \in Updates PROVE u.end <= v.start \/ v.end <= u.end
  <2>1. u = v \/ u.end <= v.start \/ v.end <= u.start
    BY ChannelConstants DEF Apart
  <2> QED
    BY <2>1, UpdateFacts
<1> QED
  BY <1>1 DEF Whole

\* An update that ends by b lies below a or between a and b.
LEMMA WholeStep ==
    ASSUME NEW a \in Nat, NEW b \in Nat, Whole(a),
           NEW u \in Counted, u.end <= b
    PROVE  u.end <= a \/ u \in Between(a, b)
BY UpdateFacts DEF Whole, Between

\* An update that ends by the end of v is v, or ends by the start of v.
LEMMA BelowUpdate ==
    ASSUME NEW u \in Counted, NEW v \in Updates, u.end <= v.end
    PROVE  u = v \/ u.end <= v.start
BY UpdateFacts, ChannelConstants DEF Apart

\* An update that continues position p starts there.
LEMMA ApplyStart ==
    ASSUME NEW p \in Nat, NEW u \in Updates, CheckGap(p, u) = "apply"
    PROVE  u.start = p
BY UpdateFacts DEF CheckGap, Count

\* Marking gives the marked updates a fate and takes nobody's away.
LEMMA MarkFate ==
    ASSUME fate \in [Counted -> Fate], NEW U, NEW f \in Fate \ {"none"}, Mark(U, f)
    PROVE  /\ \A u \in Counted : fate[u] # "none" => fate'[u] # "none"
           /\ \A u \in Counted : u \in U => fate'[u] # "none"
BY DEF Mark, Fate

LEMMA MarkCovers ==
    ASSUME fate \in [Counted -> Fate], NEW U, NEW f \in Fate \ {"none"}, Mark(U, f),
           NEW p, Covered(p)
    PROVE  \A u \in Counted : u.end <= p => fate'[u] # "none"
BY MarkFate DEF Covered

\* The initial state satisfies the invariant.
LEMMA InvInit == Init => Inv
<1> SUFFICES ASSUME Init PROVE Inv
  OBVIOUS
<1>1. TypeOK
  BY InitType
<1>2. \A u \in Updates : InitialPts <= u.start
  BY ChannelConstants
<1>3. state = InitialPts /\ stored = InitialPts /\ remote = InitialPts
      /\ InitialPts \in Nat
  BY ChannelConstants DEF Init, NewBox
<1>4. Whole(InitialPts)
  BY <1>2 DEF Whole
<1>5. Covered(InitialPts)
  BY <1>2, <1>3, UpdateFacts DEF Covered
<1> QED
  BY <1>1, <1>3, <1>4, <1>5
  DEF Init, NewBox, Inv, Positions, Batch, Chain, Saving, Answered, Timer,
      Left, NothingOvertaken, CrashLosesNothing

-----------------------------------------------------------------------------
(* The invariant is kept: steps that leave the box alone                      *)

\* An idle box has no batch.
LEMMA IdleBox ==
    ASSUME phase' = "idle"
    PROVE  Batch' /\ Chain'
BY DEF Batch, Chain

\* Steps that change neither the worker's place nor the box, the storage or
\* the fates: the server produces an update, time passes, a stop is requested.
LEMMA StandStill ==
    ASSUME Inv, TypeOK', Whole(remote'), cancelled => cancelled',
           UNCHANGED <<box, stored, pc, diff, fate>>
    PROVE  Inv'
<1>1. Positions'
  BY DEF Inv, Positions, box
<1>2. Batch'
  BY DEF Inv, Batch, box
<1>3. Chain'
  BY DEF Inv, Chain, box
<1>4. Saving'
  BY DEF Inv, Saving, Covered, box
<1>5. Answered'
  BY DEF Inv, Answered, box
<1>6. Timer'
  BY DEF Inv, Timer, box
<1>7. Left'
  BY DEF Inv, Left
<1>8. NothingOvertaken' /\ CrashLosesNothing'
  BY DEF Inv, NothingOvertaken, CrashLosesNothing, Covered, box
<1> QED
  BY <1>1, <1>2, <1>3, <1>4, <1>5, <1>6, <1>7, <1>8 DEF Inv

\* Steps that only take the worker to another place, outside an answer.
LEMMA MoveOn ==
    ASSUME Inv, TypeOK', phase = "idle", pc # "down",
           pc' \in {"run", "diff", "drain", "request", "resync", "stopped"},
           gaps' = {} \/ pc' = "diff" \/ (pc # "diff" /\ UNCHANGED <<gaps, gapTimeout>>),
           cancelled => cancelled',
           UNCHANGED <<state, phase, remote, stored, fate>>
    PROVE  Inv'
<1>1. Positions'
  BY DEF Inv, Positions
<1>2. Batch' /\ Chain'
  BY IdleBox
<1>3. Saving' /\ Answered'
  BY DEF Saving, Answered
<1>4. Timer'
  BY DEF Inv, Timer
<1>5. Left'
  BY DEF Inv, Left
<1>6. NothingOvertaken' /\ CrashLosesNothing'
  BY DEF Inv, NothingOvertaken, CrashLosesNothing, Covered
<1> QED
  BY <1>1, <1>2, <1>3, <1>4, <1>5, <1>6 DEF Inv

-----------------------------------------------------------------------------
(* The invariant is kept: getDifference                                       *)

\* Every answer of the server is at a position that cuts no update.
LEMMA RequestInv ==
    ASSUME Inv, TypeOK', Request
    PROVE  Inv'
<1>1. /\ phase = "idle" /\ phase' = "idle"
      /\ UNCHANGED <<box, remote, stored, fate>> /\ cancelled' = cancelled
  BY DEF Inv, Batch, Request, box
<1>2. /\ state \in Nat /\ remote \in Nat /\ Whole(remote)
      /\ \A u \in Counted : u.end \in Nat /\ u.start < u.end
  BY UpdateFacts DEF Inv, TypeOK, BoxTypeOK, Positions
<1>3. /\ pc' \in {"others", "store"}
      /\ pc' = "others" => diff'.kind = "difference"
      /\ diff'.kind # "badDialog" => Whole(diff'.pts) /\ state <= diff'.pts
      /\ pc' = "store" => diff'.kind # "difference"
      /\ diff'.kind = "empty" => diff'.pts = state
  BY <1>2 DEF Request, Answer
<1>4. Positions'
  BY <1>1, <1>3 DEF Inv, Positions, box
<1>5. Batch' /\ Chain'
  BY <1>1, IdleBox
<1>6. Saving'
  BY <1>3 DEF Saving
<1>7. Answered'
  <2>1. \A u \in Counted : ~(state <= u.start /\ u.end <= state)
    BY <1>2, UpdateFacts
  <2>2. (pc' = "store" /\ diff'.kind \in {"difference", "empty"})
          => Between(state', diff'.pts) = {}
    BY <1>1, <1>3, <2>1 DEF Between, box
  <2> QED
    BY <1>1, <1>3, <2>2 DEF Answered, box
<1>8. Timer'
  BY <1>1 DEF Inv, Timer, Request, box
<1>9. Left'
  BY <1>1 DEF Inv, Left, Request
<1>10. NothingOvertaken' /\ CrashLosesNothing'
  BY <1>1 DEF Inv, NothingOvertaken, CrashLosesNothing, Covered, box
<1> QED
  BY <1>4, <1>5, <1>6, <1>7, <1>8, <1>9, <1>10 DEF Inv

\* A channel that is marked as left has a worker that is told to stop.
LEMMA RequestPrivateInv ==
    ASSUME Inv, TypeOK', RequestPrivate
    PROVE  Inv'
<1>1. /\ phase = "idle" /\ phase' = "idle"
      /\ UNCHANGED <<box, remote, fate>> /\ stored' \in {stored, -1}
      /\ pc = "request" /\ pc' = "run" /\ cancelled'
  BY DEF Inv, Batch, RequestPrivate, SetChannelPts, box
<1>2. \A u \in Updates : u.start \in Nat /\ u.end \in Nat
  BY UpdateFacts
<1>3. Positions'
  BY <1>1, <1>2 DEF Inv, Positions, Whole, box
<1>4. Batch' /\ Chain'
  BY <1>1, IdleBox
<1>5. Saving' /\ Answered'
  BY <1>1 DEF Saving, Answered
<1>6. Timer'
  BY <1>1 DEF Inv, Timer, box
<1>7. Left'
  BY <1>1 DEF Left
<1>8. NothingOvertaken'
  BY <1>1 DEF Inv, NothingOvertaken, Covered, box
<1>9. CrashLosesNothing'
  BY <1>1, <1>2, UpdateFacts DEF Inv, CrashLosesNothing, Covered
<1> QED
  BY <1>3, <1>4, <1>5, <1>6, <1>7, <1>8, <1>9 DEF Inv

\* The two steps that hand out the parts of an answer.
LEMMA HandOutInv ==
    ASSUME Inv, TypeOK', phase = "idle", phase' = "idle",
           UNCHANGED <<box, remote, stored, cancelled, diff>>,
           NEW U, NEW f \in Fate \ {"none"}, Mark(U, f),
           \/ /\ pc = "others" /\ pc' = "messages"
              /\ U = Between(state, diff.pts) \ Messages
           \/ /\ pc = "messages" /\ pc' = "store"
              /\ U = Between(state, diff.pts) \cap Messages
           \/ pc = "resync" /\ pc' = "run"
    PROVE  Inv'
<1>1. fate \in [Counted -> Fate]
  BY DEF Inv, TypeOK
<1>2. /\ \A u \in Counted : fate[u] # "none" => fate'[u] # "none"
      /\ \A u \in Counted : u \in U => fate'[u] # "none"
  BY <1>1, MarkFate
<1>3. Positions'
  BY DEF Inv, Positions, box
<1>4. Batch' /\ Chain'
  BY IdleBox
<1>5. Saving'
  BY DEF Saving
<1>6. Answered'
  <2>1. Between(state, diff.pts) \subseteq Counted
    BY DEF Between
  <2> QED
    BY <1>2, <2>1 DEF Inv, Answered, box
<1>7. Timer'
  BY DEF Inv, Timer, box
<1>8. Left'
  BY DEF Inv, Left
<1>9. NothingOvertaken' /\ CrashLosesNothing'
  BY <1>2 DEF Inv, NothingOvertaken, CrashLosesNothing, Covered, box
<1> QED
  BY <1>3, <1>4, <1>5, <1>6, <1>7, <1>8, <1>9 DEF Inv

\* The two steps that take over the position of an answer.
LEMMA TakeOverInv ==
    ASSUME Inv, TypeOK', pc = "store", pc' \in {"run", "diff", "resync"},
           diff.kind # "badDialog",
           SetChannelPts(diff.pts), SetState(diff.pts),
           UNCHANGED <<gaps, gapTimeout, phase, remote, cancelled>>,
           \A u \in Counted : fate[u] # "none" => fate'[u] # "none",
           \A u \in Between(state, diff.pts) : fate'[u] # "none"
    PROVE  Inv'
<1>1. /\ state \in Nat /\ diff.pts \in Nat /\ phase = "idle"
      /\ Whole(state) /\ Whole(diff.pts)
  BY DEF Inv, TypeOK, BoxTypeOK, Diff, Batch, Positions, Answered
<1>2. state' = diff.pts /\ stored' \in {stored, diff.pts}
  BY DEF SetState, SetChannelPts
<1>3. Positions'
  BY <1>1, <1>2 DEF Inv, Positions
<1>4. Batch' /\ Chain'
  BY <1>1, IdleBox
<1>5. Saving' /\ Answered'
  BY DEF Saving, Answered
<1>6. Timer'
  BY DEF Inv, Timer
<1>7. Left'
  BY <1>1, <1>2 DEF Inv, Left
<1>8. \A u \in Counted : u.end <= diff.pts => fate'[u] # "none"
  BY <1>1, WholeStep DEF Inv, NothingOvertaken, Covered
<1>9. NothingOvertaken' /\ CrashLosesNothing'
  BY <1>2, <1>8 DEF Inv, NothingOvertaken, CrashLosesNothing, Covered
<1> QED
  BY <1>3, <1>4, <1>5, <1>6, <1>7, <1>9 DEF Inv

-----------------------------------------------------------------------------
(* The invariant is kept: the box                                             *)

\* One more update at the end of a batch.
LEMMA AppendChain ==
    ASSUME NEW s \in Seq(Updates), NEW u \in Updates, NEW from \in Nat,
           NEW to \in Nat, u.start = to,
           s = << >> => to = from,
           s # << >> =>
              /\ s[1].start = from
              /\ s[Len(s)].end = to
              /\ \A i \in 2..Len(s) : s[i].start = s[i-1].end
    PROVE  LET t == Append(s, u)
           IN /\ t # << >>
              /\ t[1].start = from
              /\ t[Len(t)].end = u.end
              /\ \A i \in 2..Len(t) : t[i].start = t[i-1].end
<1> DEFINE t == Append(s, u)
<1>1. /\ Len(s) \in Nat /\ Len(t) = Len(s) + 1 /\ t[Len(t)] = u
      /\ \A i \in 1..Len(s) : t[i] = s[i]
      /\ s = << >> <=> Len(s) = 0
  OBVIOUS
<1>2. t # << >>
  <2>1. Len(t) # 0 /\ Len(<< >>) = 0
    BY <1>1
  <2> QED
    BY <2>1
<1>3. t[1].start = from
  BY <1>1
<1>4. ASSUME NEW i \in 2..Len(t) PROVE t[i].start = t[i-1].end
  <2>1. CASE i = Len(t)
    <3>1. Len(s) # 0 /\ i - 1 = Len(s) /\ t[i-1] = s[Len(s)]
      BY <1>1, <2>1
    <3> QED
      BY <1>1, <2>1, <3>1
  <2>2. CASE i # Len(t)
    <3>1. i \in 2..Len(s) /\ i - 1 \in 1..Len(s) /\ i \in 1..Len(s)
      BY <1>1, <2>2
    <3> QED
      BY <1>1, <3>1
  <2> QED
    BY <2>1, <2>2
<1> QED
  BY <1>1, <1>2, <1>3, <1>4

\* Handle either leaves the box idle, starts the scan of the pending updates,
\* or starts to apply the update itself, which continues the counter.
LEMMA HandleOutcome ==
    ASSUME Inv, TypeOK', NEW u \in Updates, Handle(u)
    PROVE  /\ state' = state
           /\ gaps' # {} /\ gaps = {} => gapTimeout'
           /\ gaps' # {} /\ gaps # {} => gapTimeout' = gapTimeout
           /\ \/ phase' = "idle"
              \/ phase' = "scan" /\ next' = state /\ accepted' = << >>
              \/ /\ phase' = "apply" /\ next' = u.end /\ accepted' = <<u>>
                 /\ u.start = state
<1>1. state \in Nat /\ phase = "idle"
  BY DEF Inv, TypeOK, BoxTypeOK, Handle
<1>2. CASE HandleIgnore(u)
  BY <1>1, <1>2 DEF HandleIgnore, NoApply
<1>3. CASE HandleInGap(u)
  BY <1>1, <1>3 DEF HandleInGap, NoApply, BeginApplyPending
<1>4. CASE HandleApply(u)
  BY <1>1, <1>4, ApplyStart DEF HandleApply, BeginApplyPending
<1>5. CASE HandleRefetch(u)
  BY <1>1, <1>5 DEF HandleRefetch, NoApply, BeginApplyPending
<1> QED
  BY <1>2, <1>3, <1>4, <1>5 DEF Handle

LEMMA HandleInv ==
    ASSUME Inv, TypeOK', pc = "run", NEW u \in Updates, Handle(u),
           UNCHANGED <<remote, stored, pc, cancelled, fate>>
    PROVE  Inv'
<1>1. /\ state \in Nat /\ u.end \in Nat /\ u.start <= u.end
      /\ Covered(state) /\ Whole(state)
  BY UpdateFacts DEF Inv, TypeOK, BoxTypeOK, NothingOvertaken, Positions
<1>2. state' = state
  BY HandleOutcome
<1>3. Positions' /\ Saving' /\ Answered' /\ NothingOvertaken' /\ CrashLosesNothing'
  BY <1>2 DEF Inv, Positions, Saving, Answered, NothingOvertaken,
              CrashLosesNothing, Covered
<1>4. Timer'
  <2>1. CASE gaps = {}
    BY <2>1, HandleOutcome DEF Timer
  <2>2. CASE gaps # {}
    BY <2>2, HandleOutcome DEF Inv, Timer
  <2> QED
    BY <2>1, <2>2
<1>5. Left'
  BY DEF Inv, Left
<1>6. Batch' /\ Chain'
  <2>1. CASE phase' = "idle"
    BY <2>1, IdleBox
  <2>2. CASE phase' = "scan" /\ next' = state /\ accepted' = << >>
    BY <1>1, <1>2, <2>2 DEF Batch, Chain, Covered
  <2>3. CASE /\ phase' = "apply" /\ next' = u.end /\ accepted' = <<u>>
             /\ u.start = state
    <3>1. Whole(u.end)
      BY WholeEnd
    <3>2. accepted'[1] = u /\ Len(accepted') = 1
      BY <2>3
    <3>3. \A v \in Counted : v.end <= u.end => fate[v] # "none" \/ v = u
      BY <1>1, <2>3, BelowUpdate DEF Covered
    <3>4. Batch'
      BY <1>1, <1>2, <2>3, <3>1, <3>2, <3>3 DEF Batch
    <3>5. Chain'
      BY <1>2, <2>3, <3>2 DEF Chain
    <3> QED
      BY <3>4, <3>5
  <2> QED
    BY <2>1, <2>2, <2>3, HandleOutcome
<1> QED
  BY <1>3, <1>4, <1>5, <1>6 DEF Inv

\* One turn of the loop in applyPending.
LEMMA ScanNextInv ==
    ASSUME Inv, TypeOK', pc = "run", ScanNext,
           UNCHANGED <<remote, stored, pc, cancelled, fate>>
    PROVE  Inv'
<1>1. /\ phase = "scan" /\ phase' = "scan"
      /\ UNCHANGED <<state, gaps, gapTimeout>>
  BY DEF ScanNext
<1>2. /\ state \in Nat /\ next \in Nat /\ accepted \in Seq(Updates)
      /\ Whole(next) /\ state <= next
  BY <1>1 DEF Inv, TypeOK, BoxTypeOK, Batch
<1>3. Positions' /\ Saving' /\ Answered' /\ NothingOvertaken' /\ CrashLosesNothing'
  BY <1>1 DEF Inv, Positions, Saving, Answered, NothingOvertaken,
              CrashLosesNothing, Covered
<1>4. Timer'
  BY <1>1 DEF Inv, Timer
<1>5. Left'
  BY DEF Inv, Left
<1>6. Batch' /\ Chain'
  <2>1. PICK u \in Earliest :
          \/ /\ CheckGap(next, u) = "apply"
             /\ accepted' = Append(accepted, u)
             /\ next' = u.end
          \/ UNCHANGED <<next, accepted>>
    BY DEF ScanNext
  <2>2. /\ u \in Updates /\ u.end \in Nat /\ u.start \in Nat /\ u.start <= u.end
    BY UpdateFacts DEF Earliest, Held
  <2>3. CASE UNCHANGED <<next, accepted>>
    BY <1>1, <2>3 DEF Inv, Batch, Chain
  <2>4. CASE /\ CheckGap(next, u) = "apply"
             /\ accepted' = Append(accepted, u)
             /\ next' = u.end
    <3>1. u.start = next
      BY <1>2, <2>2, <2>4, ApplyStart
    <3>2. Whole(u.end)
      BY <2>2, WholeEnd
    <3>3. /\ \A i \in 1..Len(accepted) :
                i \in 1..Len(accepted') /\ accepted'[i] = accepted[i]
          /\ Len(accepted') \in 1..Len(accepted') /\ accepted'[Len(accepted')] = u
      BY <1>2, <2>2, <2>4
    <3>4. ASSUME NEW v \in Counted, v.end <= next'
          PROVE  fate[v] # "none" \/ \E i \in 1..Len(accepted') : v = accepted'[i]
      <4>1. v = u \/ v.end <= next
        BY <2>2, <2>4, <3>1, <3>4, BelowUpdate
      <4>2. CASE v = u
        BY <3>3, <4>2
      <4>3. CASE v.end <= next
        BY <1>1, <3>3, <4>3 DEF Inv, Batch
      <4> QED
        BY <4>1, <4>2, <4>3
    <3>5. Batch'
      BY <1>1, <1>2, <2>2, <2>4, <3>1, <3>2, <3>4 DEF Batch
    <3>6. Chain'
      <4>1. /\ accepted = << >> => next = state
            /\ accepted # << >> =>
                 /\ accepted[1].start = state
                 /\ accepted[Len(accepted)].end = next
                 /\ \A i \in 2..Len(accepted) : accepted[i].start = accepted[i-1].end
        BY <1>1 DEF Inv, Chain
      <4>2. /\ accepted' # << >>
            /\ accepted'[1].start = state
            /\ accepted'[Len(accepted')].end = u.end
            /\ \A i \in 2..Len(accepted') : accepted'[i].start = accepted'[i-1].end
        BY <1>2, <2>2, <2>4, <3>1, <4>1, AppendChain
      <4> QED
        BY <1>1, <2>4, <4>2 DEF Chain
    <3> QED
      BY <3>5, <3>6
  <2> QED
    BY <2>1, <2>3, <2>4
<1> QED
  BY <1>3, <1>4, <1>5, <1>6 DEF Inv

\* The end of the loop.
LEMMA ScanEndInv ==
    ASSUME Inv, TypeOK', pc = "run", ScanEnd,
           UNCHANGED <<remote, stored, pc, cancelled, fate>>
    PROVE  Inv'
<1>1. /\ phase = "scan" /\ UNCHANGED <<state, gaps, gapTimeout, accepted>>
      /\ \/ phase' = "idle"
         \/ accepted # << >> /\ phase' = "apply" /\ next' = next
  BY DEF ScanEnd
<1>2. Positions' /\ Saving' /\ Answered' /\ NothingOvertaken' /\ CrashLosesNothing'
  BY <1>1 DEF Inv, Positions, Saving, Answered, NothingOvertaken,
              CrashLosesNothing, Covered
<1>3. Timer'
  BY <1>1 DEF Inv, Timer
<1>4. Left'
  BY DEF Inv, Left
<1>5. Batch' /\ Chain'
  <2>1. CASE phase' = "idle"
    BY <2>1, IdleBox
  <2>2. CASE accepted # << >> /\ phase' = "apply" /\ next' = next
    BY <1>1, <2>2 DEF Inv, Batch, Chain
  <2> QED
    BY <1>1, <2>1, <2>2
<1> QED
  BY <1>2, <1>3, <1>4, <1>5 DEF Inv

\* The handler has accepted the batch.
LEMMA ApplyHandledInv ==
    ASSUME Inv, TypeOK', ApplyHandled
    PROVE  Inv'
<1>1. /\ pc = "run" /\ pc' = "save" /\ phase = "apply"
      /\ UNCHANGED <<box, remote, stored, cancelled>>
      /\ Mark(AcceptedSet, "delivered")
  BY DEF ApplyHandled
<1>2. /\ \A u \in Counted : fate[u] # "none" => fate'[u] # "none"
      /\ \A u \in Counted : u \in AcceptedSet => fate'[u] # "none"
  BY <1>1, MarkFate DEF Inv, TypeOK, Fate
<1>3. Positions' /\ NothingOvertaken' /\ CrashLosesNothing'
  BY <1>1, <1>2 DEF Inv, Positions, NothingOvertaken, CrashLosesNothing,
                    Covered, box
<1>4. Batch'
  BY <1>1, <1>2 DEF Inv, Batch, box
<1>5. Chain'
  BY <1>1 DEF Inv, Chain, box
<1>6. Saving'
  BY <1>1, <1>2 DEF Inv, Batch, Saving, Covered, AcceptedSet, box
<1>7. Answered'
  BY <1>1 DEF Answered
<1>8. Timer'
  BY <1>1 DEF Inv, Timer, box
<1>9. Left'
  BY <1>1 DEF Inv, Left
<1> QED
  BY <1>3, <1>4, <1>5, <1>6, <1>7, <1>8, <1>9 DEF Inv

\* The counter moves to the end of the batch, all of which has met its fate.
LEMMA ApplyOkInv ==
    ASSUME Inv, TypeOK', pc \in {"run", "save"}, pc' = "run", ApplyOk,
           UNCHANGED <<remote, cancelled>>,
           stored' = stored \/ (stored' = next /\ ~cancelled),
           \A u \in Counted : fate[u] # "none" => fate'[u] # "none",
           \A u \in Counted : u.end <= next => fate'[u] # "none"
    PROVE  Inv'
<1>1. /\ phase = "apply" /\ phase' = "idle" /\ state' = next
      /\ UNCHANGED <<gaps, gapTimeout>>
  BY DEF ApplyOk
<1>2. next \in Nat /\ Whole(next)
  BY <1>1 DEF Inv, TypeOK, BoxTypeOK, Batch
<1>3. Positions'
  BY <1>1, <1>2 DEF Inv, Positions
<1>4. Batch' /\ Chain'
  BY <1>1, IdleBox
<1>5. Saving' /\ Answered'
  BY DEF Saving, Answered
<1>6. Timer'
  BY <1>1 DEF Inv, Timer
<1>7. Left'
  BY <1>2 DEF Inv, Left
<1>8. NothingOvertaken' /\ CrashLosesNothing'
  BY <1>1 DEF Inv, NothingOvertaken, CrashLosesNothing, Covered
<1> QED
  BY <1>3, <1>4, <1>5, <1>6, <1>7, <1>8 DEF Inv

\* A crash forgets the box, a restart begins at the stored position.
LEMMA CrashRestartInv ==
    ASSUME Inv, TypeOK', Crash \/ Restart
    PROVE  Inv'
<1>1. /\ phase' = "idle" /\ gaps' = {} /\ UNCHANGED <<remote, stored, fate>>
      /\ \/ pc' = "down" /\ state' = 0
         \/ pc' = "diff" /\ state' = stored /\ stored # -1
  BY DEF Crash, Restart, RenewBox
<1>2. Whole(0) /\ \A u \in Counted : ~(u.end <= 0)
  BY UpdateFacts DEF Whole
<1>3. Positions'
  BY <1>1, <1>2 DEF Inv, Positions
<1>4. Batch' /\ Chain'
  BY <1>1, IdleBox
<1>5. Saving' /\ Answered' /\ Timer' /\ Left'
  BY <1>1 DEF Saving, Answered, Timer, Left
<1>6. CrashLosesNothing'
  BY <1>1 DEF Inv, CrashLosesNothing, Covered
<1>7. NothingOvertaken'
  <2>1. CASE state' = 0
    BY <1>2, <2>1 DEF NothingOvertaken, Covered
  <2>2. CASE state' = stored
    BY <1>1, <2>2 DEF Inv, NothingOvertaken, CrashLosesNothing, Covered
  <2> QED
    BY <1>1, <2>1, <2>2
<1> QED
  BY <1>3, <1>4, <1>5, <1>6, <1>7 DEF Inv

-----------------------------------------------------------------------------
(* The theorems                                                               *)

\* Every step keeps the invariant.
LEMMA InvInductive ==
    ASSUME Inv, [Next]_vars
    PROVE  Inv'
<1>1. TypeOK /\ TypeOK'
  BY TypeInductive DEF Inv
<1>2. Whole(remote)
  BY DEF Inv, Positions
<1>3. phase # "idle" => pc \in {"run", "save"}
  BY DEF Inv, Batch
<1>4. CASE UNCHANGED vars
  BY <1>1, <1>2, <1>4, StandStill DEF vars, worker
<1>5. CASE ServerUpdate
  <2>1. Whole(remote')
    BY <1>5, WholeEnd DEF ServerUpdate, Counted
  <2> QED
    BY <1>1, <1>5, <2>1, StandStill DEF ServerUpdate, worker
<1>6. CASE DiffTimeoutExpires
  BY <1>1, <1>2, <1>6, StandStill DEF DiffTimeoutExpires
<1>7. CASE Cancel
  BY <1>1, <1>2, <1>7, StandStill DEF Cancel
<1>8. CASE \E u \in Updates : DrainUpdate(u)
  BY <1>1, <1>2, <1>8, StandStill DEF DrainUpdate, worker
<1>9. CASE IdleTimeout
  BY <1>1, <1>9, MoveOn DEF IdleTimeout, Waiting, box
<1>10. CASE GapTimeout
  BY <1>1, <1>10, MoveOn DEF GapTimeout, Waiting
<1>11. CASE Exit
  BY <1>1, <1>11, MoveOn DEF Exit, Waiting, box
<1>12. CASE \E announced \in {0, remote} : ChannelTooLong(announced)
  BY <1>1, <1>12, MoveOn DEF ChannelTooLong, Waiting, box
<1>13. CASE EnterDifference
  BY <1>1, <1>3, <1>13, MoveOn DEF EnterDifference, ClearGaps
<1>14. CASE DrainEnd
  BY <1>1, <1>3, <1>14, MoveOn DEF DrainEnd, box
<1>15. CASE RequestError
  BY <1>1, <1>3, <1>15, MoveOn DEF RequestError, box
<1>16. CASE StoreBadDialog
  BY <1>1, <1>3, <1>16, MoveOn DEF StoreBadDialog, box
<1>17. CASE Request
  BY <1>1, <1>17, RequestInv
<1>18. CASE RequestPrivate
  BY <1>1, <1>18, RequestPrivateInv
<1>19. CASE SendOthers
  <2>1. phase = "idle" /\ phase' = "idle" /\ pc = "others"
        /\ UNCHANGED <<box, remote, stored, cancelled>>
    BY <1>3, <1>19 DEF SendOthers, box
  <2>2. CASE pc' = "run" /\ UNCHANGED fate
    BY <1>1, <2>1, <2>2, MoveOn DEF box
  <2>3. CASE /\ Mark(Between(state, diff.pts) \ Messages, "passed")
             /\ pc' = "messages" /\ UNCHANGED diff
    BY <1>1, <2>1, <2>3, HandOutInv DEF Fate
  <2> QED
    BY <1>19, <2>2, <2>3 DEF SendOthers
<1>20. CASE HandleMessages
  <2>1. phase = "idle" /\ phase' = "idle" /\ pc = "messages"
        /\ UNCHANGED <<box, remote, stored, cancelled>>
    BY <1>3, <1>20 DEF HandleMessages, box
  <2>2. CASE pc' = "run" /\ UNCHANGED fate
    BY <1>1, <2>1, <2>2, MoveOn DEF box
  <2>3. CASE /\ Mark(Between(state, diff.pts) \cap Messages, "delivered")
             /\ pc' = "store" /\ UNCHANGED diff
    BY <1>1, <2>1, <2>3, HandOutInv DEF Fate
  <2> QED
    BY <1>20, <2>2, <2>3 DEF HandleMessages
<1>21. CASE OnTooLong
  <2>1. phase = "idle" /\ phase' = "idle" /\ pc = "resync" /\ pc' = "run"
        /\ UNCHANGED <<box, remote, stored, cancelled, diff>>
    BY <1>3, <1>21 DEF OnTooLong, box
  <2>2. CASE UNCHANGED fate
    BY <1>1, <2>1, <2>2, MoveOn DEF box
  <2>3. CASE Mark({u \in Counted : fate[u] = "skipped"}, "resynced")
    BY <1>1, <2>1, <2>3, HandOutInv DEF Fate
  <2> QED
    BY <1>21, <2>2, <2>3 DEF OnTooLong
<1>22. CASE StoreDifference
  <2>1. \A u \in Between(state, diff.pts) : fate[u] # "none"
    BY <1>22 DEF StoreDifference, Inv, Answered
  <2> QED
    BY <1>1, <1>22, <2>1, TakeOverInv DEF StoreDifference
<1>23. CASE StoreTooLong
  <2>1. /\ \A u \in Counted : fate[u] # "none" => fate'[u] # "none"
        /\ \A u \in Counted : u \in Between(state, diff.pts) => fate'[u] # "none"
    BY <1>1, <1>23, MarkFate DEF StoreTooLong, TypeOK, Fate
  <2>2. Between(state, diff.pts) \subseteq Counted
    BY DEF Between
  <2> QED
    BY <1>1, <1>23, <2>1, <2>2, TakeOverInv DEF StoreTooLong
<1>24. CASE \E u \in Updates : Arrive(u)
  BY <1>1, <1>24, HandleInv DEF Arrive, Waiting, worker
<1>25. CASE \E u \in Updates : ReturnOther(u)
  BY <1>1, <1>25, HandleInv DEF ReturnOther, Waiting, worker
<1>26. CASE Scan
  BY <1>1, <1>26, ScanNextInv, ScanEndInv DEF Scan, worker
<1>27. CASE ApplyHandled
  BY <1>1, <1>27, ApplyHandledInv
<1>28. CASE ApplyFailed
  <2>1. phase = "apply" /\ pc = "run" /\ pc' = "run"
        /\ UNCHANGED <<remote, stored, cancelled>>
    BY <1>28 DEF ApplyFailed, ApplyOk, worker
  <2>2. /\ \A u \in Counted : fate[u] # "none" => fate'[u] # "none"
        /\ \A u \in Counted : u \in AcceptedSet => fate'[u] # "none"
    BY <1>1, <1>28, MarkFate DEF ApplyFailed, TypeOK, Fate
  <2>3. \A u \in Counted : u.end <= next => fate'[u] # "none"
    BY <2>1, <2>2 DEF Inv, Batch, AcceptedSet
  <2> QED
    BY <1>1, <1>28, <2>1, <2>2, <2>3, ApplyOkInv DEF ApplyFailed
<1>29. CASE SavePts
  <2>1. Covered(next) /\ UNCHANGED fate
    BY <1>29 DEF SavePts, Inv, Saving
  <2>2. stored' = stored \/ (stored' = next /\ ~cancelled)
    BY <1>29 DEF SavePts, SetChannelPts
  <2> QED
    BY <1>1, <1>29, <2>1, <2>2, ApplyOkInv DEF SavePts, Covered
<1>30. CASE Crash \/ Restart
  BY <1>1, <1>30, CrashRestartInv
<1> QED
  BY <1>4, <1>5, <1>6, <1>7, <1>8, <1>9, <1>10, <1>11, <1>12, <1>13, <1>14,
     <1>15, <1>16, <1>17, <1>18, <1>19, <1>20, <1>21, <1>22, <1>23, <1>24,
     <1>25, <1>26, <1>27, <1>28, <1>29, <1>30 DEF Next, Step

\* The invariant holds in every reachable state, whatever applyPts and
\* getDifference do to the box, the storage and the fates of the updates.
THEOREM Invariance == Spec => []Inv
<1>1. Init => Inv
  BY InvInit
<1>2. Inv /\ [Next]_vars => Inv'
  BY InvInductive
<1> QED
  BY <1>1, <1>2, PTL DEF Spec

\* The box never moves past an update that nobody has dealt with, whatever is
\* lost, repeated or reordered on the way and whichever calls fail.
THEOREM OvertakesNothing == Spec => []NothingOvertaken
<1>1. Inv => NothingOvertaken
  BY DEF Inv
<1> QED
  BY <1>1, Invariance, PTL

\* Nor does the persisted pts, so a crash at any point loses no update.
THEOREM CrashSafe == Spec => []CrashLosesNothing
<1>1. Inv => CrashLosesNothing
  BY DEF Inv
<1> QED
  BY <1>1, Invariance, PTL

\* Every batch given to the handler continues the counter without a hole.
THEOREM ContiguousBatches == Spec => []BatchIsContiguous
<1>1. Inv => BatchIsContiguous
  <2> SUFFICES ASSUME Inv, phase = "apply"
               PROVE  /\ accepted # << >>
                      /\ accepted[1].start = state
                      /\ accepted[Len(accepted)].end = next
                      /\ \A i \in 2..Len(accepted) :
                            accepted[i].start = accepted[i-1].end
    BY DEF BatchIsContiguous
  <2> QED
    BY DEF Inv, Chain
<1> QED
  BY <1>1, Invariance, PTL

\* A worker that waits with an open gap has its gap timer running.
THEOREM GapsAreTimed == Spec => []OpenGapHasTimer
<1>1. Inv => OpenGapHasTimer
  BY DEF Inv, Timer, OpenGapHasTimer, Waiting
<1> QED
  BY <1>1, Invariance, PTL

\* A channel that its worker has marked as left stays marked.
THEOREM LeftForGood == Spec => LeftStaysLeft
<1>1. ASSUME Inv, [Next]_vars, stored = -1 PROVE stored' = -1
  <2>1. cancelled \/ pc = "down"
    BY <1>1 DEF Inv, Left
  <2>2. ASSUME NEW p, SetChannelPts(p), pc # "down" PROVE stored' = stored
    BY <2>1, <2>2 DEF SetChannelPts
  <2>3. CASE SavePts
    BY <1>1, <2>2, <2>3 DEF SavePts
  <2>4. CASE RequestPrivate
    BY <1>1, <2>2, <2>4 DEF RequestPrivate
  <2>5. CASE StoreDifference
    BY <1>1, <2>2, <2>5 DEF StoreDifference
  <2>6. CASE StoreTooLong
    BY <1>1, <2>2, <2>6 DEF StoreTooLong
  <2>7. CASE UNCHANGED stored
    BY <1>1, <2>7
  <2>8. \/ SavePts \/ RequestPrivate \/ StoreDifference \/ StoreTooLong
        \/ UNCHANGED stored
    BY <1>1 DEF Next, Step, vars, ServerUpdate, DiffTimeoutExpires, Arrive,
       ReturnOther, DrainUpdate, ChannelTooLong, GapTimeout, IdleTimeout, Exit,
       Scan, ApplyHandled, ApplyFailed, EnterDifference, DrainEnd, Request,
       RequestError, SendOthers, HandleMessages, StoreBadDialog, OnTooLong,
       Cancel, Crash, Restart
  <2> QED
    BY <2>3, <2>4, <2>5, <2>6, <2>7, <2>8
<1>2. Inv /\ [Next]_vars => [stored = -1 => stored' = -1]_vars
  BY <1>1
<1> QED
  BY <1>2, Invariance, PTL DEF Spec, LeftStaysLeft

\* Only the end of the process takes the counter back.
THEOREM Forwards == Spec => NeverBackwards
<1>1. ASSUME Inv, [Next]_vars, state' < state PROVE pc' = "down"
  <2>1. state \in Nat /\ stored \in Nat \cup {-1} /\ next \in Nat
    BY <1>1 DEF Inv, TypeOK, BoxTypeOK
  <2>2. ASSUME ApplyOk PROVE FALSE
    BY <1>1, <2>1, <2>2 DEF ApplyOk, Inv, Batch
  <2>3. ASSUME StoreDifference \/ StoreTooLong PROVE FALSE
    <3>1. state' = diff.pts /\ state <= diff.pts /\ diff.pts \in Nat
      BY <1>1, <2>3 DEF StoreDifference, StoreTooLong, SetState, Inv, Answered,
                        TypeOK, Diff
    <3> QED
      BY <1>1, <2>1, <3>1
  <2>4. ASSUME Restart PROVE FALSE
    BY <1>1, <2>1, <2>4 DEF Restart, RenewBox, Inv, Positions
  <2>5. ASSUME UNCHANGED state PROVE FALSE
    BY <1>1, <2>1, <2>5
  <2>6. ASSUME NEW u \in Updates, Handle(u) PROVE UNCHANGED state
    BY <2>6 DEF Handle, HandleIgnore, HandleInGap, HandleApply, HandleRefetch
  <2>7. \/ ApplyOk \/ StoreDifference \/ StoreTooLong \/ Restart \/ Crash
        \/ UNCHANGED state
    BY <1>1, <2>6 DEF Next, Step, vars, box, ServerUpdate, DiffTimeoutExpires,
       Arrive, ReturnOther, DrainUpdate, ChannelTooLong, GapTimeout,
       IdleTimeout, Exit, Scan, ScanNext, ScanEnd, ApplyHandled, ApplyFailed,
       SavePts, EnterDifference, DrainEnd, Request, RequestError,
       RequestPrivate, SendOthers, HandleMessages, StoreBadDialog, OnTooLong,
       Cancel
  <2> QED
    BY <2>2, <2>3, <2>4, <2>5, <2>7 DEF Crash
<1>2. Inv /\ [Next]_vars => [state' < state => pc' = "down"]_vars
  BY <1>1
<1> QED
  BY <1>2, Invariance, PTL DEF Spec, NeverBackwards

-----------------------------------------------------------------------------
(* The worker implements SequenceReader                                       *)

\* What has been dealt with stays so.
LEMMA FatesStay ==
    ASSUME TypeOK, [Next]_vars
    PROVE  \A u \in Counted : fate[u] # "none" => fate'[u] # "none"
<1>1. ASSUME NEW U, NEW f \in Fate \ {"none"}, Mark(U, f)
      PROVE  \A u \in Counted : fate[u] # "none" => fate'[u] # "none"
  BY <1>1 DEF Mark
<1>2. CASE ApplyHandled \/ ApplyFailed \/ SendOthers \/ HandleMessages \/ StoreTooLong
           \/ OnTooLong
  <2>1. \/ UNCHANGED fate
        \/ Mark(AcceptedSet, "delivered") \/ Mark(AcceptedSet, "failed")
        \/ Mark(Between(state, diff.pts) \ Messages, "passed")
        \/ Mark(Between(state, diff.pts) \cap Messages, "delivered")
        \/ Mark(Between(state, diff.pts), "skipped")
        \/ Mark({u \in Counted : fate[u] = "skipped"}, "resynced")
    BY <1>2 DEF ApplyHandled, ApplyFailed, SendOthers, HandleMessages, StoreTooLong, OnTooLong
  <2> QED
    BY <1>1, <2>1 DEF Fate
<1>3. CASE UNCHANGED fate
  BY <1>3
<1> QED
  BY <1>2, <1>3
  DEF Next, Step, vars, ServerUpdate, DiffTimeoutExpires, Arrive, ReturnOther,
      DrainUpdate, ChannelTooLong, GapTimeout, IdleTimeout, Exit, Scan, SavePts,
      EnterDifference, DrainEnd, Request, RequestError, RequestPrivate,
      StoreDifference, StoreBadDialog, Cancel, Crash, Restart

\* A step moves the counter, leaves, goes down or up, or does none of it.
LEMMA ReaderSteps ==
    ASSUME TypeOK, [Next]_vars
    PROVE  \/ SavePts \/ ApplyFailed \/ StoreDifference \/ StoreTooLong
           \/ RequestPrivate \/ Crash \/ Restart
           \/ UNCHANGED <<state, stored>> /\ (pc = "down" <=> pc' = "down")
<1>1. ASSUME NEW u \in Updates, Handle(u) PROVE UNCHANGED state
  BY <1>1 DEF Handle, HandleIgnore, HandleInGap, HandleApply, HandleRefetch
<1>2. ASSUME NEW u \in Updates, Arrive(u) \/ ReturnOther(u) \/ DrainUpdate(u)
      PROVE  UNCHANGED <<state, stored, pc>>
  BY <1>1, <1>2 DEF Arrive, ReturnOther, DrainUpdate, worker, box
<1>3. CASE ServerUpdate \/ DiffTimeoutExpires \/ Scan \/ Cancel \/ UNCHANGED vars
  BY <1>3
  DEF ServerUpdate, DiffTimeoutExpires, Scan, ScanNext, ScanEnd, Cancel, vars, worker, box
<1>4. CASE \/ \E announced \in {0, remote} : ChannelTooLong(announced)
           \/ GapTimeout \/ IdleTimeout \/ Exit
  BY <1>4 DEF ChannelTooLong, GapTimeout, IdleTimeout, Exit, Waiting, box
<1>5. CASE \/ ApplyHandled \/ EnterDifference \/ DrainEnd \/ RequestError \/ StoreBadDialog
           \/ OnTooLong \/ SendOthers \/ HandleMessages
  BY <1>5
  DEF ApplyHandled, EnterDifference, DrainEnd, RequestError, StoreBadDialog, OnTooLong,
      SendOthers, HandleMessages, box
<1>6. CASE Request
  BY <1>6 DEF Request, Answer, box
<1> QED
  BY <1>2, <1>3, <1>4, <1>5, <1>6 DEF Next, Step

\* Each step of the worker is a step of the reader, or nothing to it.
LEMMA ReaderStep ==
    ASSUME Inv, Inv', [Next]_vars
    PROVE  [Reader!Next]_(Reader!reader)
<1> DEFINE position == IF pc = "down" THEN stored ELSE state
<1> DEFINE settled == {u \in Counted : fate[u] # "none"}
<1>1. TypeOK /\ TypeOK' /\ state \in Nat /\ state' \in Nat
  BY DEF Inv, TypeOK, BoxTypeOK
<1>2. settled \subseteq settled' /\ settled' \subseteq Counted
  BY <1>1, FatesStay
<1>3. ASSUME pc # "down", pc' # "down", state' >= state,
             stored' = stored \/ (~cancelled /\ stored' = state')
      PROVE  Reader!Advance
  <2>1. position = state /\ position' = state' /\ state # -1
    BY <1>1, <1>3
  <2>2. stored' = stored \/ (stored # -1 /\ stored' = position')
    BY <1>3, <2>1 DEF Inv, Left
  <2>3. \A u \in Counted : u.end <= position' => u \in settled'
    BY <2>1 DEF Inv, NothingOvertaken, Covered
  <2> HIDE DEF settled
  <2> QED
    BY <1>2, <1>3, <2>1, <2>2, <2>3 DEF Reader!Advance, Reader!Move, Reader!Grow, Reader!Left, settled
<1>4. CASE SavePts \/ ApplyFailed
  <2>1. /\ pc \in {"save", "run"} /\ pc' = "run" /\ ApplyOk
        /\ stored' = stored \/ (~cancelled /\ stored' = next)
    BY <1>4 DEF SavePts, ApplyFailed, SetChannelPts, worker
  <2>2. state' = next /\ state <= next
    BY <2>1 DEF ApplyOk, Inv, Batch
  <2> QED
    BY <1>1, <1>3, <2>1, <2>2 DEF Reader!Next
<1>5. CASE StoreDifference \/ StoreTooLong
  <2>1. /\ pc = "store" /\ pc' \in {"run", "diff", "resync"} /\ state' = diff.pts
        /\ stored' = stored \/ (~cancelled /\ stored' = diff.pts)
        /\ diff.kind # "badDialog"
    BY <1>5 DEF StoreDifference, StoreTooLong, SetState, SetChannelPts
  <2>2. state <= diff.pts
    BY <2>1 DEF Inv, Answered
  <2> QED
    BY <1>1, <1>3, <2>1, <2>2 DEF Reader!Next
<1>6. CASE RequestPrivate
  <2>1. /\ pc = "request" /\ pc' = "run" /\ UNCHANGED <<state, fate>>
        /\ stored' \in {stored, -1}
    BY <1>6 DEF RequestPrivate, SetChannelPts, box
  <2> QED
    BY <2>1 DEF Reader!Next, Reader!Leave, Reader!Left, Reader!reader
<1>7. CASE Crash
  BY <1>7 DEF Crash, Reader!Next, Reader!Resume
<1>8. CASE Restart
  <2>1. pc = "down" /\ pc' = "diff" /\ state' = stored /\ UNCHANGED <<stored, fate>>
    BY <1>8 DEF Restart, RenewBox
  <2> QED
    BY <2>1 DEF Reader!reader
<1>9. CASE UNCHANGED <<state, stored>> /\ (pc = "down" <=> pc' = "down")
  BY <1>2, <1>9 DEF Reader!Next, Reader!Settle, Reader!Grow
<1> QED
  BY <1>1, <1>4, <1>5, <1>6, <1>7, <1>8, <1>9, ReaderSteps

\* The worker implements SequenceReader, for every numbering of the updates and all
\* failures: sequenceBox, gapBuffer and getDifference together keep the promise
\* that a channel is read without a hole and that its storage is a place to go on.
THEOREM ImplementsReader == Spec => ReadsWithoutHoles
<1>1. Init => Reader!Init
  BY DEF Init, NewBox, Reader!Init
<1>2. Inv /\ Inv' /\ [Next]_vars => [Reader!Next]_(Reader!reader)
  BY ReaderStep
<1> QED
  BY <1>1, <1>2, Invariance, PTL DEF Spec, ReadsWithoutHoles, Reader!Spec

-----------------------------------------------------------------------------
(* The gaps                                                                   *)

\* A held update continues the counter.
Starts == \E u \in Held : u.start = state

\* Gaps are open only while no call of Handle and no answer is being processed,
\* and cut no update in two.  What follows the counter is missing or held: so a gap
\* that is filled leaves something to apply.
GapsOK ==
    /\ gaps # {} => /\ phase = "idle" /\ pc \in {"run", "diff", "resync", "stopped"}
                    /\ Starts \/ \E g \in gaps : g.from = state
    /\ \A g \in gaps : Whole(g.from) /\ Whole(g.to)
    /\ GapsAreMissing
    /\ phase = "scan" /\ accepted = << >> => Starts

LEMMA MinFacts ==
    ASSUME NEW S \in SUBSET Nat, S # {}
    PROVE  \E x \in S : \A y \in S : x <= y
<1> DEFINE R == OpToRel(<, Nat)
<1>1. \A x, y \in Nat : <<x, y>> \in R <=> x < y
  BY DEF OpToRel
<1>2. IsWellFoundedOn(R, Nat)
  BY NatLessThanWellFounded
<1> HIDE DEF R
<1>3. PICK x \in S : \A y \in S : ~(<<y, x>> \in R)
  BY <1>2, WFMin
<1>4. ASSUME NEW y \in S PROVE x <= y
  <2>1. x \in Nat /\ y \in Nat /\ ~(y < x)
    BY <1>1, <1>3
  <2> QED
    BY <2>1
<1> QED
  BY <1>4

\* An update starts where no other update is cut.
LEMMA WholeStart ==
    ASSUME NEW u \in Updates
    PROVE  Whole(u.start)
<1>1. ASSUME NEW v \in Updates PROVE u.start <= v.start \/ v.end <= u.start
  <2>1. u = v \/ u.end <= v.start \/ v.end <= u.start
    BY ChannelConstants DEF Apart
  <2> QED
    BY <2>1, UpdateFacts
<1> QED
  BY <1>1 DEF Whole

LEMMA HoldHeld ==
    ASSUME BoxTypeOK, NEW u \in Updates, pending' = Hold(pending, u)
    PROVE  Held' = Held \cup {u}
BY DEF BoxTypeOK, Hold, Held

\* What is outdated starts below the counter.
LEMMA TrimHeld ==
    ASSUME BoxTypeOK, pending' = TrimStale(state, pending)
    PROVE  Held' \subseteq Held /\ \A u \in Held : state <= u.start => u \in Held'
<1>1. state \in Nat /\ pending \in [Updates -> Nat]
  BY DEF BoxTypeOK
<1>2. \A u \in Updates : state <= u.start => CheckGap(state, u) # "ignore"
  BY <1>1, UpdateFacts DEF CheckGap, Count
<1>3. \A u \in Updates : pending'[u] = IF CheckGap(state, u) = "ignore" THEN 0 ELSE pending[u]
  BY DEF TrimStale
<1> HIDE DEF CheckGap
<1> QED
  BY <1>1, <1>2, <1>3 DEF Held

LEMMA GapsStay ==
    ASSUME GapsOK, UNCHANGED <<state, gaps, pending, phase, accepted>>,
           gaps # {} => pc' \in {"run", "diff", "resync", "stopped"}
    PROVE  GapsOK'
BY DEF GapsOK, GapsAreMissing, Starts, Held, Whole

LEMMA NoGaps ==
    ASSUME gaps' = {}, phase' # "scan"
    PROVE  GapsOK'
BY DEF GapsOK, GapsAreMissing

\* An update that comes while gaps are open cuts the one that it is inside of.
LEMMA ConsumeGaps ==
    ASSUME TypeOK, GapsOK, gaps # {}, NEW u \in Updates, CheckGap(state, u) # "ignore",
           NEW h \in Consume(gaps, u)
    PROVE  /\ Whole(h.from) /\ Whole(h.to) /\ state <= h.from /\ h.from < h.to
           /\ \A v \in (Held \cup {u}) \cap Counted : v.end <= h.from \/ h.to <= v.start
<1>1. PICK g \in gaps : h \in Cut(g, u)
  BY DEF Consume
<1>2. /\ state \in Nat /\ g.from \in Int /\ g.to \in Int
      /\ state <= g.from /\ g.from < g.to /\ Whole(g.from) /\ Whole(g.to)
      /\ \A v \in Held \cap Counted : v.end <= g.from \/ g.to <= v.start
  BY DEF TypeOK, BoxTypeOK, Gap, GapsOK, GapsAreMissing
<1>3. \A v \in Updates : v.start \in Nat /\ v.end \in Nat /\ v.start <= v.end
  BY UpdateFacts
<1>4. CASE ~Inside(u, g)
  <2>1. h = g
    BY <1>1, <1>4 DEF Cut
  <2>2. u.end <= g.from \/ g.to <= u.start
    BY <1>2, <1>3, <1>4 DEF Inside, Whole
  <2> QED
    BY <1>2, <2>1, <2>2
<1>5. CASE Inside(u, g)
  <2>1. h.from < h.to /\ (\/ h = [from |-> g.from, to |-> u.start]
                          \/ h = [from |-> u.end, to |-> g.to])
    BY <1>1, <1>5 DEF Cut
  <2>2. g.from <= u.start /\ u.end <= g.to
    BY <1>5 DEF Inside
  <2>3. g.from <= h.from /\ h.to <= g.to /\ h.from \in Int /\ h.to \in Int
    BY <1>2, <1>3, <2>1, <2>2
  <2>4. Whole(h.from) /\ Whole(h.to)
    BY <1>2, <2>1, WholeStart, WholeEnd
  <2>5. ASSUME NEW v \in (Held \cup {u}) \cap Counted
        PROVE  v.end <= h.from \/ h.to <= v.start
    <3>1. CASE v = u
      BY <1>3, <2>1, <3>1
    <3>2. CASE v \in Held
      BY <1>2, <1>3, <2>3, <2>5, <3>2 DEF Held
    <3> QED
      BY <2>5, <3>1, <3>2
  <2> QED
    BY <1>2, <2>1, <2>3, <2>4, <2>5
<1> QED
  BY <1>4, <1>5

\* Something still follows the counter, in a gap or held.
LEMMA ConsumeStarts ==
    ASSUME TypeOK, GapsOK, NEW u \in Updates, CheckGap(state, u) # "ignore", gaps # {}
    PROVE  \/ \E v \in Held \cup {u} : v.start = state
           \/ \E h \in Consume(gaps, u) : h.from = state
<1>1. CASE Starts
  BY <1>1 DEF Starts
<1>2. CASE \E g \in gaps : g.from = state
  <2>1. PICK g \in gaps : g.from = state
    BY <1>2
  <2>2. Cut(g, u) \subseteq Consume(gaps, u)
    BY <2>1 DEF Consume
  <2>3. CASE ~Inside(u, g)
    BY <2>1, <2>2, <2>3 DEF Cut
  <2>4. CASE Inside(u, g)
    <3>1. state <= u.start /\ state \in Nat /\ u.start \in Nat
      BY <2>1, <2>4, UpdateFacts DEF Inside, TypeOK, BoxTypeOK
    <3>2. CASE u.start = state
      BY <3>2
    <3>3. CASE state < u.start
      <4> DEFINE h == [from |-> state, to |-> u.start]
      <4>1. h \in Cut(g, u) /\ h.from = state
        BY <2>1, <2>4, <3>3 DEF Cut
      <4> QED
        BY <2>2, <4>1
    <3> QED
      BY <3>1, <3>2, <3>3
  <2> QED
    BY <2>3, <2>4
<1> QED
  BY <1>1, <1>2 DEF GapsOK

\* An update from the future opens gaps that lack what is not held.
LEMMA RefetchGaps ==
    ASSUME TypeOK, Whole(state), NEW u \in Updates, CheckGap(state, u) = "refetch",
           NEW h \in ConsumeAll([from |-> state, to |-> u.start], Held \cup {u})
    PROVE  /\ Whole(h.from) /\ Whole(h.to) /\ state <= h.from /\ h.from < h.to
           /\ \A v \in (Held \cup {u}) \cap Counted : v.end <= h.from \/ h.to <= v.start
<1> DEFINE g == [from |-> state, to |-> u.start]
<1> DEFINE V == {v \in Held \cup {u} : Inside(v, g)}
<1>1. /\ state \in Nat /\ Held \subseteq Updates
      /\ \A v \in Updates : v.start \in Nat /\ v.end \in Nat /\ v.start <= v.end
  BY UpdateFacts DEF TypeOK, BoxTypeOK, Held
<1>2. \A v \in V : v \in Updates /\ state <= v.start /\ v.end <= u.start
  BY <1>1 DEF Inside
<1>3. /\ h.from \in {state} \cup {v.end : v \in V}
      /\ h.to \in {u.start} \cup {v.start : v \in V}
      /\ h.from < h.to
      /\ \A v \in V : v.end <= h.from \/ h.to <= v.start
  BY DEF ConsumeAll
<1>4. ASSUME NEW v \in Held \cup {u} PROVE v \in V \/ v.end <= state \/ u.start <= v.start
  <2>1. Whole(u.start)
    BY WholeStart
  <2> QED
    BY <1>1, <2>1 DEF Whole, Inside
<1>5. h.from \in Nat /\ state <= h.from /\ Whole(h.from)
  <2> HIDE DEF V
  <2> QED
    BY <1>1, <1>2, <1>3, WholeEnd
<1>6. h.to \in Nat /\ h.to <= u.start /\ Whole(h.to)
  <2> HIDE DEF V
  <2> QED
    BY <1>1, <1>2, <1>3, WholeStart
<1> HIDE DEF V
<1> QED
  BY <1>1, <1>3, <1>4, <1>5, <1>6

LEMMA RefetchStarts ==
    ASSUME TypeOK, NEW u \in Updates, CheckGap(state, u) = "refetch"
    PROVE  \/ \E v \in Held \cup {u} : v.start = state
           \/ \E h \in ConsumeAll([from |-> state, to |-> u.start], Held \cup {u}) :
                 h.from = state
<1> DEFINE g == [from |-> state, to |-> u.start]
<1> DEFINE V == {v \in Held \cup {u} : Inside(v, g)}
<1> DEFINE To == {u.start} \cup {v.start : v \in V}
<1> SUFFICES ASSUME \A v \in Held \cup {u} : v.start # state
             PROVE  \E h \in ConsumeAll(g, Held \cup {u}) : h.from = state
  OBVIOUS
<1>1. /\ state \in Nat /\ Held \subseteq Updates
      /\ \A v \in Updates : v.start \in Nat /\ v.end \in Nat /\ v.start <= v.end
  BY UpdateFacts DEF TypeOK, BoxTypeOK, Held
<1>2. state < u.start
  BY <1>1 DEF CheckGap, Count
<1>3. \A v \in V : v \in Updates /\ state < v.start
  <2> SUFFICES ASSUME NEW v \in Held \cup {u}, Inside(v, g)
               PROVE  v \in Updates /\ state < v.start
    OBVIOUS
  <2>1. v \in Updates /\ state <= v.start /\ v.start # state /\ v.start \in Nat
    BY <1>1 DEF Inside
  <2> QED
    BY <1>1, <2>1
<1>4. To \in SUBSET Nat /\ To # {}
  <2> HIDE DEF V
  <2> QED
    BY <1>1, <1>3
<1>5. PICK t \in To : \A x \in To : t <= x
  BY <1>4, MinFacts
<1>6. state < t /\ \A v \in V : t <= v.start
  <2> HIDE DEF V
  <2> QED
    BY <1>2, <1>3, <1>5
<1> DEFINE h == [from |-> state, to |-> t]
<1>7. h \in [from : {g.from} \cup {v.end : v \in V}, to : {g.to} \cup {v.start : v \in V}]
  <2> HIDE DEF V
  <2> QED
    BY <1>5
<1>8. h \in ConsumeAll(g, Held \cup {u})
  BY <1>6, <1>7 DEF ConsumeAll
<1> QED
  BY <1>8

LEMMA HandleGaps ==
    ASSUME Inv, GapsOK, pc = "run", NEW u \in Updates, Handle(u), UNCHANGED pc
    PROVE  GapsOK'
<1>1. TypeOK /\ BoxTypeOK /\ Whole(state) /\ phase = "idle"
  BY DEF Inv, TypeOK, Positions, Handle
<1>2. CASE HandleIgnore(u)
  <2>1. UNCHANGED <<state, gaps, phase>> /\ pending' = TrimStale(state, pending)
    BY <1>2 DEF HandleIgnore, NoApply
  <2>2. Held' \subseteq Held /\ \A v \in Held : state <= v.start => v \in Held'
    BY <1>1, <2>1, TrimHeld
  <2>3. Starts => Starts'
    <3>1. state <= state
      BY <1>1 DEF BoxTypeOK
    <3> QED
      BY <2>1, <2>2, <3>1 DEF Starts
  <2>4. GapsAreMissing'
    BY <2>1, <2>2 DEF GapsOK, GapsAreMissing
  <2> QED
    BY <1>1, <2>1, <2>3, <2>4 DEF GapsOK, Whole
<1>3. CASE HandleInGap(u)
  <2>1. /\ CheckGap(state, u) # "ignore" /\ gaps # {} /\ gaps' = Consume(gaps, u)
        /\ state' = state /\ Held' = Held \cup {u}
        /\ gaps' # {} => phase' = "idle"
        /\ phase' \in {"idle", "scan"} /\ (phase' = "scan" => gaps' = {})
    BY <1>1, <1>3, HoldHeld DEF HandleInGap, NoApply, BeginApplyPending
  <2>2. \A h \in gaps' :
           /\ Whole(h.from) /\ Whole(h.to) /\ state <= h.from /\ h.from < h.to
           /\ \A v \in (Held \cup {u}) \cap Counted : v.end <= h.from \/ h.to <= v.start
    BY <1>1, <2>1, ConsumeGaps
  <2>3. Starts' \/ \E h \in gaps' : h.from = state
    BY <1>1, <2>1, ConsumeStarts DEF Starts
  <2> QED
    BY <2>1, <2>2, <2>3 DEF GapsOK, GapsAreMissing, Whole
<1>4. CASE HandleApply(u)
  <2>1. gaps' = {} /\ state' = state
    BY <1>4 DEF HandleApply
  <2>2. phase' = "scan" => Held' = Held \cup {u}
    BY <1>1, <1>4, HoldHeld DEF HandleApply, BeginApplyPending
  <2>3. u.start = state
    BY <1>1, <1>4, ApplyStart DEF HandleApply, BoxTypeOK
  <2> QED
    BY <2>1, <2>2, <2>3 DEF GapsOK, GapsAreMissing, Starts
<1>5. CASE HandleRefetch(u)
  <2> DEFINE all == ConsumeAll([from |-> state, to |-> u.start], Held \cup {u})
  <2>1. /\ CheckGap(state, u) = "refetch" /\ gaps' = all
        /\ state' = state /\ Held' = Held \cup {u}
        /\ gaps' # {} => phase' = "idle"
        /\ phase' \in {"idle", "scan"} /\ (phase' = "scan" => gaps' = {})
    BY <1>1, <1>5, HoldHeld DEF HandleRefetch, NoApply, BeginApplyPending
  <2>2. \A h \in all :
           /\ Whole(h.from) /\ Whole(h.to) /\ state <= h.from /\ h.from < h.to
           /\ \A v \in (Held \cup {u}) \cap Counted : v.end <= h.from \/ h.to <= v.start
    BY <1>1, <2>1, RefetchGaps
  <2>3. Starts' \/ \E h \in all : h.from = state
    BY <1>1, <2>1, RefetchStarts DEF Starts
  <2> HIDE DEF all
  <2> QED
    BY <2>1, <2>2, <2>3 DEF GapsOK, GapsAreMissing, Whole
<1> QED
  BY <1>2, <1>3, <1>4, <1>5 DEF Handle

\* One turn of the loop drops an update that is held, or accepts it.
LEMMA ScanGaps ==
    ASSUME Inv, GapsOK, Scan
    PROVE  GapsOK'
<1>1. phase = "scan" /\ gaps = {} /\ gaps' = {} /\ state' = state
  BY DEF Scan, ScanNext, ScanEnd, GapsOK
<1>2. CASE ScanEnd
  <2>1. phase' # "scan"
    BY <1>2 DEF ScanEnd
  <2> QED
    BY <1>1, <2>1, NoGaps
<1>3. CASE ScanNext
  <2>1. PICK u \in Earliest :
          /\ pending' = Drop(pending, u)
          /\ \/ accepted' = Append(accepted, u)
             \/ CheckGap(next, u) = "ignore" /\ UNCHANGED accepted
    BY <1>3 DEF ScanNext
  <2>2. /\ u \in Updates /\ state \in Nat /\ pending \in [Updates -> Nat]
        /\ accepted \in Seq(Updates)
    BY DEF Earliest, Held, Inv, TypeOK, BoxTypeOK
  <2>3. \A v \in Held : v # u => v \in Held'
    BY <2>1, <2>2 DEF Held, Drop
  <2>4. SUFFICES ASSUME accepted' = << >> PROVE Starts'
    BY <1>1 DEF GapsOK, GapsAreMissing
  <2>5. accepted = << >> /\ CheckGap(next, u) = "ignore"
    <3>1. Append(accepted, u) # << >>
      BY <2>2
    <3> QED
      BY <2>1, <2>4, <3>1
  <2>6. next = state
    BY <1>1, <2>5 DEF Inv, Chain
  <2>7. u.start # state
    BY <2>2, <2>5, <2>6, UpdateFacts DEF CheckGap, Count
  <2> QED
    BY <1>1, <2>3, <2>5, <2>7 DEF GapsOK, Starts
<1> QED
  BY <1>2, <1>3 DEF Scan

LEMMA GapsInductive ==
    ASSUME Inv, GapsOK, [Next]_vars
    PROVE  GapsOK'
<1>1. /\ phase # "idle" => pc \in {"run", "save"}
      /\ gaps # {} => phase = "idle" /\ pc \in {"run", "diff", "resync", "stopped"}
  BY DEF Inv, Batch, GapsOK
<1>2. CASE UNCHANGED vars
  BY <1>1, <1>2, GapsStay DEF vars, box, worker
<1>3. CASE ServerUpdate \/ DiffTimeoutExpires \/ Cancel \/ \E u \in Updates : DrainUpdate(u)
  BY <1>1, <1>3, GapsStay
  DEF ServerUpdate, DiffTimeoutExpires, Cancel, DrainUpdate, box, worker
<1>4. CASE IdleTimeout \/ GapTimeout \/ Exit \/ \E a \in {0, remote} : ChannelTooLong(a)
  BY <1>1, <1>4, GapsStay DEF IdleTimeout, GapTimeout, Exit, ChannelTooLong, box
<1>5. CASE DrainEnd \/ Request \/ RequestError \/ RequestPrivate \/ SendOthers
           \/ HandleMessages \/ StoreBadDialog
  BY <1>1, <1>5, GapsStay DEF DrainEnd, Request, RequestError, RequestPrivate, SendOthers,
                              HandleMessages, StoreBadDialog, box
<1>6. CASE OnTooLong \/ ApplyHandled
  BY <1>1, <1>6, GapsStay DEF OnTooLong, ApplyHandled, box
<1>7. CASE EnterDifference
  BY <1>1, <1>7, NoGaps DEF EnterDifference, ClearGaps
<1>8. CASE StoreDifference \/ StoreTooLong
  BY <1>1, <1>8, NoGaps DEF StoreDifference, StoreTooLong
<1>9. CASE ApplyFailed \/ SavePts
  BY <1>1, <1>9, NoGaps DEF ApplyFailed, SavePts, ApplyOk
<1>10. CASE Scan
  BY <1>10, ScanGaps
<1>11. CASE Crash \/ Restart
  BY <1>11, NoGaps DEF Crash, Restart, RenewBox
<1>12. CASE \E u \in Updates : Arrive(u) \/ ReturnOther(u)
  BY <1>12, HandleGaps DEF Arrive, ReturnOther, Waiting, worker
<1> QED
  BY <1>2, <1>3, <1>4, <1>5, <1>6, <1>7, <1>8, <1>9, <1>10, <1>11, <1>12 DEF Next, Step

LEMMA GapsHold == Spec => []GapsOK
<1>1. Init => GapsOK
  BY NoGaps DEF Init, NewBox, GapsOK, GapsAreMissing
<1>2. Inv /\ GapsOK /\ [Next]_vars => GapsOK'
  BY GapsInductive
<1> QED
  BY <1>1, <1>2, Invariance, PTL DEF Spec

\* A gap of the box lies above the counter and holds nothing that has arrived:
\* gapBuffer.Consume, called for each update that is held back, cuts out exactly
\* what is there, so the worker waits for the timer only if something is missing.
THEOREM GapsLackTheirUpdates == Spec => []GapsAreMissing
<1>1. GapsOK => GapsAreMissing
  BY DEF GapsOK
<1> QED
  BY <1>1, GapsHold, PTL

\* When the last gap is filled applyPending has something to apply: its warning
\* "Empty buffer" is never logged by the worker of a channel.
THEOREM FilledGapsApply == Spec => FilledGapApplies
<1>1. ASSUME Inv, GapsOK, [Next]_vars, phase = "scan", phase' = "idle", pc' = "run",
             accepted = << >>
      PROVE  FALSE
  <2>1. pc = "run"
    BY <1>1 DEF Inv, Batch, Saving
  <2>2. ScanEnd
    BY <1>1, <2>1 DEF Next, Step, vars, box, worker, ServerUpdate, DiffTimeoutExpires,
       Arrive, ReturnOther, Waiting, DrainUpdate, ChannelTooLong, GapTimeout, IdleTimeout,
       Exit, Scan, ScanNext, ApplyHandled, ApplyFailed, ApplyOk, SavePts, EnterDifference,
       DrainEnd, Request, RequestError, RequestPrivate, SendOthers, HandleMessages,
       StoreDifference, StoreTooLong, StoreBadDialog, OnTooLong, Cancel, Crash, Restart
  <2>3. next = state /\ state \in Nat
    BY <1>1 DEF Inv, Chain, TypeOK, BoxTypeOK
  <2>4. PICK u \in Held : u.start = state
    BY <1>1 DEF GapsOK, Starts
  <2> DEFINE S == {v.start : v \in Held}
  <2>5. \A v \in Held : v \in Updates /\ v.start \in Nat
    BY UpdateFacts DEF Held
  <2>6. S \in SUBSET Nat /\ S # {}
    BY <2>4, <2>5
  <2>7. PICK x \in S : \A y \in S : x <= y
    BY <2>6, MinFacts
  <2>8. PICK v \in Held : x = v.start
    BY <2>7
  <2>9. v \in Earliest /\ v.start <= state
    BY <2>4, <2>7, <2>8 DEF Earliest
  <2>10. CheckGap(next, v) = "refetch"
    BY <2>2, <2>9 DEF ScanEnd
  <2> QED
    BY <2>3, <2>5, <2>9, <2>10, UpdateFacts DEF CheckGap, Count
<1>2. Inv /\ GapsOK /\ [Next]_vars =>
        [phase = "scan" /\ phase' = "idle" /\ pc' = "run" => accepted # << >>]_vars
  BY <1>1
<1> QED
  BY <1>2, Invariance, GapsHold, PTL DEF Spec, FilledGapApplies

=============================================================================
