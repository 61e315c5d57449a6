--------------------------- MODULE InternalState ---------------------------
(* The worker of the account: state.go and state_apply.go of                  *)
(* gotd/telegram/updates, on top of three sequence boxes (pts, qts, seq).     *)
(*                                                                            *)
(* The server sends containers.  A container may be numbered (seq) and holds  *)
(* updates, some of which are numbered again (pts or qts).  Containers are    *)
(* read by a goroutine each, so they reach the worker in any order, twice or  *)
(* never; updates.getDifference fetches what is missing.                      *)
(*                                                                            *)
(* The worker is one goroutine, but its calls nest: seq.Handle calls applySeq,*)
(* which calls applyCombined, which calls pts.Handle and, for what            *)
(* getDifference returns, is called by getDifference again.  "stack" holds    *)
(* the running calls, innermost first:                                        *)
(*   applySeq   stage loop, recovered                                         *)
(*   combined   stage loop, save (in applyPts or applyQts), date              *)
(*   diff       stage request, others, messages, store                        *)
(* Updates of channels leave this worker through Push (see ChannelState).     *)
EXTENDS Integers, Sequences, FiniteSetsExt

CONSTANTS
    Sent,         \* the containers the server will send, in order
    MaxArrivals,  \* bound: containers that reach the worker
    MaxFailures,  \* bound: failures in all
    Faults        \* the failures this instance may meet

AllFaults == {"handler", "storage", "fatal", "crash"}

Containers == 1..Len(Sent)

\* kind: message and edit are numbered by pts, secret (an encrypted message) and
\* vote by qts, plain not at all; changed is updatePtsChanged.  The other two are
\* the range of the number.
Items == UNION {Sent[i].items : i \in Containers}

Span(item) == [start |-> item.start, end |-> item.end]

PtsItems == {item \in Items : item.kind \in {"message", "edit"}}
QtsItems == {item \in Items : item.kind \in {"secret", "vote"}}
Numbered == PtsItems \cup QtsItems

\* handleSeq: a container covers the numbers from seqStart to seq.
SeqRange(i) == [start |-> Sent[i].seqStart - 1, end |-> Sent[i].seq]

PtsRanges == {Span(item) : item \in PtsItems}
QtsRanges == {Span(item) : item \in QtsItems}
SeqRanges == {SeqRange(i) : i \in {j \in Containers : Sent[j].seq > 0}}

\* The server may send a qts of 0 ("qts updates gaps"): such an update has no
\* place among the others, and the box applies it wherever it stands.
Placed == {item \in Numbered : item.end > 0}

\* The updates that move their counter forward.
Counted == {item \in Placed : item.start < item.end}

\* The server's numbering (external): pts is never 0, two updates with a place
\* never overlap, those of a later container come later, and seq grows.
Apart(x, y) == x.end <= y.start \/ y.end <= x.start

NumberedInOrder(numbered) ==
    /\ \A x, y \in numbered : x = y \/ Apart(x, y)
    /\ \A i, j \in Containers : i < j =>
          \A x \in Sent[i].items \cap numbered, y \in Sent[j].items \cap numbered :
              x = y \/ x.end <= y.start

ASSUME InternalConstants ==
    /\ Faults \subseteq AllFaults
    /\ MaxArrivals \in Nat
    /\ MaxFailures \in Nat
    /\ Len(Sent) \in Nat
    /\ \A i \in Containers :
          Sent[i].seqStart \in Nat /\ Sent[i].seq \in Nat /\ Sent[i].date \in Nat
    /\ IsFiniteSet(Items)
    /\ Items \subseteq [kind : {"message", "edit", "secret", "vote", "plain", "changed"},
                        start : Int, end : Nat]

ASSUME ServerNumbering ==
    /\ PtsItems \subseteq Placed
    /\ \A item \in Placed : 0 <= item.start /\ item.start <= item.end
    /\ \A item \in QtsItems : item.start <= item.end
    /\ NumberedInOrder(PtsItems)
    /\ NumberedInOrder(QtsItems \cap Placed)
    /\ \A i \in Containers :
          Sent[i].seq > 0 => 1 <= Sent[i].seqStart /\ Sent[i].seqStart <= Sent[i].seq
    /\ \A i, j \in Containers :
          i < j /\ Sent[i].seq > 0 /\ Sent[j].seq > 0 => Sent[i].seq < Sent[j].seqStart

VARIABLES
    pts, ptsGaps, ptsPending, ptsTimeout, ptsPhase, ptsNext, ptsAccepted,
    qts, qtsGaps, qtsPending, qtsTimeout, qtsPhase, qtsNext, qtsAccepted,
    seq, seqGaps, seqPending, seqTimeout, seqPhase, seqNext, seqAccepted,
    date,         \* s.date
    up,           \* Run is running
    origin,       \* what the select of Run returned: queue or timer
    stack,        \* the running calls, innermost first
    stored,       \* the persisted State
    sent,         \* how many containers the server has sent (external)
    arrivals,     \* how many have reached the worker
    failures,     \* how many failures there have been
    unsaved,      \* history: a write of getDifference failed since the start
    settled       \* history: the items the handler has accepted or that a
                  \* jump of the position to the server's left out

Pts == INSTANCE SequenceBox WITH
    Updates <- PtsRanges,
    state <- pts, gaps <- ptsGaps, pending <- ptsPending,
    gapTimeout <- ptsTimeout, phase <- ptsPhase, next <- ptsNext,
    accepted <- ptsAccepted

Qts == INSTANCE SequenceBox WITH
    Updates <- QtsRanges,
    state <- qts, gaps <- qtsGaps, pending <- qtsPending,
    gapTimeout <- qtsTimeout, phase <- qtsPhase, next <- qtsNext,
    accepted <- qtsAccepted

SeqBox == INSTANCE SequenceBox WITH
    Updates <- SeqRanges,
    state <- seq, gaps <- seqGaps, pending <- seqPending,
    gapTimeout <- seqTimeout, phase <- seqPhase, next <- seqNext,
    accepted <- seqAccepted

ptsBox == <<pts, ptsGaps, ptsPending, ptsTimeout, ptsPhase, ptsNext, ptsAccepted>>
qtsBox == <<qts, qtsGaps, qtsPending, qtsTimeout, qtsPhase, qtsNext, qtsAccepted>>
seqBox == <<seq, seqGaps, seqPending, seqTimeout, seqPhase, seqNext, seqAccepted>>
boxes == <<ptsBox, qtsBox, seqBox>>
worker == <<date, up, origin, stack>>
network == <<sent, arrivals, failures>>
history == <<unsaved, settled>>
vars == <<boxes, worker, stored, network, history>>

-----------------------------------------------------------------------------
(* The server (external): its State after the first j containers.             *)

Last(S) == Max({0} \cup S)

SentItems(j) == UNION {Sent[i].items : i \in 1..j}

ServerState(j) ==
    [pts  |-> Last({item.end : item \in SentItems(j) \cap PtsItems}),
     qts  |-> Last({item.end : item \in SentItems(j) \cap QtsItems}),
     seq  |-> Last({Sent[i].seq : i \in 1..j}),
     date |-> IF j = 0 THEN 0 ELSE Sent[j].date]

\* The server sends the next container.  It does so when the worker looks at
\* the server, where it makes a difference.
ServerSend ==
    /\ sent < Len(Sent)
    /\ stack # << >> => Head(stack).stage = "request"
    /\ sent' = sent + 1
    /\ UNCHANGED <<boxes, worker, stored, arrivals, failures, history>>

\* What the server has for a client at the worker's position, up to its own
\* position after j containers.
Missing(j) ==
    {item \in SentItems(j) \cap PtsItems : item.end > pts} \cup
    {item \in SentItems(j) \cap QtsItems : item.end > qts}

\* What it may add to that: updates with a qts of 0, as often as it likes.
Gaps(j) == (SentItems(j) \cap QtsItems) \ Placed

-----------------------------------------------------------------------------
(* Frames                                                                     *)

DiffFrame(stage, kind, upto, missing) ==
    [op |-> "diff", stage |-> stage, kind |-> kind, upto |-> upto,
     missing |-> missing]

GetDifference == DiffFrame("request", "none", 0, {})

Combined(items, seqNo, at) ==
    [op |-> "combined", stage |-> "loop", todo |-> items, items |-> items,
     seq |-> seqNo, date |-> at, changed |-> FALSE]

ApplySeqFrame(todo) ==
    [op |-> "applySeq", stage |-> "loop", todo |-> todo, recover |-> FALSE]

Top == Head(stack)

In(op, stage) ==
    /\ stack # << >>
    /\ Top.op = op
    /\ Top.stage = stage
    /\ ptsPhase = "idle"
    /\ qtsPhase = "idle"

Goto(stage) == stack' = <<[Top EXCEPT !.stage = stage]>> \o Tail(stack)
Return == stack' = Tail(stack)
TailCall(frame) == stack' = <<frame>> \o Tail(stack)

\* The select of Run: no call is running.
Waiting == up /\ stack = << >> /\ seqPhase = "idle"

-----------------------------------------------------------------------------
NoneStored == [pts |-> -1, qts |-> -1, seq |-> -1, date |-> -1]

\* The account has just been connected and no State is stored for it.
Init ==
    /\ Pts!NewBox(0) /\ Qts!NewBox(0) /\ SeqBox!NewBox(0)
    /\ date = 0
    /\ up = FALSE
    /\ origin = "timer"
    /\ stack = << >>
    /\ stored = NoneStored
    /\ sent = 0
    /\ arrivals = 0
    /\ failures = 0
    /\ unsaved = FALSE
    /\ settled = {}

\* Manager.loadState, newState and the first call of Run: the stored State, or
\* the server's if there is none, then a difference.
Start ==
    /\ ~up
    /\ LET fresh == stored = NoneStored
           State == IF fresh THEN ServerState(sent) ELSE stored
       IN /\ Pts!RenewBox(State.pts)
          /\ Qts!RenewBox(State.qts)
          /\ SeqBox!RenewBox(State.seq)
          /\ date' = State.date
          /\ stored' = State
          /\ settled' = settled \cup (IF fresh THEN SentItems(sent) \cap Numbered ELSE {})
    /\ up' = TRUE
    /\ origin' = "timer"
    /\ stack' = <<GetDifference>>
    /\ unsaved' = FALSE
    /\ UNCHANGED network

\* A failure of this kind is possible now.
Failure(kind) ==
    /\ kind \in Faults
    /\ failures < MaxFailures
    /\ failures' = failures + 1
    /\ UNCHANGED <<sent, arrivals>>

\* Run has returned: the memory of the worker is gone.
Die ==
    /\ Pts!RenewBox(0) /\ Qts!RenewBox(0) /\ SeqBox!RenewBox(0)
    /\ date' = 0
    /\ up' = FALSE
    /\ origin' = "timer"
    /\ stack' = << >>

\* An error reaches Run.  From handleUpdates it ends Run; from a timer's
\* getDifference it is logged, and the apply it interrupted moved no counter.
Fail ==
    \/ origin = "queue" /\ Die
    \/ /\ origin = "timer"
       /\ stack' = << >>
       /\ IF ptsPhase = "apply" THEN Pts!ApplyError ELSE UNCHANGED ptsBox
       /\ IF qtsPhase = "apply" THEN Qts!ApplyError ELSE UNCHANGED qtsBox
       /\ UNCHANGED <<seqBox, date, up, origin>>

\* The process dies, or ctx is done.
Crash ==
    /\ up
    /\ Failure("crash")
    /\ Die
    /\ UNCHANGED <<stored, history>>

-----------------------------------------------------------------------------
(* The select of Run and handleUpdates                                        *)

\* A container without seq is applied at once, in whatever order it came.
ReceiveUnnumbered(i) ==
    /\ Waiting
    /\ arrivals < MaxArrivals
    /\ Sent[i].seq = 0
    /\ arrivals' = arrivals + 1
    /\ origin' = "queue"
    /\ stack' = <<Combined(Sent[i].items, 0, Sent[i].date)>>
    /\ UNCHANGED <<boxes, date, up, stored, sent, failures, history>>

\* handleSeq: a numbered container goes through the seq box.
ReceiveNumbered(i) ==
    /\ Waiting
    /\ arrivals < MaxArrivals
    /\ Sent[i].seq > 0
    /\ arrivals' = arrivals + 1
    /\ origin' = "queue"
    /\ SeqBox!Handle(SeqRange(i))
    /\ UNCHANGED <<ptsBox, qtsBox, date, up, stack, stored, sent, failures, history>>

\* updatesTooLong.
ReceiveTooLong ==
    /\ Waiting
    /\ arrivals < MaxArrivals
    /\ arrivals' = arrivals + 1
    /\ origin' = "queue"
    /\ stack' = <<GetDifference>>
    /\ UNCHANGED <<boxes, date, up, stored, sent, failures, history>>

TimerDifference ==
    /\ Waiting
    /\ origin' = "timer"
    /\ stack' = <<GetDifference>>
    /\ UNCHANGED <<date, up, stored, network, history>>

GapTimeout ==
    /\ TimerDifference
    /\ \/ /\ Pts!GapTimeoutFires
          /\ UNCHANGED <<pts, ptsGaps, ptsPending, ptsPhase, ptsNext, ptsAccepted,
                         qtsBox, seqBox>>
       \/ /\ Qts!GapTimeoutFires
          /\ UNCHANGED <<qts, qtsGaps, qtsPending, qtsPhase, qtsNext, qtsAccepted,
                         ptsBox, seqBox>>
       \/ /\ SeqBox!GapTimeoutFires
          /\ UNCHANGED <<seq, seqGaps, seqPending, seqPhase, seqNext, seqAccepted,
                         ptsBox, qtsBox>>

\* Mutant: the idle timer runs only while a gap is open.
BadIdleTimeout ==
    /\ TimerDifference
    /\ ptsGaps \cup qtsGaps \cup seqGaps # {}
    /\ UNCHANGED boxes

IdleTimeout ==
    /\ TimerDifference
    /\ UNCHANGED boxes

-----------------------------------------------------------------------------
(* applySeq                                                                   *)

SeqScan ==
    /\ SeqBox!ScanNext \/ SeqBox!ScanEnd
    /\ UNCHANGED <<ptsBox, qtsBox, worker, stored, network, history>>

ApplySeq ==
    /\ stack = << >>
    /\ seqPhase = "apply"
    /\ stack' = <<ApplySeqFrame(seqAccepted)>>
    /\ UNCHANGED <<boxes, date, up, origin, stored, network, history>>

ApplySeqNext ==
    /\ In("applySeq", "loop")
    /\ Top.todo # << >>
    /\ LET i == CHOOSE j \in Containers : SeqRange(j) = Head(Top.todo)
       IN stack' = <<Combined(Sent[i].items, Sent[i].seq, Sent[i].date),
                     [Top EXCEPT !.todo = Tail(@)]>>
    /\ UNCHANGED <<boxes, date, up, origin, stored, network, history>>

\* storage.SetSeq, then the difference that updatePtsChanged asked for.
ApplySeqSave ==
    /\ In("applySeq", "loop")
    /\ Top.todo = << >>
    /\ stored' = [stored EXCEPT !.seq = seqNext]
    /\ \/ /\ Top.recover
          /\ stack' = <<GetDifference, [Top EXCEPT !.stage = "recovered"]>>
          /\ UNCHANGED seqBox
       \/ /\ ~Top.recover
          /\ SeqBox!ApplyOk
          /\ Return
    /\ UNCHANGED <<ptsBox, qtsBox, date, up, origin, network, history>>

\* getDifference has returned: the box takes the state of the batch, even
\* when the difference has moved seq further.
ApplySeqRecovered ==
    /\ In("applySeq", "recovered")
    /\ SeqBox!ApplyOk
    /\ Return
    /\ UNCHANGED <<ptsBox, qtsBox, date, up, origin, stored, network, history>>

-----------------------------------------------------------------------------
(* applyCombined                                                              *)

\* sortUpdatesByPts: unnumbered updates, then pts, then qts, each by position.
Before(a, b) ==
    LET rank(x) == IF x \in PtsItems THEN 1 ELSE IF x \in QtsItems THEN 2 ELSE 0
    IN rank(a) < rank(b) \/ (rank(a) = rank(b) /\ a.start < b.start)

First(todo) == {x \in todo : \A y \in todo : ~Before(y, x)}

Took(x) ==
    stack' = <<[Top EXCEPT !.todo = @ \ {x}]>> \o Tail(stack)

\* updatePtsChanged is only remembered.
TakeChanged(x) ==
    /\ x.kind = "changed"
    /\ stack' = <<[Top EXCEPT !.todo = @ \ {x}, !.items = @ \ {x},
                              !.changed = TRUE]>> \o Tail(stack)
    /\ UNCHANGED boxes

TakePlain(x) ==
    /\ x.kind = "plain"
    /\ Took(x)
    /\ UNCHANGED boxes

\* handlePts.
TakePts(x) ==
    /\ x \in PtsItems
    /\ Took(x)
    /\ Pts!Handle(Span(x))
    /\ UNCHANGED <<qtsBox, seqBox>>

\* handleQts.
TakeQts(x) ==
    /\ x \in QtsItems
    /\ Took(x)
    /\ Qts!Handle(Span(x))
    /\ UNCHANGED <<ptsBox, seqBox>>

\* One turn of the loop over comb.Updates.
CombinedNext ==
    /\ In("combined", "loop")
    /\ \E x \in First(Top.todo) :
          TakeChanged(x) \/ TakePlain(x) \/ TakePts(x) \/ TakeQts(x)
    /\ UNCHANGED <<date, up, origin, stored, network, history>>

PtsScan ==
    /\ Pts!ScanNext \/ Pts!ScanEnd
    /\ UNCHANGED <<qtsBox, seqBox, worker, stored, network, history>>

QtsScan ==
    /\ Qts!ScanNext \/ Qts!ScanEnd
    /\ UNCHANGED <<ptsBox, seqBox, worker, stored, network, history>>

AcceptedItems ==
    IF ptsPhase = "apply"
    THEN {x \in PtsItems : \E k \in DOMAIN ptsAccepted : ptsAccepted[k] = Span(x)}
    ELSE {x \in QtsItems : \E k \in DOMAIN qtsAccepted : qtsAccepted[k] = Span(x)}

Applying == "apply" \in {ptsPhase, qtsPhase}

\* applyPts and applyQts: the handler gets the accepted updates ...
ApplyHandled ==
    /\ Applying
    /\ Top.stage = "loop"
    /\ settled' = settled \cup AcceptedItems
    /\ Goto("save")
    /\ UNCHANGED <<boxes, date, up, origin, stored, network, unsaved>>

\* Mutant: the position is not persisted.
BadSavePts ==
    /\ ptsPhase = "apply"
    /\ Top.stage = "save"
    /\ Pts!ApplyOk
    /\ Goto("loop")
    /\ UNCHANGED <<qtsBox, seqBox, date, up, origin, stored, network, history>>

\* ... and the new position is persisted.
SavePts ==
    /\ ptsPhase = "apply"
    /\ Top.stage = "save"
    /\ stored' = [stored EXCEPT !.pts = ptsNext]
    /\ Pts!ApplyOk
    /\ Goto("loop")
    /\ UNCHANGED <<qtsBox, seqBox, date, up, origin, network, history>>

\* A qts of 0 is not persisted, although the box takes it over (SetQts is skipped).
SaveQts ==
    /\ qtsPhase = "apply"
    /\ Top.stage = "save"
    /\ stored' = IF qtsNext = 0 THEN stored ELSE [stored EXCEPT !.qts = qtsNext]
    /\ Qts!ApplyOk
    /\ Goto("loop")
    /\ UNCHANGED <<ptsBox, seqBox, date, up, origin, network, history>>

\* Mutant: what waits in a box is not delivered yet.
BadCombinedHandled ==
    /\ In("combined", "loop")
    /\ Top.todo = {}
    /\ settled' = settled \cup (Top.items \ Numbered)
    /\ Goto("date")
    /\ UNCHANGED <<boxes, date, up, origin, stored, network, unsaved>>

\* After the loop the handler gets every update of the container that belongs
\* to no channel, whatever its box made of it.
CombinedHandled ==
    /\ In("combined", "loop")
    /\ Top.todo = {}
    /\ settled' = settled \cup Top.items
    /\ Goto("date")
    /\ UNCHANGED <<boxes, date, up, origin, stored, network, unsaved>>

\* The date and the seq of the container are persisted; the caller learns of
\* updatePtsChanged.
CombinedDate ==
    /\ In("combined", "date")
    /\ date' = Max({date, Top.date})
    /\ \/ /\ Top.seq > 0
          /\ SeqBox!SetState(Top.seq)
          /\ UNCHANGED <<seqGaps, seqTimeout, seqPhase, seqNext, seqAccepted>>
          /\ stored' = [stored EXCEPT !.seq = Top.seq,
                            !.date = IF date < Top.date THEN Top.date ELSE @]
          /\ stack' = <<[stack[2] EXCEPT !.recover = @ \/ Top.changed]>>
       \/ /\ Top.seq = 0
          /\ UNCHANGED seqBox
          /\ stored' = [stored EXCEPT
                            !.date = IF date < Top.date THEN Top.date ELSE @]
          /\ IF Top.changed THEN TailCall(GetDifference) ELSE Return
    /\ UNCHANGED <<ptsBox, qtsBox, up, origin, network, history>>

\* The storage returns an error in one of the steps above.
StorageFails ==
    /\ Failure("storage")
    /\ \/ Applying /\ Top.stage = "save"
       \/ In("combined", "date") /\ (Top.date > date \/ Top.seq > 0)
       \/ In("applySeq", "loop") /\ Top.todo = << >>
    /\ Fail
    /\ UNCHANGED <<stored, history>>

-----------------------------------------------------------------------------
(* getDifference                                                              *)

\* The server's answer with these updates (external).
Answer(kind, j, missing) ==
    LET to == ServerState(j)
    IN \/ kind = "difference" /\ j = sent /\ missing # {}
       \/ /\ kind = "slice" /\ j < sent /\ missing # {}
          /\ pts <= to.pts /\ qts <= to.qts
       \/ kind = "empty" /\ j = sent /\ missing = {}
       \/ kind = "tooLong" /\ j = sent /\ pts < to.pts

\* The gaps are forgotten and the server is asked; transient errors are
\* retried until there is an answer.
Request ==
    /\ In("diff", "request")
    /\ Pts!ClearGaps /\ Qts!ClearGaps /\ SeqBox!ClearGaps
    /\ \E kind \in {"difference", "slice", "empty", "tooLong"}, j \in 0..sent :
          \E gaps \in SUBSET Gaps(j) :
             /\ Answer(kind, j, Missing(j) \cup gaps)
             /\ TailCall(DiffFrame(
                   IF kind \in {"difference", "slice"} THEN "others" ELSE "store",
                   kind, j, Missing(j) \cup gaps))
    /\ UNCHANGED <<pts, ptsPending, ptsTimeout, ptsPhase, ptsNext, ptsAccepted,
                   qts, qtsPending, qtsTimeout, qtsPhase, qtsNext, qtsAccepted,
                   seq, seqPending, seqTimeout, seqPhase, seqNext, seqAccepted,
                   date, up, origin, stored, network, history>>

\* The session is gone: Run ends whatever asked for the difference.
RequestFatal ==
    /\ In("diff", "request")
    /\ Failure("fatal")
    /\ Die
    /\ UNCHANGED <<stored, history>>

\* The kinds of the updates in diff.OtherUpdates.
Others == {"edit", "vote"}

\* Mutant: the position of the answer is persisted before it is handled.
BadHandleOthers ==
    /\ In("diff", "others")
    /\ stored' = ServerState(Top.upto)
    /\ LET others == {x \in Top.missing : x.kind \in Others}
           frame  == [Top EXCEPT !.stage = "messages"]
       IN IF others = {} THEN TailCall(frame)
          ELSE stack' = <<Combined(others, 0, 0), frame>> \o Tail(stack)
    /\ UNCHANGED <<boxes, date, up, origin, network, history>>

\* diff.OtherUpdates are handled like a container that just arrived.
HandleOthers ==
    /\ In("diff", "others")
    /\ LET others == {x \in Top.missing : x.kind \in Others}
           frame  == [Top EXCEPT !.stage = "messages"]
           at     == IF Top.kind = "slice" THEN ServerState(Top.upto).date ELSE 0
       IN IF others = {} THEN TailCall(frame)
          ELSE stack' = <<Combined(others, 0, at), frame>> \o Tail(stack)
    /\ UNCHANGED <<boxes, date, up, origin, stored, network, history>>

\* diff.NewMessages and diff.NewEncryptedMessages go to the handler.
HandleMessages ==
    /\ In("diff", "messages")
    /\ settled' = settled \cup {x \in Top.missing : x.kind \notin Others}
    /\ Goto("store")
    /\ UNCHANGED <<boxes, date, up, origin, stored, network, unsaved>>

\* The handler returns an error, here or in one of its calls above.
HandlerFails ==
    /\ Failure("handler")
    /\ \/ Applying /\ Top.stage = "loop"
       \/ In("combined", "loop") /\ Top.todo = {}
       \/ In("diff", "messages") /\ \E x \in Top.missing : x.kind \notin Others
    /\ Fail
    /\ UNCHANGED <<stored, history>>

\* getDifference only logs the errors of the storage.
Persist(to) ==
    \/ stored' = to /\ UNCHANGED <<unsaved, network>>
    \/ Failure("storage") /\ unsaved' = TRUE /\ UNCHANGED stored

SeqOnly == UNCHANGED <<seqGaps, seqTimeout, seqPhase, seqNext, seqAccepted>>
PtsOnly == UNCHANGED <<ptsGaps, ptsTimeout, ptsPhase, ptsNext, ptsAccepted>>
QtsOnly == UNCHANGED <<qtsGaps, qtsTimeout, qtsPhase, qtsNext, qtsAccepted>>

\* setState: the position of the answer is persisted and taken over by all
\* boxes.  After a slice the next one is fetched.
StoreDifference ==
    /\ In("diff", "store")
    /\ Top.kind \in {"difference", "slice"}
    /\ LET to == ServerState(Top.upto)
       IN /\ Persist(to)
          /\ Pts!SetState(to.pts) /\ PtsOnly
          /\ Qts!SetState(to.qts) /\ QtsOnly
          /\ SeqBox!SetState(to.seq) /\ SeqOnly
          /\ date' = to.date
    /\ IF Top.kind = "slice" THEN TailCall(GetDifference) ELSE Return
    /\ UNCHANGED <<up, origin, settled>>

StoreEmpty ==
    /\ In("diff", "store")
    /\ Top.kind = "empty"
    /\ LET to == ServerState(Top.upto)
       IN /\ Persist([stored EXCEPT !.date = to.date, !.seq = to.seq])
          /\ SeqBox!SetState(to.seq) /\ SeqOnly
          /\ date' = to.date
    /\ Return
    /\ UNCHANGED <<ptsBox, qtsBox, up, origin, settled>>

\* Mutant: the whole State is persisted, although only pts was answered for.
BadStoreTooLong ==
    /\ In("diff", "store")
    /\ Top.kind = "tooLong"
    /\ LET to == ServerState(Top.upto)
       IN /\ Persist(to)
          /\ Pts!SetState(to.pts) /\ PtsOnly
    /\ settled' = settled \cup (Top.missing \cap PtsItems)
    /\ TailCall(GetDifference)
    /\ UNCHANGED <<qtsBox, seqBox, date, up, origin>>

\* differenceTooLong: pts jumps, and what it jumps over is not fetched.
StoreTooLong ==
    /\ In("diff", "store")
    /\ Top.kind = "tooLong"
    /\ LET to == ServerState(Top.upto)
       IN /\ Persist([stored EXCEPT !.pts = to.pts])
          /\ Pts!SetState(to.pts) /\ PtsOnly
    /\ settled' = settled \cup (Top.missing \cap PtsItems)
    /\ TailCall(GetDifference)
    /\ UNCHANGED <<qtsBox, seqBox, date, up, origin>>

-----------------------------------------------------------------------------
Next ==
    \/ ServerSend
    \/ Start
    \/ Crash
    \/ \E i \in 1..sent : ReceiveUnnumbered(i) \/ ReceiveNumbered(i)
    \/ ReceiveTooLong
    \/ GapTimeout
    \/ IdleTimeout
    \/ SeqScan
    \/ ApplySeq
    \/ ApplySeqNext
    \/ ApplySeqSave
    \/ ApplySeqRecovered
    \/ CombinedNext
    \/ PtsScan
    \/ QtsScan
    \/ ApplyHandled
    \/ SavePts
    \/ SaveQts
    \/ CombinedHandled
    \/ CombinedDate
    \/ StorageFails
    \/ Request
    \/ RequestFatal
    \/ HandleOthers
    \/ HandleMessages
    \/ HandlerFails
    \/ StoreDifference
    \/ StoreEmpty
    \/ StoreTooLong

Spec == Init /\ [][Next]_vars

\* The code's goroutine runs, and the idle timer of a waiting worker expires.  That
\* a Run which has ended is started again is nobody's duty: an error of Run is only
\* reported to the user, and the bridge waits for a new login or its own restart.
Steps ==
    \/ SeqScan \/ ApplySeq \/ ApplySeqNext \/ ApplySeqSave \/ ApplySeqRecovered
    \/ CombinedNext \/ PtsScan \/ QtsScan \/ ApplyHandled \/ SavePts \/ SaveQts
    \/ CombinedHandled \/ CombinedDate
    \/ Request \/ HandleOthers \/ HandleMessages
    \/ StoreDifference \/ StoreEmpty \/ StoreTooLong

LiveSpec == Spec /\ WF_vars(Steps) /\ WF_vars(IdleTimeout)

-----------------------------------------------------------------------------
(* Properties                                                                 *)

State == [pts : Nat, qts : Nat, seq : Nat, date : Nat]

\* What a client at this position no longer asks the server for.
Passed(position) ==
    {x \in PtsItems \cap Counted : x.end <= position.pts} \cup
    {x \in QtsItems \cap Counted : x.end <= position.qts} \cup
    UNION {Sent[i].items \cap Counted :
               i \in {j \in Containers : 0 < Sent[j].seq /\ Sent[j].seq <= position.seq}}

\* No counter of the worker (pts, qts or seq) moves past a numbered update
\* that the handler has not accepted, unless the server declared the
\* difference too long: neither a gap, a held back container, a slice nor an
\* error in the middle of an answer makes the worker forget an update.
NothingOvertaken ==
    Passed([pts |-> pts, qts |-> qts, seq |-> seq]) \subseteq settled

\* The same of the persisted State, at every moment: whenever the process
\* dies, the difference fetched after the restart still covers every update
\* the handler has not accepted.
CrashLosesNothing == Passed(stored) \subseteq settled

\* When the worker waits, the storage holds the position it has in memory, unless
\* a write of getDifference failed: a restart repeats no old update.  Two counters
\* may be behind in memory: seq (see ApplySeqRecovered), and qts, which an update
\* with a qts of 0 sets back to 0 in memory only, once it has been handled.
StorageInStep ==
    Waiting /\ ~unsaved =>
        /\ stored.pts = pts
        /\ \/ stored.qts = qts
           \/ qts = 0 /\ (settled \cap QtsItems) \ Placed # {}
        /\ stored.date = date
        /\ seq <= stored.seq

\* The worker is a reader of the updates numbered by pts, and one of those numbered
\* by qts; when the process is down it stands at the stored State.
Known == IF stored = NoneStored THEN [pts |-> 0, qts |-> 0] ELSE stored

PtsReader == INSTANCE SequenceReader
    WITH Items <- PtsItems \cap Counted, Beginning <- 0,
         position <- IF up THEN pts ELSE Known.pts, saved <- Known.pts,
         settled <- settled \cap PtsItems \cap Counted

QtsReader == INSTANCE SequenceReader
    WITH Items <- QtsItems \cap Counted, Beginning <- 0,
         position <- IF up THEN qts ELSE Known.qts, saved <- Known.qts,
         settled <- settled \cap QtsItems \cap Counted

\* Both counters are read without a hole, although the calls of the worker nest and
\* share one State: what is stored for a counter is always a position that it takes
\* in the same step, a restart goes on from there, and all below is settled.  (They
\* may go back: setState after a slice takes the position of the slice, although
\* updates that the box held may have been applied beyond it, and an update with a
\* qts of 0 takes the worker back to the beginning of qts.)
AccountReads == PtsReader!RepeatingSpec /\ QtsReader!RepeatingSpec

\* While Run runs, every numbered update that the server sends is handed to the
\* handler in the end, even when all containers are lost and whatever failed on
\* the way, unless a position jumped over it; and when Run has ended and is started
\* again, it makes up for what it missed.  (Sent is finite, so the server falls
\* silent.)
EveryUpdateArrives ==
    <>[](up => SentItems(sent) \cap Counted \subseteq settled)

=============================================================================
