----------------------------- MODULE RpcEngine ------------------------------
(* pkg/gotd/rpc: the Engine that sends requests until they are acknowledged   *)
(* and gives each its answer, with Conn.Invoke (pkg/gotd/mtproto/rpc.go),     *)
(* which repeats a request that the server refused, and the handlers of the   *)
(* server's messages, each of which runs on a goroutine of its own.           *)
(*                                                                            *)
(* A step is what happens under e.mux, or between two such places.  The       *)
(* server is external: it executes a message id once, answers every copy that *)
(* reaches it, and refuses copies with an old salt.  It takes an id while its *)
(* time is not too far ahead and not too long ago (mtproto/read.go:19-24), so *)
(* an id of a wrong clock may be refused today and taken later, or the other  *)
(* way round.                                                                 *)
EXTENDS Integers, FiniteSets

CONSTANTS
    Requests,     \* the callers of Invoke, one call each
    MaxRetries,   \* e.maxRetries: copies sent after the first
    MaxAttempts,  \* calls of Do in one Invoke (3 in the code)
    MaxRotations, \* bound: changes of the server's salt
    Faults        \* what may happen: a send fails, a ctx is done, the engine closes

AllFaults == {"send", "cancel", "close"}

ASSUME EngineConstants ==
    /\ IsFiniteSet(Requests)
    /\ MaxRetries \in Nat \ {0} /\ MaxAttempts \in Nat \ {0} /\ MaxRotations \in Nat
    /\ Faults \subseteq AllFaults

VARIABLES
    rpc,        \* e.rpc: the callback of each message id
    ack,        \* e.ack: the ids whose acknowledgement is awaited
    acked,      \* the requests whose channel in e.ack was closed
    fetched,    \* callbacks that NotifyResult or NotifyError is about to call
    called,     \* handlerCalled of each call of Do
    answer,     \* resultErr of the running Do; done is closed if there is one
    pc,         \* where the request is in Invoke, Do and retryUntilAck
    attempt,    \* which call of Do it is
    msg,        \* req.MsgID
    retries,    \* copies sent after the first
    sent,       \* the result "sent" of retryUntilAck
    result,     \* what Do returns
    cancelled,  \* the requests whose ctx is done
    forced,     \* e.reqCtx is done
    closed,     \* e.closed
    salt,       \* c.salt is the server's
    rotations,  \* how often the server changed its salt
    offset,     \* c.serverTimeOffset is set
    right,      \* the local time with this offset is the server's
    window,     \* where the time of the id that a request has is for the server
    known,      \* the ids that were made when the offset was set
    executed,   \* server: the ids it executed, with the outcome
    refused,    \* server: the ids of which it refused a copy for its time
    answers,    \* server: answers under way
    acks        \* server: acknowledgements under way

notices == <<fetched, called, answer>>
engine == <<rpc, ack, acked>>
call == <<pc, attempt, msg, retries, sent, result>>
ending == <<cancelled, forced, closed>>
clock == <<offset, right>>
ids == <<window, known>>
session == <<salt, rotations, clock, ids>>
server == <<executed, refused, answers, acks>>
vars == <<engine, notices, call, ending, session, server>>

Nobody == <<"nobody">>
None == "none"

Ids == Requests \X (1..MaxAttempts)
Id(r) == <<r, msg[r]>>
Handler(r) == <<r, attempt[r]>>

\* entered: isClosed was false, wg.Add not reached; acking: before waitAck;
\* sending: before the first send; loop, final: the selects; leaving: before the
\* deferred delete.
Places ==
    {"idle", "do", "entered", "acking", "sending", "loop", "final", "leaving", "ended"}

\* What comes back: refused for its salt or its time (resynced or not), executed
\* without or with an error.
Outcomes == {"ok", "error"}
Kinds == Outcomes \cup {"salt", "resync"}

Windows == {"unmade", "early", "timely", "late"}

\* New.  A connection that has just created its key knows the offset; another one
\* uses the local clock, which may be wrong.
Init ==
    /\ rpc = [i \in Ids |-> Nobody] /\ ack = {} /\ acked = {}
    /\ fetched = {} /\ called = {} /\ answer = [r \in Requests |-> None]
    /\ pc = [r \in Requests |-> "idle"]
    /\ attempt = [r \in Requests |-> 1] /\ msg = [r \in Requests |-> 1]
    /\ retries = [r \in Requests |-> 0] /\ sent = [r \in Requests |-> FALSE]
    /\ result = [r \in Requests |-> None]
    /\ cancelled = {} /\ forced = FALSE /\ closed = FALSE
    /\ salt = TRUE /\ rotations = 0 /\ offset \in BOOLEAN
    /\ right \in IF offset THEN {TRUE} ELSE BOOLEAN
    /\ window = [r \in Requests |-> "unmade"] /\ known = {}
    /\ executed = {} /\ refused = {} /\ answers = {} /\ acks = {}

At(r, place) == pc[r] = place
Go(r, place) == pc' = [pc EXCEPT ![r] = place]

\* retryCtx is done: the caller's context, or the callback was called.
RetryDone(r) == r \in cancelled \/ answer[r] # None

-----------------------------------------------------------------------------
(* Invoke and Do                                                              *)

\* nextMsgSeq: a message id from the clock as it is known now.
NewId(r, n) ==
    /\ \E w \in IF right THEN {"timely"} ELSE {"early", "late"} :
          window' = [window EXCEPT ![r] = w]
    /\ known' = IF offset THEN known \cup {<<r, n>>} ELSE known

Invoke(r) ==
    /\ At(r, "idle") /\ Go(r, "do")
    /\ NewId(r, 1)
    /\ UNCHANGED <<engine, notices, attempt, msg, retries, sent, result, ending,
                   salt, rotations, clock, server>>

\* The first line of Do.
IsClosed(r) ==
    /\ At(r, "do")
    /\ IF closed
       THEN Go(r, "ended") /\ result' = [result EXCEPT ![r] = "error"]
       ELSE Go(r, "entered") /\ UNCHANGED result
    /\ answer' = [answer EXCEPT ![r] = None]
    /\ UNCHANGED <<engine, fetched, called, attempt, msg, retries, sent, ending,
                   session, server>>

\* wg.Add, and the callback.
Register(r) ==
    /\ At(r, "entered") /\ Go(r, "acking")
    /\ rpc' = [rpc EXCEPT ![Id(r)] = Handler(r)]
    /\ UNCHANGED <<ack, acked, notices, attempt, msg, retries, sent, result,
                   ending, session, server>>

WaitAck(r) ==
    /\ At(r, "acking") /\ Go(r, "sending")
    /\ ack' = ack \cup {Id(r)} /\ acked' = acked \ {r}
    /\ retries' = [retries EXCEPT ![r] = 0]
    /\ UNCHANGED <<rpc, notices, attempt, msg, sent, result, ending, session,
                   server>>

\* What the server does with a copy that reaches it (external).
Refuse(i, why) ==
    /\ answers' = answers \cup {<<i, why>>}
    /\ refused' = IF why = "time" THEN refused \cup {i} ELSE refused
    /\ UNCHANGED <<executed, acks>>

Execute(i) ==
    \E outcome \in Outcomes :
        /\ \A done \in executed : done[1] = i => done[2] = outcome
        /\ executed' = executed \cup {<<i, outcome>>}
        /\ answers' = answers \cup {<<i, outcome>>}
        /\ acks' = acks \cup {i}
        /\ UNCHANGED refused

Reaches(i) ==
    \/ ~salt /\ Refuse(i, "salt")
    \/ salt /\ window[i[1]] # "timely" /\ Refuse(i, "time")
    \/ salt /\ window[i[1]] = "timely" /\ Execute(i)

\* e.send succeeds; the copy may get lost all the same.
Copy(i) == Reaches(i) \/ UNCHANGED server

\* retryUntilAck returns; removeAck.
Acquit(r, place, wasSent) ==
    /\ Go(r, place)
    /\ ack' = ack \ {Id(r)}
    /\ sent' = [sent EXCEPT ![r] = wasSent]

\* It returns an error that is not the context's.
Fail(r) == Acquit(r, "leaving", TRUE) /\ result' = [result EXCEPT ![r] = "error"]

FirstSend(r) ==
    /\ At(r, "sending")
    /\ \/ Copy(Id(r)) /\ Go(r, "loop") /\ UNCHANGED <<ack, sent, result>>
       \/ "send" \in Faults /\ Fail(r) /\ UNCHANGED server
       \/ RetryDone(r) /\ Acquit(r, "final", FALSE) /\ UNCHANGED <<result, server>>
    /\ UNCHANGED <<rpc, acked, notices, attempt, msg, retries, ending, session>>

\* The loop's select returns a context or the acknowledgement.
LoopEnds(r) ==
    /\ At(r, "loop")
    /\ \/ /\ r \in acked \/ RetryDone(r)
          /\ Acquit(r, "final", TRUE)
          /\ UNCHANGED result
       \/ forced /\ Fail(r)
    /\ UNCHANGED <<rpc, acked, notices, attempt, msg, retries, ending, session,
                   server>>

\* The copy is counted; the last one allowed ends the call.
CountRetry(r) ==
    \/ /\ retries[r] + 1 < MaxRetries
       /\ retries' = [retries EXCEPT ![r] = @ + 1]
       /\ UNCHANGED <<pc, ack, sent, result>>
    \/ retries[r] + 1 >= MaxRetries /\ Fail(r) /\ UNCHANGED retries

\* It returns the timer: another copy.
Resend(r) ==
    /\ At(r, "loop")
    /\ \/ Copy(Id(r)) /\ CountRetry(r)
       \/ "send" \in Faults /\ Fail(r) /\ UNCHANGED <<retries, server>>
       \/ RetryDone(r) /\ Acquit(r, "final", TRUE) /\ UNCHANGED <<retries, result, server>>
    /\ UNCHANGED <<rpc, acked, notices, attempt, msg, ending, session>>

\* The three cases of the last select of Do.  A request that was sent gets a nop
\* callback, which is as good as none, and is dropped.
CtxDone(r) ==
    /\ r \in cancelled
    /\ result' = [result EXCEPT ![r] = "error"]
    /\ rpc' = IF sent[r] THEN [rpc EXCEPT ![Id(r)] = Nobody] ELSE rpc

ForcedOut(r) ==
    /\ forced
    /\ result' = [result EXCEPT ![r] = "error"]
    /\ UNCHANGED rpc

\* Mutants: an acknowledgement passes for an answer; done is not waited for.
BadAnswered(r) ==
    /\ answer[r] # None \/ r \in acked
    /\ result' = [result EXCEPT ![r] = IF answer[r] = None THEN "ok" ELSE answer[r]]
    /\ UNCHANGED rpc
BadDeaf(r) == FALSE /\ UNCHANGED <<rpc, result>>

Answered(r) ==
    /\ answer[r] # None
    /\ result' = [result EXCEPT ![r] = answer[r]]
    /\ UNCHANGED rpc

Final(r) ==
    /\ At(r, "final") /\ Go(r, "leaving")
    /\ CtxDone(r) \/ ForcedOut(r) \/ Answered(r)
    /\ UNCHANGED <<ack, acked, notices, attempt, msg, retries, sent, ending,
                   session, server>>

\* Invoke repeats what was refused, with the new salt and the same id, or with an
\* id of the corrected clock.
Repeated(r) == result[r] \in {"salt", "resync"} /\ attempt[r] < MaxAttempts

\* Mutant: every repetition gets a new id.
BadRenumbered(r) == TRUE

Renumbered(r) == result[r] = "resync"

\* storeSalt: the salt a refusal carries is the server's unless it changed since.
StoreSalt(r) ==
    salt' \in IF result[r] # "salt" THEN {salt}
             ELSE IF rotations > 1 THEN BOOLEAN ELSE {TRUE}

\* The deferred functions of Do, and the rest of Invoke's loop.
Leave(r) ==
    /\ At(r, "leaving")
    /\ rpc' = [rpc EXCEPT ![Id(r)] = Nobody]
    /\ \/ /\ Repeated(r) /\ Go(r, "do")
          /\ attempt' = [attempt EXCEPT ![r] = @ + 1]
          /\ StoreSalt(r)
          /\ IF Renumbered(r)
             THEN msg' = [msg EXCEPT ![r] = @ + 1] /\ NewId(r, msg[r] + 1)
             ELSE UNCHANGED <<msg, ids>>
       \/ ~Repeated(r) /\ Go(r, "ended") /\ UNCHANGED <<attempt, salt, msg, ids>>
    /\ UNCHANGED <<ack, acked, notices, retries, sent, result, ending,
                   rotations, clock, server>>

-----------------------------------------------------------------------------
(* The server's messages                                                      *)

\* notifyAckUnlocked.
NotifyAck(i) ==
    /\ ack' = ack \ {i}
    /\ acked' = IF i \in ack THEN acked \cup {i[1]} ELSE acked

NotifyAcks(i) ==
    /\ i \in acks
    /\ acks' = acks \ {i}
    /\ NotifyAck(i)
    /\ UNCHANGED <<rpc, notices, call, ending, session, executed, refused,
                   answers>>

\* What handleBadMsg makes of a refusal for the time (codes 16 and 17).  The first
\* to find the offset unset sets it; of several at once each may find it so, but
\* none for an id that was made when it was set.
BadMsg(i, kind, k) ==
    \/ kind # "time" /\ k = kind /\ UNCHANGED clock
    \/ kind = "time" /\ k = "error" /\ offset /\ UNCHANGED clock
    \/ /\ kind = "time" /\ k = "resync" /\ i \notin known
       /\ offset' = TRUE /\ right' = TRUE

\* handleResult and handleBadMsg, and NotifyResult or NotifyError up to the
\* unlock.
Notify(i, kind) ==
    /\ <<i, kind>> \in answers
    /\ answers' = answers \ {<<i, kind>>}
    /\ \E k \in Kinds :
          /\ BadMsg(i, kind, k)
          /\ fetched' = IF rpc[i] = Nobody THEN fetched ELSE fetched \cup {<<rpc[i], k>>}
    /\ NotifyAck(i)
    /\ UNCHANGED <<rpc, called, answer, call, ending, salt, rotations, ids,
                   executed, refused, acks>>

\* The callback is called: the handler of a Do that runs or has returned.
CallHandler(r, n, kind) ==
    /\ <<<<r, n>>, kind>> \in fetched
    /\ fetched' = fetched \ {<<<<r, n>>, kind>>}
    /\ called' = called \cup {<<r, n>>}
    /\ answer' = IF <<r, n>> \notin called /\ attempt[r] = n /\ ~At(r, "ended")
                 THEN [answer EXCEPT ![r] = kind] ELSE answer
    /\ UNCHANGED <<engine, call, ending, session, server>>

-----------------------------------------------------------------------------
(* The surroundings                                                           *)

\* The server changes its salt.
Rotate ==
    /\ rotations < MaxRotations /\ rotations' = rotations + 1
    /\ salt' = FALSE
    /\ UNCHANGED <<engine, notices, call, ending, clock, ids, server>>

\* Time passes: the server takes the id that is sent now, or takes it no longer.
TimePasses(r) ==
    /\ ~At(r, "ended")
    /\ \/ window[r] = "early" /\ window' = [window EXCEPT ![r] = "timely"]
       \/ window[r] = "timely" /\ window' = [window EXCEPT ![r] = "late"]
    /\ UNCHANGED <<engine, notices, call, ending, salt, rotations, clock, known,
                   server>>

\* handleSessionCreated: the salt and, if it is unset, the offset.  This comes from
\* the time of a message of our own, so a wrong clock stays wrong.  A message that
\* comes so late that its salt is outdated has the effect of a Rotate.
SessionCreated ==
    /\ salt' \in {salt, TRUE}
    /\ offset' = TRUE
    /\ UNCHANGED <<engine, notices, call, ending, rotations, right, ids, server>>

Cancel(r) ==
    /\ "cancel" \in Faults
    /\ pc[r] \notin {"idle", "ended"}
    /\ r \notin cancelled /\ cancelled' = cancelled \cup {r}
    /\ UNCHANGED <<engine, notices, call, forced, closed, session, server>>

\* The first half of ForceClose.
ReqCancel ==
    /\ "close" \in Faults
    /\ ~closed /\ ~forced /\ forced' = TRUE
    /\ UNCHANGED <<engine, notices, call, cancelled, closed, session, server>>

\* Close, or the second half of ForceClose; then it waits for the calls.
Close ==
    /\ "close" \in Faults
    /\ ~closed /\ closed' = TRUE
    /\ UNCHANGED <<engine, notices, call, cancelled, forced, session, server>>

-----------------------------------------------------------------------------
Steps(r) ==
    \/ IsClosed(r) \/ Register(r) \/ WaitAck(r) \/ FirstSend(r)
    \/ LoopEnds(r) \/ Resend(r) \/ Final(r) \/ Leave(r)

Next ==
    \/ \E r \in Requests : Invoke(r) \/ Steps(r) \/ Cancel(r) \/ TimePasses(r)
    \/ \E i \in Ids : NotifyAcks(i)
    \/ \E i \in Ids, kind \in Outcomes \cup {"salt", "time"} : Notify(i, kind)
    \/ \E r \in Requests, n \in 1..MaxAttempts, kind \in Kinds : CallHandler(r, n, kind)
    \/ Rotate
    \/ SessionCreated
    \/ ReqCancel
    \/ Close

Spec == Init /\ [][Next]_vars

\* The goroutines run and the timer fires; nothing is assumed of the server.
LiveSpec ==
    /\ Spec
    /\ \A r \in Requests : WF_vars(Steps(r))

-----------------------------------------------------------------------------
(* Properties                                                                 *)

Ended(r) == pc[r] \in {"idle", "ended"}

\* A request is executed at most once, however often it is sent again: copies
\* and the repetition after a change of salt keep the id, and a new id is used only
\* after the server refused the old one for its time.  The exception is an id made
\* before the offset was known that the server refused and executed, because its
\* time became or ceased to be acceptable between two copies: the code has no
\* provision for it.  With a known offset there is none.
ExecutedOnce ==
    \A done, other \in executed :
        done[1][1] = other[1][1] /\ done[1][2] < other[1][2] =>
            done[1] \in refused \ known

\* Invoke succeeds only if the server executed this request without error, not
\* on an acknowledgement or on the answer to an earlier attempt that failed.
SuccessIsReal ==
    \A r \in Requests :
        At(r, "ended") /\ result[r] = "ok" => <<Id(r), "ok">> \in executed

\* No call stays answered, or stays in an engine that is closed by force, for ever:
\* it goes on with another attempt or ends, also one that passed isClosed before.
CallsEnd ==
    \A r \in Requests : []<>(Ended(r) \/ (answer[r] = None /\ ~forced))
=============================================================================
