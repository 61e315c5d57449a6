--------------------------- MODULE ConnectionPool ---------------------------
(* pkg/gotd/pool: the connections to one data centre (DC) and the requests    *)
(* that share them.                                                           *)
(*                                                                            *)
(* A step is what happens under c.mu, under the mutex of the reqMap, or       *)
(* between two of these.  transfer deletes a request and fills its channel in *)
(* one step: whoever finds the request deleted waits for the channel.  dead   *)
(* is one step with the return of Run: what precedes c.mu is seen by nobody.  *)
(* The contexts of the callers matter only in the two selects of acquire,     *)
(* where they may be done at any time.                                        *)
EXTENDS Integers, SequencesExt, FiniteSetsExt

CONSTANTS
    Requests,  \* the callers of Invoke, each with one call at a time
    Conns,     \* bound: numbers of connections; one that nobody refers to is reused
    Limit,     \* c.max; 0 means unlimited
    MaxCalls   \* bound: calls of Invoke

ASSUME PoolConstants ==
    /\ Conns \subseteq Nat \ {0}
    /\ Limit \in Nat /\ MaxCalls \in Nat

VARIABLES
    free,       \* c.free
    total,      \* c.total
    running,    \* the connections that are not deleted (and Dead not closed)
    ready,      \* those of the connections being created that are ready
    abandoned,  \* history: created for a request that was cancelled meanwhile
    freeReq,    \* c.freeReq: the requests that no connection was found for yet
    chan,       \* the channel of each request in freeReq
    woken,      \* the waiting requests whose channel of c.stuck was closed
    missed,     \* history: the requests that were queued, but not in the select
                \* yet, when a connection died
    pc,         \* where each request is in Invoke and acquire
    conn,       \* the connection it has
    calls,      \* how many calls of Invoke there were
    closed      \* c.closed, and c.ctx is done

pool == <<free, total, running, abandoned>>
queue == <<freeReq, chan>>
signal == <<woken, missed>>
request == <<pc, conn>>
dc == <<calls, closed>>
vars == <<pool, ready, queue, signal, request, dc>>

\* No connection.
None == 0

\* popped: before the look at Dead; creating: in the select of the 2nd case;
\* queued and waiting: before and in that of the 3rd; stuck and leaving: the
\* wait has ended, the request is not deleted yet.
Places ==
    {"idle", "acquire", "popped", "creating", "queued", "waiting", "stuck",
     "leaving", "using", "returning"}

\* NewDC.
Init ==
    /\ free = <<>> /\ total = 0 /\ running = {} /\ ready = {} /\ abandoned = {}
    /\ freeReq = {} /\ chan = [r \in Requests |-> None]
    /\ woken = {} /\ missed = {}
    /\ pc = [r \in Requests |-> "idle"] /\ conn = [r \in Requests |-> None]
    /\ calls = 0 /\ closed = FALSE

At(r, place) == pc[r] = place
Go(r, place) == pc' = [pc EXCEPT ![r] = place]
Take(r, c) == conn' = [conn EXCEPT ![r] = c]

Holders(c) == {r \in Requests : conn[r] = c}
Addressees(c) == {r \in Requests : chan[r] = c}

-----------------------------------------------------------------------------
(* The connections                                                            *)

\* c.free without the connection, which is in it once at most.
Without(c) ==
    LET found == {i \in DOMAIN free : free[i] = c}
    IN IF found = {} THEN free ELSE RemoveAt(free, CHOOSE i \in found : TRUE)

\* The part of dead under c.mu, with stuck.Reset for those in the select.
Delete(c, told) ==
    /\ running' = running \ {c}
    /\ total' = total - 1
    /\ free' = Without(c)
    /\ abandoned' = abandoned \ {c}
    /\ woken' = woken \cup told
    /\ missed' = missed \cup {r \in Requests : At(r, "queued")}

BadDeadSilent(c) ==
    \/ c \notin running /\ UNCHANGED <<pool, signal>>
    \/ c \in running /\ Delete(c, {})

Dead(c) ==
    \/ c \notin running /\ UNCHANGED <<pool, signal>>
    \/ c \in running /\ Delete(c, {r \in Requests : At(r, "waiting")})

\* Run returns, and the goroutine of createConnection calls dead.
RunReturns(c) ==
    /\ c \in running
    /\ Dead(c)
    /\ UNCHANGED <<ready, queue, request, dc>>

\* The connection is ready (external).
BecomesReady(c) ==
    /\ c \in running \ ready
    /\ \E r \in Holders(c) : At(r, "creating")
    /\ ready' = ready \cup {c}
    /\ UNCHANGED <<pool, queue, signal, request, dc>>

\* release: to a request that waits, whichever the map yields, or to c.free.
Release(c) ==
    \/ \E w \in freeReq :
          /\ freeReq' = freeReq \ {w}
          /\ chan' = [chan EXCEPT ![w] = c]
          /\ UNCHANGED free
    \/ freeReq = {} /\ free' = Append(free, c) /\ UNCHANGED queue

-----------------------------------------------------------------------------
(* acquire                                                                    *)

\* 1st case.
PopFree(r) ==
    /\ At(r, "acquire") /\ free # <<>>
    /\ Take(r, Last(free)) /\ Go(r, "popped")
    /\ free' = Front(free)
    /\ UNCHANGED <<total, running, abandoned, ready, queue, signal, dc>>

\* It may have died in use, before it was released.
CheckPopped(r) ==
    /\ At(r, "popped")
    /\ \/ /\ conn[r] \notin running
          /\ Dead(conn[r])
          /\ Take(r, None) /\ Go(r, "acquire")
       \/ conn[r] \in running /\ Go(r, "using") /\ UNCHANGED <<pool, signal, conn>>
    /\ UNCHANGED <<ready, queue, dc>>

\* Mutant: one too many.
BadMayCreate == Limit < 1 \/ total <= Limit

MayCreate == Limit < 1 \/ total < Limit

\* The numbers that nobody refers to.
Unused ==
    {c \in Conns \ (running \cup ToSet(free)) : Holders(c) = {} /\ Addressees(c) = {}}

NextConn == CHOOSE c \in Unused : TRUE

\* 2nd case, with createConnection.
Create(r) ==
    /\ At(r, "acquire") /\ free = <<>>
    /\ MayCreate /\ Unused # {}
    /\ total' = total + 1
    /\ running' = running \cup {NextConn}
    /\ Take(r, NextConn) /\ Go(r, "creating")
    /\ UNCHANGED <<free, abandoned, ready, queue, signal, dc>>

\* The select returns conn.Ready() or conn.Dead().
Created(r) ==
    /\ At(r, "creating")
    /\ \/ conn[r] \in ready /\ Go(r, "using") /\ UNCHANGED <<pool, signal, conn>>
       \/ /\ conn[r] \notin running
          /\ Dead(conn[r])
          /\ Take(r, None) /\ Go(r, "acquire")
    /\ ready' = ready \ {conn[r]}
    /\ UNCHANGED <<queue, dc>>

\* A context is done: the connection is left running, and nobody has it.
CreateCancelled(r) ==
    /\ At(r, "creating")
    /\ abandoned' = abandoned \cup ({conn[r]} \cap running)
    /\ ready' = ready \ {conn[r]}
    /\ Take(r, None) /\ Go(r, "idle")
    /\ UNCHANGED <<free, total, running, queue, signal, dc>>

\* 3rd case: freeReq.request, under c.mu.
Request(r) ==
    /\ At(r, "acquire") /\ free = <<>>
    /\ ~MayCreate
    /\ freeReq' = freeReq \cup {r}
    /\ Go(r, "queued")
    /\ UNCHANGED <<pool, ready, chan, signal, conn, dc>>

\* The select evaluates c.stuck.Ready(), after c.mu was released.
EnterSelect(r) ==
    /\ At(r, "queued") /\ Go(r, "waiting")
    /\ UNCHANGED <<pool, ready, queue, signal, conn, dc>>

LeaveSelect(r, place) ==
    /\ At(r, "waiting") /\ Go(r, place)
    /\ woken' = woken \ {r} /\ missed' = missed \ {r}
    /\ UNCHANGED <<pool, ready, freeReq, dc>>

\* conn := <-ch
Receive(r) ==
    /\ chan[r] # None
    /\ Take(r, chan[r])
    /\ chan' = [chan EXCEPT ![r] = None]

\* The select returns ch,
Served(r) == LeaveSelect(r, "using") /\ Receive(r)

\* c.stuck.Ready(),
Stuck(r) == LeaveSelect(r, "stuck") /\ r \in woken /\ UNCHANGED <<chan, conn>>

\* Mutant: only the caller's context is looked at.
BadWaitCancelled(r) == LeaveSelect(r, "leaving") /\ ~closed /\ UNCHANGED <<chan, conn>>

\* ctx.Done() or c.ctx.Done().
WaitCancelled(r) == LeaveSelect(r, "leaving") /\ UNCHANGED <<chan, conn>>

\* Mutant: a connection that was sent meanwhile is not received.
BadDeleteRequest(r) ==
    /\ pc[r] \in {"stuck", "leaving"}
    /\ freeReq' = freeReq \ {r}
    /\ chan' = [chan EXCEPT ![r] = None]
    /\ Go(r, IF At(r, "stuck") THEN "acquire" ELSE "idle")
    /\ UNCHANGED <<pool, ready, signal, conn, dc>>

\* freeReq.delete, and if transfer was faster, the connection: it is used by a
\* request that was woken, given back by one that was cancelled.
DeleteRequest(r) ==
    /\ pc[r] \in {"stuck", "leaving"}
    /\ \/ /\ r \in freeReq
          /\ freeReq' = freeReq \ {r}
          /\ Go(r, IF At(r, "stuck") THEN "acquire" ELSE "idle")
          /\ UNCHANGED <<chan, conn>>
       \/ /\ r \notin freeReq
          /\ Receive(r)
          /\ Go(r, IF At(r, "stuck") THEN "using" ELSE "returning")
          /\ UNCHANGED freeReq
    /\ UNCHANGED <<pool, ready, signal, dc>>

-----------------------------------------------------------------------------
(* Invoke and Close                                                           *)

Invoke(r) ==
    /\ At(r, "idle") /\ Go(r, "acquire")
    /\ ~closed
    /\ calls < MaxCalls /\ calls' = calls + 1
    /\ UNCHANGED <<pool, ready, queue, signal, conn, closed>>

\* conn.Invoke has returned, or the wait was cancelled: release and return.
Finish(r) ==
    /\ pc[r] \in {"using", "returning"} /\ Go(r, "idle")
    /\ Release(conn[r])
    /\ Take(r, None)
    /\ UNCHANGED <<total, running, abandoned, ready, signal, dc>>

\* Close, up to the wait for the connections.
Close ==
    /\ ~closed /\ closed' = TRUE
    /\ UNCHANGED <<pool, ready, queue, signal, request, calls>>

-----------------------------------------------------------------------------
Next ==
    \/ \E c \in Conns : RunReturns(c) \/ BecomesReady(c)
    \/ \E r \in Requests :
          \/ Invoke(r) \/ Finish(r)
          \/ PopFree(r) \/ CheckPopped(r)
          \/ Create(r) \/ Created(r) \/ CreateCancelled(r)
          \/ Request(r) \/ EnterSelect(r)
          \/ Served(r) \/ Stuck(r) \/ WaitCancelled(r) \/ DeleteRequest(r)
    \/ Close

Spec == Init /\ [][Next]_vars

\* The goroutine of a request, without the caller's context.
Steps(r) ==
    \/ PopFree(r) \/ CheckPopped(r) \/ Create(r) \/ Created(r) \/ Request(r)
    \/ EnterSelect(r) \/ Served(r) \/ Stuck(r) \/ DeleteRequest(r) \/ Finish(r)
    \/ closed /\ WaitCancelled(r)

\* Goroutines run, a request over a connection ends, a new connection becomes
\* ready or dies, and select does not avoid the end of c.ctx for ever.
LiveSpec ==
    /\ Spec
    /\ \A r \in Requests : WF_vars(Steps(r)) /\ SF_vars(closed /\ CreateCancelled(r))
    /\ \A c \in Conns : WF_vars(BecomesReady(c))

-----------------------------------------------------------------------------
(* Properties                                                                 *)

Queued(r) == pc[r] \in {"queued", "waiting"}

\* c.total counts the connections that run, so it keeps to the limit and the
\* panic in dead ("remaining can't be less than zero") is unreachable, although
\* dead is called for a connection by its goroutine and by whoever finds it dead.
TotalIsExact ==
    /\ total = Cardinality(running)
    /\ Limit > 0 => total <= Limit

\* "a connection is on its way and must not be dropped" (acquire): every
\* running connection is in the pool or with a request that will give it back,
\* unless its creator was cancelled before it was ready.
NothingLost ==
    \A c \in running \ abandoned :
        \/ c \in ToSet(free)
        \/ \E r \in Holders(c) : pc[r] # "idle"
        \/ \E r \in Addressees(c) : Queued(r) \/ pc[r] \in {"stuck", "leaving"}

\* A request does not wait for ever, unless it missed the death of the last
\* connection (acquire looks at c.stuck after the lock is released) or a
\* connection was abandoned.
EveryoneServed ==
    \A r \in Requests : Queued(r) ~> ~Queued(r) \/ r \in missed \/ abandoned # {}

\* Close ends all calls, the waiting ones and those that create a connection.
CloseEndsCalls == closed ~> \A r \in Requests : At(r, "idle")
=============================================================================
