--------------------------- MODULE SeenReporter -----------------------------
(* pkg/presence/seen.go: the times at which the network last saw a user, on   *)
(* their way to the homeserver.  Note is called by any goroutine that handles *)
(* a status; it remembers a time under the lock, then queues it without.      *)
EXTENDS Integers, Sequences, FiniteSets

CONSTANTS
    Users,
    MaxTime,   \* bound: the times are 1..MaxTime
    Capacity,  \* places in r.queue (4096 in the code)
    Callers    \* the goroutines that may call Note

ASSUME SeenConstants ==
    /\ IsFiniteSet(Users) /\ IsFiniteSet(Callers)
    /\ MaxTime \in Nat /\ Capacity \in Nat \ {0}

VARIABLES
    active,    \* the network: when each user was last active, 0 if never
    last,      \* r.last, 0 for a user without an entry
    held,      \* the status that a caller has of the network
    noting,    \* calls of Note after isNews
    queue,     \* r.queue
    disabled,  \* r.disabled
    sending,   \* the item that Run sends
    told,      \* what the homeserver keeps for each user: the time it took last
    failed,    \* history: the time of each user's last failed request
    queued,    \* history: the time of each user that was queued last
    newest     \* history: the latest time of each user that was ever queued

network == <<active, held>>
results == <<told, failed>>
order == <<queued, newest>>
vars == <<network, last, noting, queue, disabled, sending, results, order>>

Items == Users \X (1..MaxTime)
Idle == <<"idle">>

\* NewSeenReporter.
Init ==
    /\ active = [u \in Users |-> 0] /\ last = [u \in Users |-> 0]
    /\ held = [c \in Callers |-> Idle] /\ noting = [c \in Callers |-> Idle]
    /\ queue = <<>> /\ disabled = FALSE /\ sending = Idle
    /\ told = [u \in Users |-> 0] /\ failed = [u \in Users |-> 0]
    /\ queued = [u \in Users |-> 0] /\ newest = [u \in Users |-> 0]

\* The network sees a user again.
Seen(u) ==
    /\ active[u] < MaxTime
    /\ active' = [active EXCEPT ![u] = @ + 1]
    /\ UNCHANGED <<held, last, noting, queue, disabled, sending, results, order>>

\* A goroutine gets a status, from an update or a snapshot (one that is news).
Status(c, u) ==
    /\ held[c] = Idle /\ noting[c] = Idle
    /\ active[u] > last[u]
    /\ held' = [held EXCEPT ![c] = <<u, active[u]>>]
    /\ UNCHANGED <<active, last, noting, queue, disabled, sending, results, order>>

\* Note up to the end of isNews.
Note(c) ==
    /\ held[c] # Idle /\ held' = [held EXCEPT ![c] = Idle]
    /\ LET u == held[c][1]
           at == held[c][2]
       IN IF ~disabled /\ at > last[u]
          THEN /\ last' = [last EXCEPT ![u] = at]
               /\ noting' = [noting EXCEPT ![c] = <<u, at>>]
          ELSE UNCHANGED <<last, noting>>
    /\ UNCHANGED <<active, queue, disabled, sending, results, order>>

Returns(c) == noting' = [noting EXCEPT ![c] = Idle]

Enqueue(c) ==
    /\ noting[c] # Idle /\ Len(queue) < Capacity
    /\ queue' = Append(queue, noting[c]) /\ Returns(c)
    /\ LET u == noting[c][1]
           at == noting[c][2]
       IN /\ queued' = [queued EXCEPT ![u] = at]
          /\ newest' = [newest EXCEPT ![u] = IF @ < at THEN at ELSE @]
    /\ UNCHANGED <<network, last, disabled, sending, results>>

\* Mutant: a full queue drops the time for good.
BadOverflow(c) ==
    /\ noting[c] # Idle /\ Len(queue) = Capacity /\ Returns(c)
    /\ UNCHANGED <<network, last, queue, disabled, sending, results, order>>

\* Full: forget that it was noted.
Overflow(c) ==
    /\ noting[c] # Idle /\ Len(queue) = Capacity /\ Returns(c)
    /\ last' = [last EXCEPT ![noting[c][1]] = 0]
    /\ UNCHANGED <<network, queue, disabled, sending, results, order>>

\* Run receives an item; it returns after the homeserver refused one.
Receive ==
    /\ ~disabled /\ sending = Idle /\ queue # <<>>
    /\ sending' = Head(queue) /\ queue' = Tail(queue)
    /\ UNCHANGED <<network, last, noting, disabled, results, order>>

\* Each item is a PUT of its own, whatever was put before it.
Put(times) == [times EXCEPT ![sending[1]] = sending[2]]

Sent ==
    /\ sending # Idle /\ sending' = Idle
    /\ told' = Put(told)
    /\ UNCHANGED <<network, last, noting, queue, disabled, failed, order>>

\* The error is logged, and the time is not sent again.
Failed ==
    /\ sending # Idle /\ sending' = Idle
    /\ failed' = Put(failed)
    /\ UNCHANGED <<network, last, noting, queue, disabled, told, order>>

Unsupported ==
    /\ sending # Idle /\ sending' = Idle
    /\ disabled' = TRUE
    /\ UNCHANGED <<network, last, noting, queue, results, order>>

-----------------------------------------------------------------------------
Calls(c) == Note(c) \/ Enqueue(c) \/ Overflow(c)
Run == Receive \/ Sent \/ Failed \/ Unsupported

Next ==
    \/ \E u \in Users : Seen(u) \/ \E c \in Callers : Status(c, u)
    \/ \E c \in Callers : Calls(c)
    \/ Run

Spec == Init /\ [][Next]_vars

\* The goroutines run, and "the network repeats the same time in every snapshot".
LiveSpec ==
    /\ Spec
    /\ WF_vars(Run)
    /\ \A c \in Callers : WF_vars(Calls(c))
    /\ \A u \in Users : SF_vars(\E c \in Callers : Status(c, u))

-----------------------------------------------------------------------------
(* Properties                                                                 *)

\* Two callers overtook each other between isNews and the queue (seen.go:80): the
\* older time was queued last.
Overtaken(u) == queued[u] < newest[u]

\* Where the homeserver takes the times, it is left with the latest of each user,
\* or the request for that one failed: none is lost to a full queue, or to a call
\* that noted an older time meanwhile.  Overtaken users are the exception: for
\* them the latest time was queued, but an older one after it.
LatestArrives ==
    <>[](disabled \/ \A u \in Users :
            \/ active[u] \in {told[u], failed[u]}
            \/ Overtaken(u) /\ newest[u] = active[u])

=============================================================================
