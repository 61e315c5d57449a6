-------------------------- MODULE PresenceManager --------------------------
(* pkg/presence/presence.go: the Manager that carries the online status of    *)
(* remote users to the Matrix homeserver.                                     *)
(*                                                                            *)
(* Update and Activity are called by the update handlers of every login; Tick *)
(* runs on a goroutine of its own.  Tick looks at the entries under the lock  *)
(* but sends without it, so the handlers run between its requests.            *)
(*                                                                            *)
(* Time is relative: "ago" and "touched" count the time since an event,       *)
(* "until" the time that is left, so that time itself needs no bound.         *)
EXTENDS Integers, FiniteSetsExt

CONSTANTS
    Users,           \* the remote users
    MaxTracked,      \* the values of cfg.MaxTracked that are considered
    Debounce,        \* cfg.Debounce
    Refresh,         \* cfg.Refresh
    Forget,          \* the hour after which a settled entry is deleted
    Rate,            \* tokens the bucket gains in a unit of time
    Burst,           \* cfg.Burst
    ActivityOnline,  \* how long an activity counts as online
    Terms,           \* the times left that the network may report with online
    MaxUpdates       \* bound, by the size: reports of the network and of activity

ASSUME PresenceConstants ==
    /\ MaxTracked \subseteq Nat \ {0}
    /\ Debounce \in Nat /\ Refresh \in Nat /\ Debounce <= Refresh
    /\ Forget \in Nat /\ Debounce <= Forget
    /\ Rate \in Nat \ {0} /\ Burst \in Nat \ {0}
    /\ ActivityOnline \in Nat \ {0}
    /\ Terms \subseteq Nat
    /\ MaxUpdates \in [MaxTracked -> Nat]

\* time.Time{}: until the remote says otherwise.  Above every other time left.
Forever == 1 + Max(Terms \cup {ActivityOnline})

VARIABLES
    maxTracked, \* cfg.MaxTracked
    entries,    \* m.entries
    tokens,     \* m.limiter
    due,        \* the local variable "due" of Tick, without what was sent
    sending,    \* the request that runs
    acting,     \* calls of Activity between their look at the entry and Update
    updates,    \* how many reports there were
    shown,      \* what the homeserver was told last (external)
    since,      \* history: the time since the last request for each ghost
    forgotten,  \* history: the ghosts whose entry went, until a request for them
                \* ends in an entry again
    orphaned,   \* history: those among them with a request due or running
    wentOnline  \* history: reported online since an offline was last due

history == <<since, forgotten, orphaned, wentOnline>>
vars == <<maxTracked, entries, tokens, due, sending, acting, updates, shown, history>>

None == [none |-> TRUE]

\* NewManager.
Init ==
    /\ maxTracked \in MaxTracked
    /\ entries = [u \in Users |-> None]
    /\ tokens = Burst
    /\ due = {}
    /\ sending = None
    /\ acting = [u \in Users |-> Forever]
    /\ updates = 0
    /\ shown = [u \in Users |-> "none"]
    /\ since = [u \in Users |-> Debounce]
    /\ forgotten = {} /\ orphaned = {}
    /\ wentOnline = [u \in Users |-> FALSE]

Tracked == {u \in Users : entries[u] # None}

-----------------------------------------------------------------------------
(* Update and Activity                                                        *)

Settled(e) == e.desired # "online" /\ e.sent = e.desired

\* evictOne: the settled entry that was not touched for longest.
Evictable ==
    LET settled == {u \in Tracked : Settled(entries[u])}
    IN {u \in settled : \A v \in settled : entries[v].touched <= entries[u].touched}

\* Mutant: someone first seen offline is treated like any change.
BadNewEntry(presence) ==
    [desired |-> "none", sent |-> "none", until |-> Forever, ago |-> Refresh,
     touched |-> 0]

\* Someone first seen offline counts as told; someone first seen online has
\* never been sent, which is long ago.
NewEntry(presence) ==
    IF presence = "online"
    THEN [desired |-> "none", sent |-> "none", until |-> Forever,
          ago |-> Refresh, touched |-> 0]
    ELSE [desired |-> "none", sent |-> presence, until |-> Forever,
          ago |-> 0, touched |-> 0]

SetDesired(e, presence, until) ==
    [e EXCEPT !.desired = presence, !.until = until, !.touched = 0]

\* The entries that a step removes, and those of a user who was sent to.
Forgets ==
    LET gone == {v \in Tracked : entries'[v] = None}
        busy == {p.key : p \in due} \cup
                (IF sending = None THEN {} ELSE {sending.key})
    IN /\ forgotten' = forgotten \cup gone
       /\ orphaned' = orphaned \cup (gone \cap busy)

Remembers(u) ==
    /\ forgotten' = forgotten \ ({u} \cap Tracked)
    /\ orphaned' = orphaned \ ({u} \cap Tracked)

\* The body of Update.  "unavailable" has become "offline".
DoUpdate(u, presence, until) ==
    /\ \/ /\ u \in Tracked
          /\ entries' = [entries EXCEPT ![u] = SetDesired(@, presence, until)]
       \/ /\ u \notin Tracked
          /\ Cardinality(Tracked) < maxTracked
          /\ entries' = [entries EXCEPT
                            ![u] = SetDesired(NewEntry(presence), presence, until)]
       \/ /\ u \notin Tracked
          /\ Cardinality(Tracked) >= maxTracked
          /\ \E v \in Evictable :
                entries' = [entries EXCEPT ![v] = None,
                               ![u] = SetDesired(NewEntry(presence), presence, until)]
       \/ /\ u \notin Tracked
          /\ Cardinality(Tracked) >= maxTracked
          /\ Evictable = {}
          /\ UNCHANGED entries
    /\ wentOnline' = [wentOnline EXCEPT ![u] = @ \/ presence = "online"]
    /\ Forgets

\* handleUserStatus: the network reports a status.
Update(u, presence, until) ==
    /\ updates < MaxUpdates[maxTracked]
    /\ updates' = updates + 1
    /\ presence = "offline" => until = Forever
    /\ DoUpdate(u, presence, until)
    /\ UNCHANGED <<maxTracked, tokens, due, sending, acting, shown, since>>

Longer(u, until) ==
    u \in Tracked /\ entries[u].desired = "online" /\ entries[u].until > until

\* Activity, under the lock: does the entry last longer than this activity?
ActivityLook(u, until) ==
    /\ updates < MaxUpdates[maxTracked]
    /\ acting[u] = Forever
    /\ ~Longer(u, until)
    /\ updates' = updates + 1
    /\ acting' = [acting EXCEPT ![u] = until]
    /\ UNCHANGED <<maxTracked, entries, tokens, due, sending, shown, history>>

\* Activity, after the lock was released: Update.
ActivityUpdate(u) ==
    /\ acting[u] # Forever
    /\ DoUpdate(u, "online", acting[u])
    /\ acting' = [acting EXCEPT ![u] = Forever]
    /\ UNCHANGED <<maxTracked, tokens, due, sending, updates, shown, since>>

-----------------------------------------------------------------------------
(* Tick                                                                       *)

Expire(e) ==
    IF e.desired = "online" /\ e.until = 0
    THEN [e EXCEPT !.desired = "offline", !.until = Forever] ELSE e

Changed(e) == e.desired # e.sent /\ e.ago >= Debounce

\* Mutant: an online state is sent only once.
BadStale(e) == FALSE

Stale(e) == e.desired = "online" /\ e.sent = "online" /\ e.ago >= Refresh

Old(e) == Settled(e) /\ e.touched > Forget

\* Under the lock: online states expire, old entries go, and what must be sent
\* is noted.
Tick ==
    /\ due = {}
    /\ sending = None
    /\ LET expired == [u \in Users |-> IF u \in Tracked THEN Expire(entries[u]) ELSE None]
           send    == {u \in Tracked : Changed(expired[u]) \/ Stale(expired[u])}
       IN /\ entries' = [u \in Users |->
                            IF u \in Tracked \ send /\ Old(expired[u])
                            THEN None ELSE expired[u]]
          /\ due' = {[key |-> u, presence |-> expired[u].desired, ago |-> expired[u].ago]
                        : u \in send}
          /\ wentOnline' = [u \in Users |-> wentOnline[u] /\
                                ~(u \in send /\ expired[u].desired = "offline")]
    /\ Forgets
    /\ UNCHANGED <<maxTracked, tokens, sending, acting, updates, shown, since>>

\* Online first, then what waited longest.
Before(p, q) ==
    \/ p.presence = "online" /\ q.presence # "online"
    \/ (p.presence = "online" <=> q.presence = "online") /\ p.ago > q.ago

First == {p \in due : \A q \in due : ~Before(q, p)}

\* The limiter lets the next request through.
Send ==
    /\ sending = None
    /\ tokens > 0
    /\ \E p \in First :
          /\ sending' = p
          /\ due' = due \ {p}
    /\ tokens' = tokens - 1
    /\ UNCHANGED <<maxTracked, entries, acting, updates, shown, history>>

\* It does not: the rest is deferred to the next Tick.
Defer ==
    /\ sending = None
    /\ due # {}
    /\ tokens = 0
    /\ due' = {}
    /\ wentOnline' = [u \in Users |-> wentOnline[u] \/
                          \E p \in due : p.key = u /\ p.presence = "offline"]
    /\ UNCHANGED <<maxTracked, entries, tokens, sending, acting, updates, shown,
                   since, forgotten, orphaned>>

\* Mutant: what is wanted now counts as sent.
BadRequested(e, sent) == [e EXCEPT !.ago = 0, !.sent = e.desired]

\* A request for the entry has ended.
Requested(e, sent) == [e EXCEPT !.ago = 0, !.sent = sent]

\* The request succeeds; the entry may have changed meanwhile, or be gone.
SendOk ==
    /\ sending # None
    /\ LET u == sending.key
       IN /\ shown' = [shown EXCEPT ![u] = sending.presence]
          /\ since' = [since EXCEPT ![u] = 0]
          /\ Remembers(u)
          /\ entries' = IF u \in Tracked
                        THEN [entries EXCEPT ![u] = Requested(@, sending.presence)]
                        ELSE entries
    /\ sending' = None
    /\ UNCHANGED <<maxTracked, tokens, due, acting, updates, wentOnline>>

\* Mutant: a failed request leaves sentAt alone.
BadSendFails ==
    /\ sending # None
    /\ since' = [since EXCEPT ![sending.key] = 0]
    /\ Remembers(sending.key)
    /\ wentOnline' = [wentOnline EXCEPT
                          ![sending.key] = @ \/ sending.presence = "offline"]
    /\ sending' = None
    /\ UNCHANGED <<maxTracked, entries, tokens, due, acting, updates, shown>>

\* It fails: sentAt moves all the same, so that the debounce delays the retry.
SendFails ==
    /\ sending # None
    /\ LET u == sending.key
       IN /\ since' = [since EXCEPT ![u] = 0]
          /\ Remembers(u)
          /\ entries' = IF u \in Tracked
                        THEN [entries EXCEPT ![u] = Requested(@, @.sent)] ELSE entries
          /\ wentOnline' = [wentOnline EXCEPT ![u] = @ \/ sending.presence = "offline"]
    /\ sending' = None
    /\ UNCHANGED <<maxTracked, tokens, due, acting, updates, shown>>

-----------------------------------------------------------------------------
(* Time                                                                       *)

Capped(n, cap) == IF n < cap THEN n + 1 ELSE n
Less(t) == IF t = Forever \/ t = 0 THEN t ELSE t - 1

\* A unit of time passes; ages are counted only as far as they matter.
TimePasses ==
    /\ entries' = [u \in Users |->
          IF u \in Tracked
          THEN [entries[u] EXCEPT !.ago = Capped(@, Refresh), !.until = Less(@),
                                  !.touched = Capped(@, Forget + 1)]
          ELSE None]
    /\ tokens' = IF tokens + Rate < Burst THEN tokens + Rate ELSE Burst
    /\ acting' = [u \in Users |-> Less(acting[u])]
    /\ since' = [u \in Users |-> Capped(since[u], Debounce)]
    /\ UNCHANGED <<maxTracked, due, sending, updates, shown, forgotten,
                   orphaned, wentOnline>>

-----------------------------------------------------------------------------
Next ==
    \/ \E u \in Users, presence \in {"online", "offline"} :
       \E until \in Terms \cup {Forever} :
          Update(u, presence, until)
    \/ \E u \in Users, until \in 1..ActivityOnline : ActivityLook(u, until)
    \/ \E u \in Users : ActivityUpdate(u)
    \/ Tick
    \/ Send
    \/ Defer
    \/ SendOk
    \/ SendFails
    \/ TimePasses

Spec == Init /\ [][Next]_vars

\* The goroutines run, time passes, and a request that is made again and again
\* succeeds in the end.
LiveSpec ==
    /\ Spec
    /\ WF_vars(Tick)
    /\ WF_vars(Send \/ Defer)
    /\ WF_vars(SendOk \/ SendFails)
    /\ \A u \in Users : SF_vars(sending # None /\ sending.key = u /\ SendOk)
    /\ \A u \in Users : WF_vars(ActivityUpdate(u))
    /\ WF_vars(TimePasses)

-----------------------------------------------------------------------------
(* Properties                                                                 *)

\* "An offline is only sent when we saw the user go offline, never re-sent,
\* and never sent for someone we first see offline" (Update): whenever an
\* offline falls due, the user was reported online since the last one that
\* was delivered, also across deleted and evicted entries.
OfflineIsNews ==
    [][\A p \in due' \ due : p.presence = "offline" => wentOnline[p.key]]_vars

\* Two requests for a ghost are at least Debounce apart, failed ones included,
\* as long as its entry is kept between them.
DebounceWhileTracked ==
    [][sending' # None /\ sending = None /\ sending'.key \notin forgotten =>
          since[sending'.key] >= Debounce]_vars

\* Once the reports stop, the homeserver is told the last one of every user with
\* an entry (or that it expired), whatever requests failed or overtook a report in
\* between.  Who has no entry, because it was evicted or because the report found
\* no place at MaxTracked, is at least not left online.  A user whose entry was
\* evicted while a request was due or ran is left out until the next one.
Converges ==
    <>[](\A u \in Users \ orphaned :
            IF u \in Tracked
            THEN /\ entries[u].sent = entries[u].desired
                 /\ \/ shown[u] = entries[u].desired
                    \/ shown[u] = "none" /\ entries[u].desired = "offline"
            ELSE shown[u] # "online")

\* "Re-asserts online periodically while the remote still reports the user as
\* online": the homeserver, which lets an online decay, is told again and again.
OnlineIsRepeated ==
    \A u \in Users :
        []<>(u \in Tracked /\ entries[u].desired = "online" => since[u] = 0)
=============================================================================
