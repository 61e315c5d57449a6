----------------------- MODULE PresenceManagerProofs ------------------------
(* Proofs about PresenceManager, for every set of users, size of the map,     *)
(* rate, debounce and refresh time, and every number of reports.              *)
EXTENDS PresenceManager, TLAPS

Presences == {"online", "offline"}
TimesLeft == Nat \cup {Forever}

Entry == [desired : Presences, sent : Presences \cup {"none"}, until : TimesLeft,
          ago : Nat, touched : Nat]

Requests == [key : Users, presence : Presences, ago : Nat]

TypeOK ==
    /\ entries \in [Users -> Entry \cup {None}]
    /\ due \subseteq Requests
    /\ sending \in Requests \cup {None}
    /\ acting \in [Users -> TimesLeft]
    /\ since \in [Users -> Nat]
    /\ wentOnline \in [Users -> BOOLEAN]

\* The requests of this Tick that have not ended.
Unended == due \cup ({sending} \ {None})

\* sentAt of an entry is the time of the last request, or that is Debounce ago.
Paced ==
    \A u \in Users :
        \/ u \in forgotten \/ since[u] >= Debounce
        \/ u \in Tracked /\ entries[u].ago <= since[u]

\* What is due may be sent, for all that has happened since Tick noted it.
DueIsPaced ==
    \A p \in due : p.key \in forgotten \/ since[p.key] >= Debounce

\* Whom a request is for is tracked, or the entry went meanwhile.
Accounted == \A p \in Unended : p.key \in Tracked \cup forgotten

\* One Tick makes one request for each ghost.
OneEach ==
    /\ \A p, q \in due : p.key = q.key => p = q
    /\ sending # None => \A p \in due : p.key # sending.key

\* The user went online since the last offline, or the homeserver has been told
\* of that one, or will be.
News ==
    /\ \A u \in Tracked :
        \/ wentOnline[u]
        \/ /\ entries[u].desired = "offline"
           /\ \/ entries[u].sent = "offline"
              \/ \E p \in Unended : p.key = u /\ p.presence = "offline"
    /\ \A p \in Unended : p.presence = "online" => wentOnline[p.key]

Inv == TypeOK /\ Paced /\ DueIsPaced /\ Accounted /\ OneEach /\ News

-----------------------------------------------------------------------------
LEMMA NoEntryIsNone == \A e \in Entry : e # None
<1> SUFFICES ASSUME NEW e \in Entry PROVE e # None
  OBVIOUS
<1>1. "desired" \in DOMAIN e
  BY DEF Entry
<1>2. "desired" \notin DOMAIN None
  BY DEF None
<1> QED
  BY <1>1, <1>2

LEMMA NoRequestIsNone == \A p \in Requests : p # None
<1> SUFFICES ASSUME NEW p \in Requests PROVE p # None
  OBVIOUS
<1>1. "key" \in DOMAIN p
  BY DEF Requests
<1>2. "key" \notin DOMAIN None
  BY DEF None
<1> QED
  BY <1>1, <1>2

LEMMA InitInv == Init => Inv
<1> SUFFICES ASSUME Init PROVE Inv
  OBVIOUS
<1>1. TypeOK
  BY PresenceConstants DEF Init, TypeOK, TimesLeft
<1>2. Tracked = {} /\ Unended = {}
  BY DEF Init, Tracked, Unended
<1>3. Paced
  BY PresenceConstants DEF Init, Paced
<1> QED
  BY <1>1, <1>2, <1>3 DEF Init, Inv, DueIsPaced, Accounted, OneEach, News

-----------------------------------------------------------------------------
(* Update and Activity                                                        *)

\* What Update makes of the entry of the user, and of the others.
LEMMA UpdateFacts ==
    ASSUME TypeOK, NEW u \in Users, NEW presence \in Presences, NEW until \in TimesLeft,
           DoUpdate(u, presence, until)
    PROVE  /\ entries' \in [Users -> Entry \cup {None}]
           /\ \A v \in Users \ {u} :
                entries'[v] = entries[v] \/ (v \in Tracked /\ entries'[v] = None)
           /\ \/ entries'[u] = entries[u] /\ u \notin Tracked
              \/ u \in Tracked /\ entries'[u] = SetDesired(entries[u], presence, until)
              \/ /\ u \notin Tracked
                 /\ entries'[u] = SetDesired(NewEntry(presence), presence, until)
           /\ forgotten' = forgotten \cup {v \in Tracked : entries'[v] = None}
           /\ wentOnline' = [wentOnline EXCEPT ![u] = @ \/ presence = "online"]
<1>1. /\ wentOnline' = [wentOnline EXCEPT ![u] = @ \/ presence = "online"]
      /\ forgotten' = forgotten \cup {v \in Tracked : entries'[v] = None}
  BY DEF DoUpdate, Forgets
<1>2. NewEntry(presence) \in [desired : {"none"}, sent : Presences \cup {"none"},
                              until : TimesLeft, ago : Nat, touched : Nat]
  BY PresenceConstants DEF NewEntry, Presences, TimesLeft
<1>3. SetDesired(NewEntry(presence), presence, until) \in Entry
  BY <1>2 DEF SetDesired, Entry
<1>4. u \in Tracked => SetDesired(entries[u], presence, until) \in Entry
  BY DEF TypeOK, Tracked, SetDesired, Entry
<1>5. CASE u \in Tracked
  <2>1. entries' = [entries EXCEPT ![u] = SetDesired(@, presence, until)]
    BY <1>5 DEF DoUpdate
  <2> QED
    BY <1>1, <1>4, <1>5, <2>1 DEF TypeOK
<1>6. CASE u \notin Tracked
  <2> DEFINE e == SetDesired(NewEntry(presence), presence, until)
  <2>1. \/ UNCHANGED entries
        \/ entries' = [entries EXCEPT ![u] = e]
        \/ \E v \in Tracked : entries' = [entries EXCEPT ![v] = None, ![u] = e]
    BY <1>6 DEF DoUpdate, Evictable
  <2>2. e \in Entry
    BY <1>3
  <2>3. Tracked \subseteq Users
    BY DEF Tracked
  <2> HIDE DEF e
  <2>4. CASE UNCHANGED entries
    BY <1>1, <1>6, <2>4 DEF TypeOK
  <2>5. CASE entries' = [entries EXCEPT ![u] = e]
    BY <1>1, <1>6, <2>2, <2>5 DEF TypeOK, e
  <2>6. ASSUME NEW v \in Tracked, entries' = [entries EXCEPT ![v] = None, ![u] = e]
        PROVE  /\ entries' \in [Users -> Entry \cup {None}]
               /\ entries'[u] = e /\ entries'[v] = None
               /\ \A w \in Users \ {u, v} : entries'[w] = entries[w]
    BY <1>6, <2>2, <2>3, <2>6 DEF TypeOK
  <2> QED
    BY <1>1, <1>6, <2>1, <2>3, <2>4, <2>5, <2>6 DEF e
<1> QED
  BY <1>5, <1>6

LEMMA UpdateInv ==
    ASSUME Inv, NEW u \in Users, NEW presence \in Presences, NEW until \in TimesLeft,
           DoUpdate(u, presence, until), UNCHANGED <<due, sending, since>>,
           acting' \in [Users -> TimesLeft]
    PROVE  Inv'
<1> USE DEF Inv
<1>1. /\ entries' \in [Users -> Entry \cup {None}]
      /\ \A v \in Users \ {u} :
           entries'[v] = entries[v] \/ (v \in Tracked /\ entries'[v] = None)
      /\ \/ entries'[u] = entries[u] /\ u \notin Tracked
         \/ u \in Tracked /\ entries'[u] = SetDesired(entries[u], presence, until)
         \/ /\ u \notin Tracked
            /\ entries'[u] = SetDesired(NewEntry(presence), presence, until)
      /\ forgotten' = forgotten \cup {v \in Tracked : entries'[v] = None}
      /\ wentOnline' = [wentOnline EXCEPT ![u] = @ \/ presence = "online"]
  BY UpdateFacts
<1>2. TypeOK'
  BY <1>1 DEF TypeOK
<1>3. Tracked' = {v \in Users : entries'[v] # None} /\ Tracked = {v \in Users : entries[v] # None}
  BY DEF Tracked
<1>4. UNCHANGED Unended
  BY DEF Unended
<1>5. \A v \in Users : wentOnline'[v] <=> wentOnline[v] \/ (v = u /\ presence = "online")
  BY <1>1 DEF TypeOK
<1>6. u \in Tracked => /\ SetDesired(entries[u], presence, until).desired = presence
                       /\ SetDesired(entries[u], presence, until).sent = entries[u].sent
                       /\ SetDesired(entries[u], presence, until).ago = entries[u].ago
  BY DEF TypeOK, Tracked, SetDesired, Entry
<1>7. /\ SetDesired(NewEntry(presence), presence, until).desired = presence
      /\ presence = "offline" =>
           SetDesired(NewEntry(presence), presence, until).sent = "offline"
  BY DEF SetDesired, NewEntry
<1>8. Paced'
  BY <1>1, <1>3, <1>6 DEF Paced
<1>9. DueIsPaced' /\ Accounted'
  BY <1>1, <1>3, <1>4 DEF DueIsPaced, Accounted
<1>10. OneEach'
  BY DEF OneEach
<1>11. News'
  <2>1. \A p \in Unended : p.key \in Users
    BY NoRequestIsNone DEF Unended, TypeOK, Requests
  <2>2. \A p \in Unended : p.presence = "online" => wentOnline'[p.key]
    BY <1>5, <2>1 DEF News
  <2>3. ASSUME NEW v \in Tracked'
        PROVE  \/ wentOnline'[v]
               \/ /\ entries'[v].desired = "offline"
                  /\ \/ entries'[v].sent = "offline"
                     \/ \E p \in Unended : p.key = v /\ p.presence = "offline"
    <3>1. CASE v # u
      BY <1>1, <1>3, <1>5, <3>1 DEF News
    <3>2. CASE v = u
      BY <1>1, <1>3, <1>5, <1>6, <1>7, <3>2 DEF News, Presences
    <3> QED
      BY <3>1, <3>2
  <2> QED
    BY <1>4, <2>2, <2>3 DEF News
<1> QED
  BY <1>2, <1>8, <1>9, <1>10, <1>11

-----------------------------------------------------------------------------
(* Tick and its requests                                                      *)

\* The entries after the online states expired, and whom a request is due for.
Expired == [u \in Users |-> IF u \in Tracked THEN Expire(entries[u]) ELSE None]
Noted == {u \in Tracked : Changed(Expired[u]) \/ Stale(Expired[u])}

LEMMA TickFacts ==
    ASSUME TypeOK, Tick
    PROVE  /\ entries' \in [Users -> Entry \cup {None}]
           /\ \A u \in Users \ Tracked : entries'[u] = None
           /\ \A u \in Tracked : Expired[u] \in Entry
           /\ \A u \in Noted : entries'[u] = Expired[u]
           /\ \A u \in Tracked : entries'[u] = Expired[u] \/ entries'[u] = None
           /\ due' = {[key |-> u, presence |-> Expired[u].desired, ago |-> Expired[u].ago]
                        : u \in Noted}
           /\ wentOnline' = [u \in Users |-> wentOnline[u] /\
                                ~(u \in Noted /\ Expired[u].desired = "offline")]
           /\ forgotten' = forgotten \cup {v \in Tracked : entries'[v] = None}
<1>1. \A u \in Tracked : Expired[u] = Expire(entries[u]) /\ Expired[u] \in Entry
  BY DEF Expired, Expire, Tracked, TypeOK, Entry, Presences, TimesLeft
<1>2. \A u \in Users \ Tracked : Expired[u] = None
  BY DEF Expired
<1>3. /\ entries' = [u \in Users |-> IF u \in Tracked \ Noted /\ Old(Expired[u])
                                     THEN None ELSE Expired[u]]
      /\ due' = {[key |-> u, presence |-> Expired[u].desired, ago |-> Expired[u].ago]
                   : u \in Noted}
      /\ wentOnline' = [u \in Users |-> wentOnline[u] /\
                           ~(u \in Noted /\ Expired[u].desired = "offline")]
      /\ forgotten' = forgotten \cup {v \in Tracked : entries'[v] = None}
  BY DEF Tick, Expired, Noted, Forgets
<1>4. Tracked \subseteq Users /\ Noted \subseteq Tracked
  BY DEF Tracked, Noted
<1> HIDE DEF Expired, Noted
<1> QED
  BY <1>1, <1>2, <1>3, <1>4

LEMMA TickInv ==
    ASSUME Inv, Tick
    PROVE  /\ Inv'
           /\ \A p \in due' \ due : p.presence = "offline" => wentOnline[p.key]
<1> USE DEF Inv
<1>1. /\ entries' \in [Users -> Entry \cup {None}]
      /\ \A u \in Users \ Tracked : entries'[u] = None
      /\ \A u \in Tracked : Expired[u] \in Entry
      /\ \A u \in Noted : entries'[u] = Expired[u]
      /\ \A u \in Tracked : entries'[u] = Expired[u] \/ entries'[u] = None
      /\ due' = {[key |-> u, presence |-> Expired[u].desired, ago |-> Expired[u].ago]
                   : u \in Noted}
      /\ wentOnline' = [u \in Users |-> wentOnline[u] /\
                           ~(u \in Noted /\ Expired[u].desired = "offline")]
      /\ forgotten' = forgotten \cup {v \in Tracked : entries'[v] = None}
  BY TickFacts
<1>2. due = {} /\ sending = None /\ UNCHANGED <<sending, acting, since>>
  BY DEF Tick
<1>3. Unended = {} /\ Unended' = due'
  BY <1>2 DEF Unended
<1>4. Tracked \subseteq Users /\ Noted \subseteq Tracked
  BY DEF Tracked, Noted
<1>5. Tracked' = {v \in Users : entries'[v] # None}
  BY DEF Tracked
<1>6. \A u \in Tracked : /\ Expired[u].sent = entries[u].sent
                         /\ Expired[u].ago = entries[u].ago
                         /\ Expired[u].desired \in Presences
                         /\ Expired[u].desired = "online" => entries[u].desired = "online"
                         /\ entries[u].desired = "offline" => Expired[u].desired = "offline"
  BY DEF Expired, Expire, Tracked, TypeOK, Entry, Presences
<1>7. \A u \in Noted : /\ Expired[u].ago >= Debounce
                       /\ Expired[u].desired # Expired[u].sent \/ Expired[u].desired = "online"
  BY <1>1, <1>4, PresenceConstants DEF Noted, Changed, Stale, Entry
<1>8. \A p \in due' : /\ p.key \in Noted /\ p \in Requests
                      /\ p = [key |-> p.key, presence |-> Expired[p.key].desired,
                              ago |-> Expired[p.key].ago]
  BY <1>1, <1>4 DEF Requests, Entry
<1>9. \A u \in Noted : \E p \in due' : p.key = u /\ p.presence = Expired[u].desired
  <2> SUFFICES ASSUME NEW u \in Noted
               PROVE  \E p \in due' : p.key = u /\ p.presence = Expired[u].desired
    OBVIOUS
  <2> DEFINE p == [key |-> u, presence |-> Expired[u].desired, ago |-> Expired[u].ago]
  <2>1. p.key = u /\ p.presence = Expired[u].desired
    OBVIOUS
  <2>2. p \in due'
    BY <1>1
  <2> QED
    BY <2>1, <2>2
<1>10. \A p \in due' : p.key \in Noted /\ p.presence = Expired[p.key].desired
  BY <1>8
<1>11. TypeOK'
  BY <1>1, <1>2, <1>8 DEF TypeOK
<1>12. Noted \subseteq Tracked'
  BY <1>1, <1>4, <1>5, NoEntryIsNone
<1>13. Paced'
  BY <1>1, <1>2, <1>4, <1>5, <1>6 DEF Paced
<1>14. DueIsPaced'
  <2>1. \A u \in Noted : u \in forgotten \/ since[u] >= Debounce
    BY <1>4, <1>6, <1>7, PresenceConstants DEF Paced, TypeOK, Tracked, Entry
  <2> QED
    BY <1>1, <1>2, <1>10, <2>1 DEF DueIsPaced
<1>15. Accounted' /\ OneEach'
  BY <1>2, <1>3, <1>8, <1>12 DEF Accounted, OneEach
<1>16. \A u \in Tracked : wentOnline[u] \/ (/\ entries[u].desired = "offline"
                                            /\ entries[u].sent = "offline")
  BY <1>3 DEF News
<1>17. \A u \in Noted : wentOnline[u]
  BY <1>4, <1>6, <1>7, <1>16
<1>18. News'
  <2>1. \A u \in Users : wentOnline'[u] <=>
            wentOnline[u] /\ ~(u \in Noted /\ Expired[u].desired = "offline")
    BY <1>1
  <2>2. \A p \in due' : p.presence = "online" => wentOnline'[p.key]
    BY <1>4, <1>10, <1>17, <2>1
  <2>3. ASSUME NEW u \in Tracked'
        PROVE  \/ wentOnline'[u]
               \/ /\ entries'[u].desired = "offline"
                  /\ \/ entries'[u].sent = "offline"
                     \/ \E p \in due' : p.key = u /\ p.presence = "offline"
    <3>1. u \in Tracked /\ entries'[u] = Expired[u]
      BY <1>1, <1>5
    <3>2. CASE u \in Noted
      BY <1>4, <1>6, <1>9, <1>17, <2>1, <3>1, <3>2 DEF Presences
    <3>3. CASE u \notin Noted
      BY <1>4, <1>6, <1>16, <2>1, <3>1, <3>3
    <3> QED
      BY <3>2, <3>3
  <2> QED
    BY <1>3, <2>2, <2>3 DEF News
<1>19. \A p \in due' : wentOnline[p.key]
  BY <1>10, <1>17
<1> QED
  BY <1>11, <1>13, <1>14, <1>15, <1>18, <1>19

LEMMA SendInv ==
    ASSUME Inv, Send
    PROVE  Inv' /\ sending' \in due
<1> USE DEF Inv
<1>1. PICK p \in due : sending' = p /\ due' = due \ {p}
  BY DEF Send, First
<1>2. sending = None /\ UNCHANGED <<entries, acting, since, forgotten, wentOnline>>
  BY DEF Send, history
<1>3. p # None /\ p \in Requests
  BY NoRequestIsNone DEF TypeOK
<1>4. UNCHANGED <<Unended, Tracked>>
  BY <1>1, <1>2, <1>3 DEF Unended, Tracked
<1>5. TypeOK'
  BY <1>1, <1>2, <1>3 DEF TypeOK
<1>6. Paced' /\ DueIsPaced'
  BY <1>1, <1>2, <1>4 DEF Paced, DueIsPaced
<1>7. Accounted' /\ News'
  BY <1>2, <1>4 DEF Accounted, News
<1>8. OneEach'
  BY <1>1 DEF OneEach
<1> QED
  BY <1>1, <1>5, <1>6, <1>7, <1>8

LEMMA DeferInv ==
    ASSUME Inv, Defer
    PROVE  Inv'
<1> USE DEF Inv
<1>1. /\ sending = None /\ due' = {}
      /\ wentOnline' = [u \in Users |-> wentOnline[u] \/
                           \E p \in due : p.key = u /\ p.presence = "offline"]
      /\ UNCHANGED <<entries, sending, acting, since, forgotten>>
  BY DEF Defer
<1>2. UNCHANGED Tracked /\ Unended = due /\ Unended' = {} /\ Tracked \subseteq Users
  BY <1>1 DEF Unended, Tracked
<1>3. TypeOK'
  BY <1>1 DEF TypeOK
<1>4. Paced' /\ DueIsPaced' /\ Accounted' /\ OneEach'
  BY <1>1, <1>2 DEF Paced, DueIsPaced, Accounted, OneEach
<1>5. News'
  <2>1. \A u \in Users : wentOnline'[u] <=>
           wentOnline[u] \/ \E p \in due : p.key = u /\ p.presence = "offline"
    BY <1>1
  <2> QED
    BY <1>1, <1>2, <2>1 DEF News
<1> QED
  BY <1>3, <1>4, <1>5

\* A request ends, well or not: the entry counts from now on, and an offline is
\* either told or news again.
LEMMA EndedInv ==
    ASSUME Inv, sending # None,
           since' = [since EXCEPT ![sending.key] = 0], Remembers(sending.key),
           NEW told \in Presences \cup {"none"},
           entries' = IF sending.key \in Tracked
                      THEN [entries EXCEPT ![sending.key] = Requested(@, told)]
                      ELSE entries,
           wentOnline' \in [Users -> BOOLEAN],
           \A v \in Users : wentOnline[v] => wentOnline'[v],
           sending.presence = "offline" => told = "offline" \/ wentOnline'[sending.key],
           sending' = None, UNCHANGED <<due, acting>>
    PROVE  Inv'
<1> USE DEF Inv
<1> DEFINE u == sending.key
<1>1. sending \in Unended /\ u \in Users /\ sending.presence \in Presences
  BY DEF Unended, TypeOK, Requests
<1>2. Unended' = due /\ Unended = due \cup {sending}
  BY DEF Unended
<1>3. \A e \in Entry : /\ Requested(e, told) \in Entry /\ Requested(e, told).ago = 0
                       /\ Requested(e, told).sent = told
                       /\ Requested(e, told).desired = e.desired
  BY DEF Requested, Entry
<1>4. \A v \in Tracked : entries[v] \in Entry
  BY DEF Tracked, TypeOK
<1> HIDE DEF u
<1>5. entries' = IF u \in Tracked THEN [entries EXCEPT ![u] = Requested(@, told)] ELSE entries
  BY DEF u
<1>6. \A v \in Users : entries'[v] = IF v = u /\ v \in Tracked
                                     THEN Requested(entries[v], told) ELSE entries[v]
  BY <1>1, <1>5 DEF TypeOK
<1>7. UNCHANGED Tracked
  BY <1>3, <1>4, <1>6, NoEntryIsNone DEF Tracked
<1>8. \A v \in Users : since'[v] = IF v = u THEN 0 ELSE since[v]
  BY <1>1 DEF TypeOK, u
<1>9. forgotten' = forgotten \ ({u} \cap Tracked)
  BY DEF Remembers, u
<1>10. TypeOK'
  <2>1. entries' \in [Users -> Entry \cup {None}]
    <3>1. CASE u \in Tracked
      <4>1. Requested(entries[u], told) \in Entry
        BY <1>3, <1>4, <3>1
      <4>2. entries' = [entries EXCEPT ![u] = Requested(entries[u], told)]
        BY <1>1, <1>5, <3>1 DEF TypeOK
      <4> QED
        BY <4>1, <4>2 DEF TypeOK
    <3>2. CASE u \notin Tracked
      BY <1>5, <3>2 DEF TypeOK
    <3> QED
      BY <3>1, <3>2
  <2>2. since' \in [Users -> Nat]
    BY <1>1 DEF TypeOK, u
  <2> QED
    BY <2>1, <2>2 DEF TypeOK
<1>11. u \in Tracked \/ u \in forgotten
  BY <1>1 DEF Accounted, u
<1>12. Paced'
  <2>1. Tracked \subseteq Users
    BY DEF Tracked
  <2> QED
    BY <1>3, <1>4, <1>6, <1>7, <1>8, <1>9, <1>11, <2>1 DEF Paced
<1>13. DueIsPaced' /\ Accounted' /\ OneEach'
  <2>1. \A p \in due : p.key # u /\ p.key \in Users
    BY DEF OneEach, TypeOK, Requests, u
  <2> QED
    BY <1>2, <1>7, <1>8, <1>9, <2>1 DEF DueIsPaced, Accounted, OneEach
<1>14. News'
  <2>1. \A p \in due : p.presence = "online" => wentOnline'[p.key]
    BY <1>2 DEF News, TypeOK, Requests
  <2>2. ASSUME NEW v \in Tracked
        PROVE  \/ wentOnline'[v]
               \/ /\ entries'[v].desired = "offline"
                  /\ \/ entries'[v].sent = "offline"
                     \/ \E p \in due : p.key = v /\ p.presence = "offline"
    <3>0. v \in Users
      BY DEF Tracked
    <3>1. CASE v # u
      BY <1>2, <1>6, <3>0, <3>1 DEF News, u
    <3>2. CASE v = u /\ sending.presence = "online"
      BY <1>1, <1>2, <3>0, <3>2 DEF News, u
    <3>3. CASE v = u /\ sending.presence = "offline"
      BY <1>3, <1>4, <1>6, <3>0, <3>3 DEF News, u
    <3> QED
      BY <1>1, <3>1, <3>2, <3>3 DEF Presences
  <2> QED
    BY <1>2, <1>7, <2>1, <2>2 DEF News
<1> QED
  BY <1>10, <1>12, <1>13, <1>14

-----------------------------------------------------------------------------
(* Time                                                                       *)

LEMMA TimeInv ==
    ASSUME Inv, TimePasses
    PROVE  Inv'
<1> USE DEF Inv
<1> DEFINE Aged(e) == [e EXCEPT !.ago = Capped(@, Refresh), !.until = Less(@),
                                !.touched = Capped(@, Forget + 1)]
<1>1. /\ entries' = [u \in Users |-> IF u \in Tracked THEN Aged(entries[u]) ELSE None]
      /\ acting' = [u \in Users |-> Less(acting[u])]
      /\ since' = [u \in Users |-> Capped(since[u], Debounce)]
      /\ UNCHANGED <<due, sending, forgotten, wentOnline>>
  BY DEF TimePasses
<1>2. \A t \in TimesLeft : Less(t) \in TimesLeft
  BY DEF Less, TimesLeft
<1>3. \A n, cap \in Nat : Capped(n, cap) \in Nat
  BY DEF Capped
<1>4. ASSUME NEW e \in Entry
      PROVE  /\ Aged(e) \in Entry /\ Aged(e).ago = Capped(e.ago, Refresh)
             /\ Aged(e).desired = e.desired /\ Aged(e).sent = e.sent
  <2>1. /\ Less(e.until) \in TimesLeft /\ Capped(e.ago, Refresh) \in Nat
        /\ Capped(e.touched, Forget + 1) \in Nat
    <3>1. e.until \in TimesLeft /\ e.ago \in Nat /\ e.touched \in Nat
      BY DEF Entry
    <3>2. Refresh \in Nat /\ Forget + 1 \in Nat
      BY PresenceConstants
    <3> QED
      BY <1>2, <1>3, <3>1, <3>2
  <2> QED
    BY <2>1 DEF Entry
<1> HIDE DEF Aged
<1>5. \A u \in Tracked : entries[u] \in Entry /\ u \in Users
  BY DEF Tracked, TypeOK
<1>6. TypeOK'
  <2>1. entries' \in [Users -> Entry \cup {None}]
    BY <1>1, <1>4, <1>5
  <2>2. acting' \in [Users -> TimesLeft] /\ since' \in [Users -> Nat]
    BY <1>1, <1>2, <1>3, PresenceConstants DEF TypeOK
  <2> QED
    BY <1>1, <2>1, <2>2 DEF TypeOK
<1>7. UNCHANGED <<Tracked, Unended>>
  BY <1>1, <1>4, <1>5, NoEntryIsNone DEF Tracked, Unended
<1>8. \A u \in Users : /\ since[u] \in Nat /\ since'[u] = Capped(since[u], Debounce)
                       /\ since[u] >= Debounce => since'[u] >= Debounce
  BY <1>1, PresenceConstants DEF TypeOK, Capped
<1>9. Paced'
  <2>1. ASSUME NEW u \in Tracked, entries[u].ago <= since[u]
        PROVE  since'[u] >= Debounce \/ entries'[u].ago <= since'[u]
    <3>1. entries'[u].ago = Capped(entries[u].ago, Refresh) /\ entries[u].ago \in Nat
      BY <1>1, <1>4, <1>5 DEF Entry
    <3> QED
      BY <1>5, <1>8, <2>1, <3>1, PresenceConstants DEF Capped
  <2> QED
    BY <1>1, <1>7, <1>8, <2>1 DEF Paced
<1>10. DueIsPaced' /\ Accounted' /\ OneEach'
  BY <1>1, <1>7, <1>8 DEF DueIsPaced, Accounted, OneEach, TypeOK, Requests
<1>11. News'
  BY <1>1, <1>4, <1>5, <1>7 DEF News
<1> QED
  BY <1>6, <1>9, <1>10, <1>11

-----------------------------------------------------------------------------
(* The inductive invariant and the theorems                                   *)

LEMMA InvInductive ==
    ASSUME Inv, [Next]_vars
    PROVE  Inv'
<1>1. ASSUME NEW u \in Users, NEW presence \in {"online", "offline"},
             NEW until \in Terms \cup {Forever}, Update(u, presence, until)
      PROVE  Inv'
  <2>1. until \in TimesLeft /\ presence \in Presences
    BY PresenceConstants DEF TimesLeft, Presences
  <2>2. /\ DoUpdate(u, presence, until) /\ UNCHANGED <<due, sending, since>>
        /\ acting' \in [Users -> TimesLeft]
    BY <1>1 DEF Update, Inv, TypeOK
  <2> QED
    BY <2>1, <2>2, UpdateInv
<1>2. ASSUME NEW u \in Users, NEW until \in 1..ActivityOnline, ActivityLook(u, until)
      PROVE  Inv'
  <2>1. until \in TimesLeft
    BY PresenceConstants DEF TimesLeft
  <2> QED
    BY <1>2, <2>1
    DEF ActivityLook, history, Inv, TypeOK, Paced, DueIsPaced, Accounted, OneEach,
        News, Unended, Tracked
<1>3. ASSUME NEW u \in Users, ActivityUpdate(u) PROVE Inv'
  <2>1. acting[u] \in TimesLeft /\ "online" \in Presences
    BY DEF Inv, TypeOK, Presences
  <2>2. /\ DoUpdate(u, "online", acting[u]) /\ UNCHANGED <<due, sending, since>>
        /\ acting' \in [Users -> TimesLeft]
    BY <1>3 DEF ActivityUpdate, Inv, TypeOK, TimesLeft
  <2> QED
    BY <2>1, <2>2, UpdateInv
<1>4. CASE Tick
  BY <1>4, TickInv
<1>5. CASE Send
  BY <1>5, SendInv
<1>6. CASE Defer
  BY <1>6, DeferInv
<1>7. sending # None =>
        /\ sending.key \in Users /\ sending.presence \in Presences
        /\ sending.key \in Tracked => entries[sending.key].sent \in Presences \cup {"none"}
  BY DEF Inv, TypeOK, Requests, Tracked, Entry
<1>8. CASE SendOk
  <2>1. /\ sending # None
        /\ since' = [since EXCEPT ![sending.key] = 0] /\ Remembers(sending.key)
        /\ entries' = IF sending.key \in Tracked
                      THEN [entries EXCEPT ![sending.key] = Requested(@, sending.presence)]
                      ELSE entries
        /\ sending' = None /\ UNCHANGED <<due, acting, wentOnline>>
    BY <1>8 DEF SendOk
  <2>2. wentOnline' \in [Users -> BOOLEAN]
    BY <2>1 DEF Inv, TypeOK
  <2> QED
    BY <1>7, <2>1, <2>2, EndedInv
<1>9. CASE SendFails
  <2> DEFINE told == IF sending.key \in Tracked THEN entries[sending.key].sent ELSE "none"
  <2>1. /\ sending # None
        /\ since' = [since EXCEPT ![sending.key] = 0] /\ Remembers(sending.key)
        /\ entries' = IF sending.key \in Tracked
                      THEN [entries EXCEPT ![sending.key] = Requested(@, @.sent)]
                      ELSE entries
        /\ wentOnline' = [wentOnline EXCEPT ![sending.key] = @ \/ sending.presence = "offline"]
        /\ sending' = None /\ UNCHANGED <<due, acting>>
    BY <1>9 DEF SendFails
  <2>2. told \in Presences \cup {"none"}
    BY <1>7, <2>1
  <2>3. entries' = IF sending.key \in Tracked
                   THEN [entries EXCEPT ![sending.key] = Requested(@, told)]
                   ELSE entries
    BY <1>7, <2>1 DEF Inv, TypeOK
  <2>4. /\ wentOnline' \in [Users -> BOOLEAN]
        /\ \A v \in Users : wentOnline[v] => wentOnline'[v]
        /\ sending.presence = "offline" => wentOnline'[sending.key]
    BY <1>7, <2>1 DEF Inv, TypeOK
  <2> HIDE DEF told
  <2> QED
    BY <2>1, <2>2, <2>3, <2>4, EndedInv
<1>10. CASE TimePasses
  BY <1>10, TimeInv
<1>11. CASE UNCHANGED vars
  BY <1>11
  DEF vars, history, Inv, TypeOK, Paced, DueIsPaced, Accounted, OneEach, News, Unended,
      Tracked
<1> QED
  BY <1>1, <1>2, <1>3, <1>4, <1>5, <1>6, <1>8, <1>9, <1>10, <1>11 DEF Next

LEMMA InvHolds == Spec => []Inv
BY InitInv, InvInductive, PTL DEF Spec

\* A step that is not one of Tick's adds no request to those that are due.
LEMMA OnlyTickNotes ==
    ASSUME [Next]_vars, ~Tick
    PROVE  due' \subseteq due
BY DEF Next, vars, Update, ActivityLook, ActivityUpdate, Send, Defer, SendOk, SendFails,
       TimePasses

\* Only Send starts a request.
LEMMA OnlySendStarts ==
    ASSUME [Next]_vars, ~Send
    PROVE  sending' = None \/ sending' = sending
BY DEF Next, vars, Update, ActivityLook, ActivityUpdate, Tick, Defer, SendOk, SendFails,
       TimePasses

\* Tick wants to send an offline only for a user who was reported online since
\* the last one that the homeserver got (Manager.Update, Manager.Tick), whatever
\* was deleted, evicted or sent in vain in between.
THEOREM NoOfflineWithoutNews == Spec => OfflineIsNews
<1>1. Inv /\ [Next]_vars =>
        [\A p \in due' \ due : p.presence = "offline" => wentOnline[p.key]]_vars
  BY TickInv, OnlyTickNotes
<1> QED
  BY <1>1, InvHolds, PTL DEF Spec, OfflineIsNews

\* Two requests for a ghost are Debounce apart (Manager.Tick), although the
\* handlers change its entry while requests for it are due or running.
THEOREM RequestsAreSpaced == Spec => DebounceWhileTracked
<1>1. Inv /\ [Next]_vars =>
        [sending' # None /\ sending = None /\ sending'.key \notin forgotten =>
            since[sending'.key] >= Debounce]_vars
  <2> SUFFICES ASSUME Inv, [Next]_vars, sending' # None, sending = None,
                      sending'.key \notin forgotten
               PROVE  since[sending'.key] >= Debounce
    OBVIOUS
  <2>1. Send
    BY OnlySendStarts
  <2> QED
    BY <2>1, SendInv DEF Inv, DueIsPaced
<1> QED
  BY <1>1, InvHolds, PTL DEF Spec, DebounceWhileTracked
=============================================================================
