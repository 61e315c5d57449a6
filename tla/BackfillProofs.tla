--------------------------- MODULE BackfillProofs ---------------------------
(* Proofs about Backfill, for every history, every size of a batch and of a   *)
(* request, and every number of calls and failures.                           *)
EXTENDS Backfill, FiniteSetTheorems, WellFoundedInduction, TLAPS

\* Before the last request of a call is answered.
Asking == {"lock", "clear", "init", "waiting", "save", "fetch"}
Places == Asking \cup {"idle", "convert", "deliver", "record"}

Calls == [anchor : Nat, min : Nat, orig : Nat, offset : Nat, count : Nat, limit : Int,
          messages : SUBSET (1..top), index : [IDs -> Int]]

TypeOK ==
    /\ config \in Configs /\ top \in 0..MaxID
    /\ pc \in [Callers -> Places]
    /\ pc["login"] \in Asking \cup {"idle"} /\ pc["forward"] # "record"
    /\ call \in [Fetchers -> Calls]
    /\ cursor \in 0..top /\ bridged \subseteq 1..top

\* takeoutLock.
LockHeld ==
    \A p \in Callers : pc[p] \in {"clear", "init", "waiting", "save"} => holder = p

-----------------------------------------------------------------------------
(* The history, in a chat without calls                                       *)

Convex(S) == \A a, b \in S : \A m \in a..b : m \in S

\* From here to the newest bridged message there is no hole.
Above(k) == \A b \in bridged : \A m \in k..b : Settled(m)

Joined == \A a, b \in bridged : \A m \in a..b : Settled(m)

\* A forward call goes on from the newest bridged message, which remains that
\* until the call ends; what it has fetched has no hole, and it asks for what is
\* older than that.
ForwardOK ==
    LET c == call["forward"]
    IN pc["forward"] # "idle" =>
        /\ \/ c.anchor = 0 /\ bridged = {}
           \/ c.anchor \in bridged /\ \A b \in bridged : b <= c.anchor
        /\ c.min = c.anchor
        /\ \A m \in c.messages : m > c.min
        /\ Convex(c.messages)
        /\ pc["forward"] \in Asking =>
              \/ c.messages = {} /\ c.offset = 0
              \/ c.offset \in c.messages /\ \A m \in c.messages : c.offset <= m

\* A backward call goes on below everything that is bridged, or fetched without
\* anything to bridge, and what it has fetched reaches up to there.
BackwardOK ==
    LET c == call["backward"]
    IN pc["backward"] \notin {"idle", "record"} =>
        /\ c.min = 0 /\ c.orig <= top
        /\ c.orig = 0 => bridged = {}
        /\ c.orig # 0 => Above(c.orig) /\ \A b \in bridged : c.orig <= b
        /\ cursor # 0 => c.orig # 0 /\ c.orig <= cursor
        /\ Convex(c.messages)
        /\ c.orig # 0 =>
              \A m \in c.messages :
                  m < c.orig /\ \A n \in m..(c.orig - 1) : n \in c.messages
        /\ pc["backward"] \in Asking => c.messages = {} /\ c.offset = c.orig

\* What is about to be recorded.
RecordOK == pc["backward"] = "record" => \A m \in Batch("backward") : Above(m)

History ==
    /\ Joined
    /\ cursor # 0 => Above(cursor)
    /\ bridged = {} => pc["forward"] = "idle" \/ pc["backward"] = "idle"
    /\ ForwardOK /\ BackwardOK /\ RecordOK

-----------------------------------------------------------------------------
(* The history, in a chat with calls that nobody writes to                    *)

Ends == top \in config.first..config.last

\* From here to the newest message there is no hole.
Reaches(k) == \A m \in k..top : Settled(m)

\* What a call has fetched has no hole below the place where it began.
FullBelow(S, end) == \A m \in S : \A n \in m..end : n \in S

\* A forward call has everything from its oldest message to the newest one.
ForwardReaches ==
    LET c == call["forward"]
    IN pc["forward"] # "idle" =>
        /\ c.anchor \in bridged /\ c.min \in {0, c.anchor}
        /\ \A m \in c.messages : m > c.min
        /\ FullBelow(c.messages, top)
        /\ pc["forward"] \in Asking =>
              \/ c.messages = {} /\ c.offset = 0
              \/ c.offset \in c.messages /\ \A m \in c.messages : c.offset <= m

\* A backward call goes on from a place above which there is no hole, or from the
\* newest message.
BackwardReaches ==
    LET c == call["backward"]
    IN pc["backward"] \notin {"idle", "record"} =>
        /\ c.min = 0 /\ c.orig <= top
        /\ c.orig # 0 => Reaches(c.orig) /\ \A m \in c.messages : m < c.orig
        /\ FullBelow(c.messages, IF c.orig = 0 THEN top ELSE c.orig - 1)
        /\ pc["backward"] \in Asking => c.messages = {} /\ c.offset = c.orig

RecordReaches == pc["backward"] = "record" => \A m \in Batch("backward") : Reaches(m)

CallHistory ==
    /\ config.calls \subseteq bridged
    /\ \A a \in bridged \ config.calls : Reaches(a)
    /\ cursor # 0 => Reaches(cursor)
    /\ ForwardReaches /\ BackwardReaches /\ RecordReaches

-----------------------------------------------------------------------------
(* Albums, in a chat without calls                                            *)

Album(g) == {o \in IDs : GroupedID(o) = g}

\* The items of the album of m that are before it.
Before(m) == {o \in IDs : o < m /\ GroupedID(o) = GroupedID(m)}

IndexOf(m) == m - Min(Album(GroupedID(m)))

Uncut(m) == Fits(GroupedID(m)) /\ GroupedID(m) \notin cut

\* An item is not in the room before those that come before it.
InOrder == \A m \in bridged : Uncut(m) => Before(m) \subseteq bridged

Indexed == \A m \in bridged : Uncut(m) => albumIndex[m] = IndexOf(m)

\* A backward call asks for a whole batch, and goes on with whole albums.
BackwardAlbums ==
    LET c == call["backward"]
    IN /\ pc["backward"] \in Asking => c.limit = config.batch /\ c.count = config.batch
       /\ pc["backward"] \in {"convert", "deliver"} =>
             \A m \in Batch("backward") :
                 Fits(GroupedID(m)) => Before(m) \subseteq Batch("backward")
       /\ pc["backward"] = "deliver" =>
             \A m \in Converted("backward") :
                 Fits(GroupedID(m)) => c.index[m] = IndexOf(m)

\* A forward call knows the index, or is about to cut the album.
ForwardAlbums ==
    pc["forward"] = "deliver" =>
        \A m \in Converted("forward") :
            Uncut(m) => \/ call["forward"].index[m] = IndexOf(m)
                        \/ ~(Before(m) \subseteq bridged \cup Converted("forward"))

Albums == InOrder /\ Indexed /\ BackwardAlbums /\ ForwardAlbums

Inv ==
    /\ TypeOK /\ Ends /\ LockHeld /\ AcceptedIsNoticed
    /\ config.calls = {} => History /\ Albums
    /\ config.calls # {} /\ config.first = config.last => CallHistory

-----------------------------------------------------------------------------
(* Sets of messages                                                           *)

LEMMA MinFacts ==
    ASSUME NEW S \in SUBSET Nat, S # {}
    PROVE  Min(S) \in S /\ \A y \in S : Min(S) <= y
<1> DEFINE R == OpToRel(<, Nat)
<1>1. \A x, y \in Nat : <<x, y>> \in R <=> x < y
  BY DEF OpToRel
<1>2. IsWellFoundedOn(R, Nat)
  BY NatLessThanWellFounded
<1> HIDE DEF R
<1>3. PICK x \in S : \A y \in S : ~(<<y, x>> \in R)
  BY <1>2, WFMin
<1>4. ASSUME NEW y \in S PROVE x <= y
  <2>1. x \in Nat /\ y \in Nat /\ ~(y < x)
    BY <1>1, <1>3
  <2> QED
    BY <2>1
<1> QED
  BY <1>4 DEF Min

LEMMA MaxFacts ==
    ASSUME NEW n \in Nat, NEW S \in SUBSET (1..n), S # {}
    PROVE  Max(S) \in S /\ \A y \in S : Max(S) >= y
<1> DEFINE T == {n - x : x \in S}
<1>1. T \in SUBSET Nat /\ T # {}
  <2>1. \A x \in S : n - x \in Nat
    OBVIOUS
  <2> QED
    BY <2>1
<1>2. Min(T) \in T /\ \A y \in T : Min(T) <= y
  BY <1>1, MinFacts
<1>3. PICK x \in S : Min(T) = n - x
  BY <1>2
<1>4. ASSUME NEW y \in S PROVE x >= y
  <2>1. x \in Int /\ y \in Int
    OBVIOUS
  <2>2. n - y \in T
    OBVIOUS
  <2>3. Min(T) <= n - y
    BY <1>2, <2>2
  <2> QED
    BY <1>3, <2>1, <2>3
<1> QED
  BY <1>4 DEF Max

LEMMA EndFacts ==
    ASSUME NEW n \in Nat, NEW S \in SUBSET (1..n)
    PROVE  /\ Oldest(S) \in 0..n /\ Newest(S) \in 0..n
           /\ S = {} => Oldest(S) = 0 /\ Newest(S) = 0
           /\ S # {} => /\ Oldest(S) \in S /\ Newest(S) \in S
                        /\ \A m \in S : Oldest(S) <= m /\ m <= Newest(S)
<1>1. CASE S = {}
  BY <1>1 DEF Oldest, Newest
<1>2. CASE S # {}
  <2>1. S \in SUBSET Nat
    OBVIOUS
  <2>2. Min(S) \in S /\ \A y \in S : Min(S) <= y
    BY <1>2, <2>1, MinFacts
  <2>3. Max(S) \in S /\ \A y \in S : Max(S) >= y
    BY <1>2, MaxFacts
  <2>4. Oldest(S) = Min(S) /\ Newest(S) = Max(S)
    BY <1>2 DEF Oldest, Newest
  <2>5. Min(S) \in 0..n /\ Max(S) \in 0..n
    <3>1. \A m \in S : m \in 0..n
      OBVIOUS
    <3> QED
      BY <2>2, <2>3, <3>1
  <2>6. ASSUME NEW m \in S PROVE m <= Max(S)
    <3>1. m \in Int /\ Max(S) \in Int /\ Max(S) >= m
      BY <2>3, <2>5
    <3> QED
      BY <3>1
  <2> QED
    BY <1>2, <2>2, <2>3, <2>4, <2>5, <2>6
<1> QED
  BY <1>1, <1>2

\* What messages.getHistory may return.
Found(c) == {m \in 1..top : m > c.min /\ (c.offset = 0 \/ m < c.offset)}

\* It returns the newest of them.
LEMMA GetHistoryFacts ==
    ASSUME top \in 0..MaxID, NEW c \in Calls
    PROVE  /\ GetHistory(c) \subseteq Found(c)
           /\ \A m \in GetHistory(c), n \in Found(c) : m <= n => n \in GetHistory(c)
           /\ Cardinality(GetHistory(c)) \in Nat
           /\ Cardinality(GetHistory(c)) >= ChunkLimit => GetHistory(c) # {}
<1> DEFINE found == Found(c)
<1> DEFINE Newer(m) == {n \in found : n > m}
<1>1. top \in Nat
  BY BackfillConstants
<1>2. found \subseteq 1..top /\ IsFiniteSet(1..top)
  BY <1>1, FS_Interval DEF Found
<1>3. IsFiniteSet(found)
  BY <1>2, FS_Subset
<1>4. GetHistory(c) = {m \in found : /\ Cardinality(Newer(m)) < c.limit
                                     /\ Cardinality(Newer(m)) < ChunkLimit}
  BY DEF GetHistory, Found
<1>5. \A m \in found : IsFiniteSet(Newer(m)) /\ Cardinality(Newer(m)) \in Nat
  BY <1>3, FS_Subset, FS_CardinalityType
<1>6. ASSUME NEW m \in found, NEW n \in found, m <= n
      PROVE  Cardinality(Newer(n)) <= Cardinality(Newer(m))
  <2>1. Newer(n) \subseteq Newer(m)
    BY <1>1, <1>2, <1>6
  <2> QED
    BY <1>5, <2>1, FS_Subset
<1>7. c.limit \in Int /\ ChunkLimit \in Nat \ {0}
  BY BackfillConstants DEF Calls
<1> HIDE DEF found, Newer
<1>8. \A m \in GetHistory(c), n \in found : m <= n => n \in GetHistory(c)
  BY <1>4, <1>5, <1>6, <1>7
<1>9. GetHistory(c) \subseteq found
  BY <1>4
<1>10. IsFiniteSet(GetHistory(c))
  BY <1>3, <1>9, FS_Subset
<1>11. Cardinality(GetHistory(c)) \in Nat /\ (GetHistory(c) = {} => Cardinality(GetHistory(c)) = 0)
  BY <1>10, FS_CardinalityType, FS_EmptySet
<1> QED
  BY <1>7, <1>8, <1>9, <1>11 DEF found

\* A batch is what was fetched, without the oldest ones perhaps.
LEMMA BatchFacts ==
    ASSUME TypeOK, NEW p \in Fetchers
    PROVE  /\ Batch(p) \subseteq call[p].messages /\ Batch(p) \subseteq 1..top
           /\ \A m \in Batch(p), n \in call[p].messages : m <= n => n \in Batch(p)
           /\ p = "forward" => Batch(p) = call[p].messages
<1>1. call[p].messages \subseteq 1..top /\ top \in Nat
  BY BackfillConstants DEF TypeOK, Calls
<1>2. p = "forward" => Batch(p) = call[p].messages
  BY DEF Batch, Forward
<1>3. CASE Batch(p) = call[p].messages
  BY <1>1, <1>2, <1>3
<1>4. CASE Batch(p) = trimTrailingAlbum(call[p].messages) /\ Batch(p) # call[p].messages
  <2> DEFINE s == call[p].messages
  <2> DEFINE rest == {m \in s : \E n \in s : n <= m /\ GroupedID(n) # GroupedID(Oldest(s))}
  <2>1. Batch(p) = rest
    BY <1>4 DEF trimTrailingAlbum
  <2>2. ASSUME NEW m \in rest, NEW n \in s, m <= n PROVE n \in rest
    <3>1. PICK o \in s : o <= m /\ GroupedID(o) # GroupedID(Oldest(s))
      OBVIOUS
    <3>2. o <= n
      BY <1>1, <2>2, <3>1
    <3> QED
      BY <3>1, <3>2
  <2> QED
    BY <1>1, <1>2, <2>1, <2>2
<1> QED
  BY <1>3, <1>4 DEF Batch

\* What comes of a batch that was bridged.
LEMMA ConvertedFacts ==
    ASSUME TypeOK, NEW p \in Fetchers
    PROVE  /\ Converted(p) \subseteq Batch(p) \ config.service
           /\ p = "forward" /\ (\A m \in call[p].messages : m > call[p].min) =>
                Converted(p) = call[p].messages \ config.service
           /\ p = "backward" /\ (\A m \in call[p].messages : call[p].orig = 0 \/ m < call[p].orig) =>
                Converted(p) = Batch(p) \ config.service
BY BatchFacts DEF Converted, Forward

-----------------------------------------------------------------------------
(* Types                                                                      *)

LEMMA ConfigFacts ==
    ASSUME TypeOK
    PROVE  /\ MaxID \in Nat /\ top \in Nat /\ bridged \subseteq IDs
           /\ config.last \in 0..MaxID /\ config.calls \subseteq 1..config.first
           /\ config.initial \in Nat /\ config.catchup \in Nat /\ config.batch \in Nat
           /\ config.album \in [IDs -> Nat]
BY BackfillConstants DEF TypeOK, IDs

LEMMA NoCallType == top \in Nat => NoCall \in Calls
BY DEF NoCall, NoIndex, Calls

\* The place of one caller changes.
LEMMA PlaceType ==
    ASSUME TypeOK, NEW p \in Callers, NEW place \in Places, To(p, place),
           p = "login" => place \in Asking \cup {"idle"},
           p = "forward" => place # "record"
    PROVE  /\ pc' \in [Callers -> Places]
           /\ pc'["login"] \in Asking \cup {"idle"} /\ pc'["forward"] # "record"
           /\ \A q \in Callers : pc'[q] = IF q = p THEN place ELSE pc[q]
BY DEF TypeOK, To, Callers, Fetchers

\* FetchMessages takes its parameters.
LEMMA StartType ==
    ASSUME TypeOK, NEW p \in Fetchers, NEW anchor \in Nat, NEW count \in Nat,
           Start(p, anchor, count), UNCHANGED <<config, top, cursor, bridged>>
    PROVE  TypeOK'
<1>1. Parameters(p, anchor, count) \in Calls
  <2>1. cursor \in Nat
    BY ConfigFacts DEF TypeOK
  <2> QED
    BY <2>1 DEF Parameters, Offset, Calls, NoIndex
<1>2. PICK place \in {"lock", "fetch"} : To(p, place)
  BY DEF Start
<1>3. call' \in [Fetchers -> Calls]
  BY <1>1 DEF Start, TypeOK
<1>4. Calls' = Calls
  BY DEF Calls
<1> QED
  BY <1>2, <1>3, <1>4, PlaceType DEF TypeOK, Places, Asking, Callers

LEMMA FetchType ==
    ASSUME TypeOK, NEW p \in Fetchers, Fetch(p)
    PROVE  TypeOK'
<1> DEFINE c == call[p]
<1> DEFINE new == GetHistory(c)
<1>1. c \in Calls /\ top \in Nat
  BY ConfigFacts DEF TypeOK
<1>2. new \subseteq 1..top /\ Cardinality(new) \in Nat
  BY <1>1, GetHistoryFacts DEF Found, TypeOK
<1>3. Oldest(new) \in Nat
  BY <1>1, <1>2, EndFacts
<1> HIDE DEF new
<1>4. c.messages \cup new \subseteq 1..top /\ c.limit - Cardinality(new) \in Int
  <2>1. c.messages \subseteq 1..top /\ c.limit \in Int
    BY <1>1 DEF Calls
  <2> HIDE DEF c
  <2>2. c.limit - Cardinality(new) \in Int
    BY <1>2, <2>1
  <2> QED
    BY <1>2, <2>1, <2>2
<1>5. /\ [c EXCEPT !.messages = c.messages \cup new] \in Calls
      /\ [c EXCEPT !.messages = c.messages \cup new, !.limit = c.limit - Cardinality(new),
                   !.offset = Oldest(new)] \in Calls
  BY <1>1, <1>3, <1>4 DEF Calls
<1>6. call' = [call EXCEPT ![p].messages = c.messages \cup new] \/
      call' = [call EXCEPT ![p].messages = c.messages \cup new,
                           ![p].limit = c.limit - Cardinality(new),
                           ![p].offset = Oldest(new)]
  BY DEF Fetch, new
<1>7. call' \in [Fetchers -> Calls]
  <2>1. call' = [call EXCEPT ![p] = [c EXCEPT !.messages = c.messages \cup new]] \/
        call' = [call EXCEPT ![p] = [c EXCEPT !.messages = c.messages \cup new,
                                              !.limit = c.limit - Cardinality(new),
                                              !.offset = Oldest(new)]]
    BY <1>6 DEF TypeOK
  <2> QED
    BY <1>5, <2>1 DEF TypeOK
<1>8. PICK place \in {"fetch", "convert"} : To(p, place)
  BY DEF Fetch
<1>9. UNCHANGED <<config, top, cursor, bridged>> /\ Calls' = Calls
  BY DEF Fetch, chat, room, Calls
<1> QED
  BY <1>7, <1>8, <1>9, PlaceType DEF TypeOK, Places, Asking, Callers, Fetchers

LEMMA ReturnType ==
    ASSUME TypeOK, NEW p \in Fetchers, Return(p)
    PROVE  /\ TypeOK'
           /\ \E index \in [IDs -> Int] : call' = [call EXCEPT ![p].index = index]
<1> DEFINE index == [m \in IDs |-> IF m \in Converted(p)
                         THEN telegramAlbumIndex(m, bridged \cup Batch(p)) ELSE 0]
<1>1. index \in [IDs -> Int]
  <2> SUFFICES ASSUME NEW m \in IDs PROVE telegramAlbumIndex(m, bridged \cup Batch(p)) \in Int
    OBVIOUS
  <2> DEFINE S == {m} \cup {o \in bridged \cup Batch(p) :
                               /\ o \in (m - MaxAlbumSize + 1)..(m - 1)
                               /\ GroupedID(o) = GroupedID(m)}
  <2>1. m \in Nat /\ S \in SUBSET Nat /\ S # {}
    BY ConfigFacts, BatchFacts DEF IDs
  <2>2. Min(S) \in Nat
    BY <2>1, MinFacts
  <2>3. telegramAlbumIndex(m, bridged \cup Batch(p)) \in {0, m - Min(S)}
    BY DEF telegramAlbumIndex
  <2> QED
    BY <2>1, <2>2, <2>3
<1>2. call' = [call EXCEPT ![p].index = index]
  BY DEF Return
<1> HIDE DEF index
<1>3. call' \in [Fetchers -> Calls]
  <2>1. [call[p] EXCEPT !.index = index] \in Calls
    BY <1>1 DEF TypeOK, Calls
  <2>2. call' = [call EXCEPT ![p] = [call[p] EXCEPT !.index = index]]
    BY <1>2 DEF TypeOK
  <2> QED
    BY <2>1, <2>2 DEF TypeOK
<1>4. UNCHANGED <<config, top, cursor, bridged>> /\ Calls' = Calls /\ To(p, "deliver")
  BY DEF Return, chat, room, Calls
<1>5. TypeOK'
  BY <1>3, <1>4, PlaceType DEF TypeOK, Places, Callers, Fetchers
<1> QED
  BY <1>1, <1>2, <1>5

\* The call of one fetcher ends.
LEMMA EndsType ==
    ASSUME TypeOK, NEW p \in Callers, To(p, "idle"),
           call' = [q \in Fetchers |-> IF q = p THEN NoCall ELSE call[q]],
           UNCHANGED <<config, top>>, cursor' \in 0..top, bridged' \subseteq 1..top
    PROVE  TypeOK'
<1>1. Calls' = Calls /\ NoCall \in Calls
  BY NoCallType, ConfigFacts DEF Calls
<1>2. call' \in [Fetchers -> Calls]
  BY <1>1 DEF TypeOK
<1> QED
  BY <1>1, <1>2, PlaceType DEF TypeOK, Places

LEMMA DeliverType ==
    ASSUME TypeOK, NEW p \in Fetchers, Deliver(p)
    PROVE  TypeOK'
<1>1. bridged' \subseteq 1..top
  BY ConvertedFacts, BatchFacts DEF Deliver, TypeOK
<1>2. UNCHANGED <<config, top, cursor>> /\ Calls' = Calls /\ p \in Callers
  BY DEF Deliver, Calls, Callers
<1>3. CASE p = "forward"
  <2>1. To(p, "idle") /\ call' = [call EXCEPT ![p] = NoCall]
    BY <1>3 DEF Deliver, Forward
  <2>2. call' = [q \in Fetchers |-> IF q = p THEN NoCall ELSE call[q]]
    BY <2>1 DEF TypeOK
  <2> QED
    BY <1>1, <1>2, <2>1, <2>2, EndsType DEF TypeOK
<1>4. CASE p = "backward"
  BY <1>1, <1>2, <1>4, PlaceType DEF Deliver, Forward, TypeOK, Places
<1> QED
  BY <1>3, <1>4 DEF Fetchers

LEMMA InitType == Init => TypeOK
<1> SUFFICES ASSUME Init PROVE TypeOK
  OBVIOUS
<1>1. config \in Configs /\ MaxID \in Nat /\ config.first \in 0..MaxID
  BY BackfillConstants DEF Init
<1>2. config.calls \subseteq 1..config.first
  BY <1>1, BackfillConstants
<1>3. call \in [Fetchers -> Calls]
  BY <1>1, NoCallType DEF Init
<1> QED
  BY <1>1, <1>2, <1>3 DEF Init, TypeOK, Places, Asking, Callers, Fetchers

LEMMA TypeInductive ==
    ASSUME TypeOK, [Next]_vars
    PROVE  TypeOK'
<1> USE DEF Places, Asking
<1>0. ASSUME UNCHANGED data,
             \/ UNCHANGED pc
             \/ \E p \in Callers, place \in Asking \cup {"idle"} : To(p, place)
      PROVE  TypeOK'
  <2>1. UNCHANGED <<config, top, cursor, bridged, call, Calls>>
    BY <1>0 DEF data, chat, room, Calls
  <2>2. CASE UNCHANGED pc
    BY <2>1, <2>2 DEF TypeOK
  <2>3. CASE \E p \in Callers, place \in Asking \cup {"idle"} : To(p, place)
    BY <2>1, <2>3, PlaceType DEF TypeOK
  <2> QED
    BY <1>0, <2>2, <2>3
<1>1. CASE NewMessage
  <2>1. /\ top' = top + 1 /\ top < config.last
        /\ UNCHANGED <<config, cursor, bridged, call, pc>>
    BY <1>1 DEF NewMessage, room
  <2>2. top' \in 0..MaxID /\ 1..top \subseteq 1..top' /\ 0..top \subseteq 0..top'
    BY <2>1, ConfigFacts
  <2>3. Calls \subseteq Calls'
    BY <2>2 DEF Calls
  <2> QED
    BY <2>1, <2>2, <2>3 DEF TypeOK
<1>2. CASE Accept \/ Invalidate \/ OnEdit \/ Fire \/ StopTakeout \/ SaveStopped
           \/ StopFails \/ SaveLogin
  BY <1>0, <1>2
  DEF Accept, Invalidate, OnEdit, Fire, StopTakeout, SaveStopped, StopFails, SaveLogin
<1>3. ASSUME NEW p \in Callers, Lock(p) \/ Takeout(p) PROVE TypeOK'
  <2>1. UNCHANGED data /\ \E place \in Asking \cup {"idle"} : To(p, place)
    BY <1>3
    DEF Lock, Takeout, Clear, InitTakeoutSession, InitDelay, Wake, SaveTakeout
  <2> QED
    BY <1>0, <2>1
<1>4. ASSUME NEW p \in Callers, GetTakeoutFails(p) PROVE TypeOK'
  <2>1. /\ To(p, "idle") /\ UNCHANGED <<config, top, cursor, bridged>>
        /\ call' = [q \in Fetchers |-> IF q = p THEN NoCall ELSE call[q]]
    BY <1>4 DEF GetTakeoutFails, chat, room
  <2> QED
    BY <2>1, EndsType DEF TypeOK
<1>5. ASSUME NEW p \in Fetchers, TakeoutInvalid(p) \/ FetchFails(p) PROVE TypeOK'
  <2>1. /\ To(p, "idle") /\ UNCHANGED <<config, top, cursor, bridged>>
        /\ call' = [call EXCEPT ![p] = NoCall]
    BY <1>5 DEF TakeoutInvalid, FetchFails, chat, room
  <2>2. call' = [q \in Fetchers |-> IF q = p THEN NoCall ELSE call[q]] /\ p \in Callers
    BY <2>1 DEF TypeOK, Callers
  <2> QED
    BY <2>1, <2>2, EndsType DEF TypeOK
<1>6. ASSUME NEW p \in Fetchers, Fetch(p) \/ Return(p) \/ Deliver(p) PROVE TypeOK'
  BY <1>6, FetchType, ReturnType, DeliverType
<1>7. CASE LoginReturns
  BY <1>0, <1>7 DEF LoginReturns, Callers
<1>8. CASE StartForward
  <2> DEFINE count == IF Newest(bridged) = 0 THEN config.initial ELSE config.catchup
  <2>1. Newest(bridged) \in Nat /\ count \in Nat
    BY ConfigFacts, EndFacts DEF TypeOK
  <2>2. Start("forward", Newest(bridged), count) /\ UNCHANGED <<config, top, cursor, bridged>>
    BY <1>8 DEF StartForward, room
  <2> HIDE DEF count
  <2> QED
    BY <2>1, <2>2, StartType DEF Fetchers
<1>9. CASE StartBackward
  <2>1. Oldest(bridged) \in Nat /\ config.batch \in Nat
    BY ConfigFacts, EndFacts DEF TypeOK
  <2>2. /\ Start("backward", Oldest(bridged), config.batch)
        /\ UNCHANGED <<config, top, cursor, bridged>>
    BY <1>9 DEF StartBackward, chat, room
  <2> QED
    BY <2>1, <2>2, StartType DEF Fetchers
<1>10. CASE Record
  <2>1. /\ To("backward", "idle") /\ cursor' = NextCursor("backward")
        /\ UNCHANGED <<config, top, bridged>>
        /\ call' = [call EXCEPT !["backward"] = NoCall]
    BY <1>10 DEF Record, room
  <2>2. /\ "backward" \in Callers
        /\ call' = [q \in Fetchers |-> IF q = "backward" THEN NoCall ELSE call[q]]
    BY <2>1 DEF TypeOK, Callers, Fetchers
  <2>3. NextCursor("backward") \in 0..top
    BY ConfigFacts, BatchFacts, EndFacts DEF NextCursor, Forward, Fetchers
  <2> QED
    BY <2>1, <2>2, <2>3, EndsType DEF TypeOK
<1>11. CASE Crash
  <2>1. UNCHANGED <<config, top, cursor, bridged, Calls>> /\ NoCall \in Calls
    BY <1>11, NoCallType, ConfigFacts DEF Crash, chat, room, Calls
  <2> QED
    BY <1>11, <2>1 DEF Crash, TypeOK, Callers, Fetchers
<1>12. CASE UNCHANGED vars
  BY <1>0, <1>12 DEF vars
<1> QED
  BY <1>1, <1>2, <1>3, <1>4, <1>5, <1>6, <1>7, <1>8, <1>9, <1>10, <1>11, <1>12
  DEF Next, Fetching

-----------------------------------------------------------------------------
(* The lock and the event                                                     *)

\* The places at which getTakeoutID has the lock.
Locked == {"clear", "init", "waiting", "save"}

\* A call leaves, or goes on without the lock.
LEMMA LeaveLock ==
    ASSUME TypeOK, LockHeld, AcceptedIsNoticed, NEW p \in Callers,
           NEW place \in Places \ Locked, To(p, place),
           holder' = holder \/ (holder = p /\ holder' = Nobody),
           UNCHANGED <<accepted, edit, takeoutAccepted>>
    PROVE  LockHeld' /\ AcceptedIsNoticed'
<1>1. \A q \in Callers : pc'[q] = IF q = p THEN place ELSE pc[q]
  BY DEF TypeOK, To
<1>2. place \notin {"clear", "init", "waiting", "save"}
  BY DEF Locked
<1>3. LockHeld'
  BY <1>1, <1>2 DEF LockHeld
<1>4. AcceptedIsNoticed'
  BY <1>1, <1>2 DEF AcceptedIsNoticed
<1> QED
  BY <1>3, <1>4

LEMMA LockInductive ==
    ASSUME TypeOK, LockHeld, AcceptedIsNoticed, [Next]_vars
    PROVE  LockHeld' /\ AcceptedIsNoticed'
<1> USE DEF Places, Asking, Locked
<1>0. ASSUME UNCHANGED <<pc, holder, accepted, edit, takeoutAccepted>>
      PROVE  LockHeld' /\ AcceptedIsNoticed'
  BY <1>0 DEF LockHeld, AcceptedIsNoticed
<1>1. CASE NewMessage \/ Invalidate \/ Fire \/ StopFails \/ SaveLogin \/ UNCHANGED vars
  BY <1>0, <1>1
  DEF NewMessage, Invalidate, Fire, StopFails, SaveLogin, vars, server, takeout
<1>2. CASE Accept \/ OnEdit
  BY <1>2 DEF Accept, OnEdit, takeout, LockHeld, AcceptedIsNoticed
<1>3. CASE StopTakeout \/ SaveStopped
  <2>1. /\ holder \in {Nobody, "stop"}
        /\ UNCHANGED <<pc, accepted, edit, takeoutAccepted>>
    BY <1>3 DEF StopTakeout, SaveStopped, server
  <2>2. \A q \in Callers : pc[q] \notin {"clear", "init", "waiting", "save"}
    BY <2>1 DEF LockHeld, Callers, Fetchers, Nobody
  <2> QED
    BY <2>1, <2>2 DEF LockHeld, AcceptedIsNoticed
<1>4. ASSUME NEW p \in Callers, Lock(p) PROVE LockHeld' /\ AcceptedIsNoticed'
  <2>1. /\ holder = Nobody /\ holder' = p
        /\ UNCHANGED <<accepted, edit, takeoutAccepted>>
        /\ To(p, "fetch") \/ To(p, "clear")
    BY <1>4 DEF Lock, server
  <2>2. \A q \in Callers : pc[q] \notin {"clear", "init", "waiting", "save"}
    BY <2>1 DEF LockHeld, Callers, Fetchers, Nobody
  <2>3. \A q \in Callers : IF q = p THEN pc'[q] \in {"fetch", "clear"} ELSE pc'[q] = pc[q]
    BY <2>1 DEF TypeOK, To
  <2> QED
    BY <2>1, <2>2, <2>3 DEF LockHeld, AcceptedIsNoticed
<1>5. ASSUME NEW p \in Callers, Takeout(p) PROVE LockHeld' /\ AcceptedIsNoticed'
  <2>1. pc[p] \in {"clear", "init", "waiting", "save"} /\ UNCHANGED holder
    BY <1>5
    DEF Takeout, Clear, InitTakeoutSession, InitDelay, Wake, SaveTakeout, takeout
  <2>2. holder = p /\ \A q \in Callers : pc[q] = "waiting" => q = p
    BY <2>1 DEF LockHeld
  <2>3. \A place : To(p, place) =>
            \A q \in Callers : pc'[q] = IF q = p THEN place ELSE pc[q]
    BY DEF TypeOK, To
  <2>4. CASE Clear(p) \/ InitTakeoutSession(p) \/ Wake(p)
    BY <2>1, <2>2, <2>3, <2>4
    DEF Clear, InitTakeoutSession, Wake, LockHeld, AcceptedIsNoticed
  <2>5. CASE InitDelay(p)
    BY <2>1, <2>2, <2>3, <2>5 DEF InitDelay, LockHeld, AcceptedIsNoticed, server
  <2>6. CASE SaveTakeout(p)
    BY <2>1, <2>2, <2>3, <2>6 DEF SaveTakeout, LockHeld, AcceptedIsNoticed, server
  <2> QED
    BY <1>5, <2>4, <2>5, <2>6 DEF Takeout
<1>6. ASSUME NEW p \in Callers, GetTakeoutFails(p) PROVE LockHeld' /\ AcceptedIsNoticed'
  <2>1. /\ pc[p] \in {"init", "save"} /\ To(p, "idle") /\ holder' = Nobody
        /\ UNCHANGED <<accepted, edit, takeoutAccepted>>
    BY <1>6 DEF GetTakeoutFails, server
  <2> QED
    BY <2>1, LeaveLock DEF LockHeld
<1>7. ASSUME NEW p \in Fetchers, Fetch(p) PROVE LockHeld' /\ AcceptedIsNoticed'
  <2>1. /\ To(p, "convert") \/ To(p, "fetch")
        /\ UNCHANGED <<holder, accepted, edit, takeoutAccepted>>
    BY <1>7 DEF Fetch, server, takeout
  <2> QED
    BY <2>1, LeaveLock DEF Callers
<1>8. ASSUME NEW p \in Fetchers, TakeoutInvalid(p) \/ FetchFails(p) \/ Return(p)
      PROVE LockHeld' /\ AcceptedIsNoticed'
  <2>1. /\ To(p, "idle") \/ To(p, "deliver")
        /\ holder' = holder \/ (holder = p /\ holder' = Nobody)
        /\ UNCHANGED <<accepted, edit, takeoutAccepted>>
    BY <1>8 DEF TakeoutInvalid, FetchFails, Return, Unlock, server
  <2> QED
    BY <2>1, LeaveLock DEF Callers
<1>9. ASSUME NEW p \in Fetchers, Deliver(p) PROVE LockHeld' /\ AcceptedIsNoticed'
  <2>1. /\ To(p, "idle") \/ To(p, "record")
        /\ UNCHANGED <<holder, accepted, edit, takeoutAccepted>>
    BY <1>9 DEF Deliver, server, takeout
  <2> QED
    BY <2>1, LeaveLock DEF Callers
<1>10. CASE LoginReturns
  <2>1. /\ To("login", "idle") /\ "login" \in Callers
        /\ holder' = holder \/ (holder = "login" /\ holder' = Nobody)
        /\ UNCHANGED <<accepted, edit, takeoutAccepted>>
    BY <1>10 DEF LoginReturns, Unlock, server, Callers
  <2> QED
    BY <2>1, LeaveLock
<1>11. CASE StartForward \/ StartBackward \/ Record
  <2>1. PICK p \in Fetchers : To(p, "lock") \/ To(p, "fetch") \/ To(p, "idle")
    BY <1>11 DEF StartForward, StartBackward, Record, Start, Fetchers
  <2>2. UNCHANGED <<holder, accepted, edit, takeoutAccepted>>
    BY <1>11 DEF StartForward, StartBackward, Record, server, takeout
  <2> QED
    BY <2>1, <2>2, LeaveLock DEF Callers
<1>12. CASE Crash
  BY <1>12 DEF Crash, LockHeld, AcceptedIsNoticed
<1> QED
  BY <1>1, <1>2, <1>3, <1>4, <1>5, <1>6, <1>7, <1>8, <1>9, <1>10, <1>11, <1>12
  DEF Next, Fetching

-----------------------------------------------------------------------------
(* The history                                                                *)

\* What the history says of a call stays true.
Unmoved(p) ==
    /\ call'[p].anchor = call[p].anchor /\ call'[p].min = call[p].min
    /\ call'[p].orig = call[p].orig /\ call'[p].offset = call[p].offset
    /\ call'[p].count = call[p].count /\ call'[p].messages = call[p].messages
    /\ \/ pc'[p] = pc[p]
       \/ pc[p] \in Asking /\ pc'[p] \in Asking
       \/ pc[p] = "convert" /\ pc'[p] = "deliver"

Stays(p) == pc'[p] = "idle" \/ Unmoved(p)

\* Neither call fetches or ends with a batch, and the room stays as it is.
Rests(p) ==
    \/ pc'[p] = "idle"
    \/ call'[p] = call[p] /\ pc'[p] = pc[p]
    \/ call'[p] = call[p] /\ pc[p] \in Asking /\ pc'[p] \in Asking

Quiet ==
    /\ UNCHANGED <<config, room, cursor>> /\ top' >= top
    /\ \A p \in Fetchers : Rests(p)

LEMMA RestsStays == \A p \in Fetchers : Rests(p) => Stays(p)
BY DEF Rests, Stays, Unmoved

LEMMA AboveStays ==
    ASSUME UNCHANGED <<config, bridged, lost>>
    PROVE  \A k : Above(k)' <=> Above(k)
BY DEF Above, Settled

LEMMA ForwardStays ==
    ASSUME ForwardOK, UNCHANGED bridged, Stays("forward")
    PROVE  ForwardOK'
<1>1. CASE pc'["forward"] = "idle"
  BY <1>1 DEF ForwardOK
<1>2. CASE pc'["forward"] # "idle" /\ Unmoved("forward")
  <2>1. pc["forward"] # "idle" /\ (pc'["forward"] \in Asking => pc["forward"] \in Asking)
    BY <1>2 DEF Unmoved, Asking
  <2> QED
    BY <1>2, <2>1 DEF ForwardOK, Unmoved, Convex
<1> QED
  BY <1>1, <1>2 DEF Stays

LEMMA BackwardStays ==
    ASSUME TypeOK, TypeOK', BackwardOK, RecordOK, Stays("backward"),
           UNCHANGED <<config, bridged, lost, cursor>>, top' >= top
    PROVE  BackwardOK' /\ RecordOK'
<1>1. CASE pc'["backward"] = "idle"
  BY <1>1 DEF BackwardOK, RecordOK
<1>2. CASE pc'["backward"] # "idle" /\ Unmoved("backward")
  <2>1. /\ pc'["backward"] \notin {"idle", "record"} => pc["backward"] \notin {"idle", "record"}
        /\ pc'["backward"] = "record" => pc["backward"] = "record"
        /\ pc'["backward"] \in Asking => pc["backward"] \in Asking
    BY <1>2 DEF Unmoved, Asking
  <2>2. call["backward"].orig <= top => call'["backward"].orig <= top'
    <3>1. call["backward"].orig \in Nat /\ top \in Nat /\ top' \in Nat
      BY ConfigFacts, BackfillConstants DEF TypeOK, Calls, Fetchers
    <3> QED
      BY <1>2, <3>1 DEF Unmoved
  <2>3. BackwardOK'
    BY <1>2, <2>1, <2>2, AboveStays DEF BackwardOK, Unmoved, Convex
  <2>4. Batch("backward")' = Batch("backward")
    BY <1>2 DEF Unmoved, Batch, Forward, trimTrailingAlbum, GroupedID
  <2>5. RecordOK'
    BY <2>1, <2>4, AboveStays DEF RecordOK
  <2> QED
    BY <2>3, <2>5
<1> QED
  BY <1>1, <1>2 DEF Stays

LEMMA JoinedAbove == Joined <=> \A a \in bridged : Above(a)
BY DEF Joined, Above

\* The steps that neither begin a call, nor fetch, nor bridge, nor record.
LEMMA HistoryStays ==
    ASSUME TypeOK, TypeOK', History, \A p \in Fetchers : Stays(p),
           UNCHANGED <<config, bridged, lost, cursor>>, top' >= top
    PROVE  History'
<1>1. ForwardOK' /\ BackwardOK' /\ RecordOK'
  BY ForwardStays, BackwardStays DEF History, Fetchers
<1>2. \A p \in Fetchers : pc[p] = "idle" => pc'[p] = "idle"
  BY DEF Stays, Unmoved, Asking
<1>3. (bridged = {} => pc["forward"] = "idle" \/ pc["backward"] = "idle")'
  BY <1>2 DEF History, Fetchers
<1>4. Joined' /\ (cursor # 0 => Above(cursor))'
  BY AboveStays DEF History, Joined, Settled
<1> QED
  BY <1>1, <1>3, <1>4 DEF History

LEMMA StartForwardHistory ==
    ASSUME TypeOK, TypeOK', History, config.calls = {}, StartForward
    PROVE  History'
<1> DEFINE newest == Newest(bridged)
<1> DEFINE count == IF newest = 0 THEN config.initial ELSE config.catchup
<1>1. /\ UNCHANGED <<config, top, bridged, lost, cursor>>
      /\ Start("forward", newest, count) /\ Free("backward")
  BY DEF StartForward, room
<1>2. /\ newest \in 0..top
      /\ bridged = {} => newest = 0
      /\ bridged # {} => newest \in bridged /\ \A b \in bridged : b <= newest
  BY ConfigFacts, EndFacts DEF TypeOK
<1>3. call' = [call EXCEPT !["forward"] = Parameters("forward", newest, count)]
  BY <1>1 DEF Start
<1>4. call'["forward"] = Parameters("forward", newest, count)
  BY <1>3 DEF TypeOK, Fetchers
<1> HIDE DEF newest, count
<1>5. LET c == call'["forward"]
      IN c.anchor = newest /\ c.min = newest /\ c.messages = {} /\ c.offset = 0
  BY <1>4 DEF Parameters, Forward
<1>6. ForwardOK'
  BY <1>1, <1>2, <1>5 DEF ForwardOK, Convex
<1>7. Stays("backward")
  BY <1>1, <1>3 DEF Stays, Unmoved, Start, To, TypeOK, Callers, Fetchers
<1>8. BackwardOK' /\ RecordOK'
  BY <1>1, <1>7, BackwardStays, ConfigFacts DEF History
<1>9. (bridged = {} => pc["forward"] = "idle" \/ pc["backward"] = "idle")'
  BY <1>1 DEF Free, Start, To, TypeOK, Callers, Fetchers
<1>10. Joined' /\ (cursor # 0 => Above(cursor))'
  BY <1>1, AboveStays DEF History, Joined, Settled
<1> QED
  BY <1>6, <1>8, <1>9, <1>10 DEF History

LEMMA StartBackwardHistory ==
    ASSUME TypeOK, TypeOK', History, config.calls = {}, StartBackward
    PROVE  History'
<1> DEFINE oldest == Oldest(bridged)
<1> DEFINE orig == Offset(oldest, cursor)
<1>1. /\ UNCHANGED <<config, top, bridged, lost, cursor>>
      /\ Start("backward", oldest, config.batch) /\ Free("forward")
  BY DEF StartBackward, chat, room
<1>2. /\ oldest \in 0..top
      /\ bridged = {} => oldest = 0
      /\ bridged # {} => oldest \in bridged /\ \A b \in bridged : oldest <= b
  BY ConfigFacts, EndFacts DEF TypeOK
<1>3. call' = [call EXCEPT !["backward"] = Parameters("backward", oldest, config.batch)]
  BY <1>1 DEF Start
<1>4. call'["backward"] = Parameters("backward", oldest, config.batch)
  BY <1>3 DEF TypeOK, Fetchers
<1>5. top \in Nat /\ cursor \in 0..top /\ \A b \in bridged : b \in 1..top
  BY ConfigFacts DEF TypeOK
<1> HIDE DEF oldest
<1>6. LET c == call'["backward"]
      IN c.min = 0 /\ c.messages = {} /\ c.offset = orig /\ c.orig = orig
  BY <1>4 DEF Parameters, Forward
<1>7. /\ orig <= top
      /\ orig = 0 => bridged = {}
      /\ orig # 0 => Above(orig) /\ \A b \in bridged : orig <= b
      /\ cursor # 0 => orig # 0 /\ orig <= cursor
  <2>1. (\A a \in bridged : Above(a)) /\ (cursor # 0 => Above(cursor))
    BY JoinedAbove DEF History
  <2>2. \/ orig = cursor /\ cursor # 0 /\ (oldest = 0 \/ cursor < oldest)
        \/ orig = oldest /\ ~(cursor # 0 /\ (oldest = 0 \/ cursor < oldest))
    BY DEF Offset
  <2>3. orig \in 0..top
    BY <1>2, <1>5, <2>2
  <2> HIDE DEF orig
  <2>4. \A b \in bridged : orig <= b
    BY <1>2, <1>5, <2>2, <2>3
  <2>5. orig # 0 => Above(orig)
    BY <1>2, <2>1, <2>2
  <2>6. orig <= top /\ (orig = 0 => bridged = {}) /\ (cursor # 0 => orig # 0 /\ orig <= cursor)
    BY <1>2, <1>5, <2>2, <2>3
  <2> QED
    BY <2>4, <2>5, <2>6
<1> HIDE DEF orig
<1>8. pc'["backward"] \in {"lock", "fetch"}
  BY <1>1 DEF Start, To, TypeOK, Callers, Fetchers
<1>9. BackwardOK' /\ RecordOK'
  BY <1>1, <1>6, <1>7, <1>8, AboveStays DEF BackwardOK, RecordOK, Convex
<1>10. Stays("forward")
  BY <1>1, <1>3 DEF Stays, Unmoved, Start, To, TypeOK, Callers, Fetchers
<1>11. ForwardOK'
  BY <1>1, <1>10, ForwardStays DEF History
<1>12. (bridged = {} => pc["forward"] = "idle" \/ pc["backward"] = "idle")'
  BY <1>1 DEF Free, Start, To, TypeOK, Callers, Fetchers
<1>13. Joined' /\ (cursor # 0 => Above(cursor))'
  BY <1>1, AboveStays DEF History, Joined, Settled
<1> QED
  BY <1>9, <1>11, <1>12, <1>13 DEF History

\* One more request of a forward call.
LEMMA ForwardRequest ==
    ASSUME TypeOK, Fetch("forward")
    PROVE  LET c == call["forward"]
               d == call'["forward"]
               new == GetHistory(c)
           IN /\ c \in Calls /\ top \in Nat
              /\ new \subseteq Found(c) /\ new \subseteq 1..top
              /\ \A m \in new, n \in Found(c) : m <= n => n \in new
              /\ new # {} => Oldest(new) \in new /\ \A m \in new : Oldest(new) <= m
              /\ UNCHANGED <<config, top, bridged, lost, cut, albumIndex, cursor>>
              /\ pc["forward"] = "fetch" /\ pc'["backward"] = pc["backward"]
              /\ call'["backward"] = call["backward"]
              /\ d.anchor = c.anchor /\ d.min = c.min /\ d.messages = c.messages \cup new
              /\ pc'["forward"] \in {"fetch", "convert"}
              /\ pc'["forward"] = "fetch" => new # {} /\ d.offset = Oldest(new)
<1> DEFINE c == call["forward"]
<1> DEFINE new == GetHistory(c)
<1>1. c \in Calls /\ top \in 0..MaxID /\ top \in Nat
  BY ConfigFacts DEF TypeOK, Fetchers
<1>2. /\ new \subseteq Found(c) /\ new \subseteq 1..top
      /\ \A m \in new, n \in Found(c) : m <= n => n \in new
      /\ Cardinality(new) \in Nat /\ (Cardinality(new) >= ChunkLimit => new # {})
  <2>1. Found(c) \subseteq 1..top
    BY DEF Found
  <2> QED
    BY <1>1, <2>1, GetHistoryFacts
<1>3. new # {} => Oldest(new) \in new /\ \A m \in new : Oldest(new) <= m
  BY <1>1, <1>2, EndFacts
<1>4. /\ UNCHANGED <<config, top, bridged, lost, cut, albumIndex, cursor>>
      /\ pc["forward"] = "fetch" /\ pc'["backward"] = pc["backward"]
      /\ call'["backward"] = call["backward"]
  BY DEF Fetch, chat, room, TypeOK, To, Fetchers, Callers
<1>5. LET d == call'["forward"]
      IN /\ d.anchor = c.anchor /\ d.min = c.min /\ d.messages = c.messages \cup new
         /\ pc'["forward"] \in {"fetch", "convert"}
         /\ pc'["forward"] = "fetch" =>
               Cardinality(new) >= ChunkLimit /\ d.offset = Oldest(new)
  <2>0. call \in [Fetchers -> Calls] /\ pc \in [Callers -> Places]
        /\ "forward" \in Fetchers /\ "forward" \in Callers
    BY DEF TypeOK, Fetchers, Callers
  <2>1. CASE Cardinality(new) < ChunkLimit
    <3>1. /\ To("forward", "convert")
          /\ call' = [call EXCEPT !["forward"].messages = c.messages \cup new]
      BY <2>1 DEF Fetch
    <3> HIDE DEF new
    <3> QED
      BY <2>0, <3>1 DEF To, Calls
  <2>2. CASE ~(Cardinality(new) < ChunkLimit)
    <3>1. /\ To("forward", "convert") \/ To("forward", "fetch")
          /\ call' = [call EXCEPT !["forward"].messages = c.messages \cup new,
                                  !["forward"].limit = c.limit - Cardinality(new),
                                  !["forward"].offset = Oldest(new)]
      BY <2>2 DEF Fetch, Forward
    <3>2. Cardinality(new) >= ChunkLimit
      BY <1>2, <2>2, BackfillConstants
    <3> HIDE DEF new
    <3> QED
      BY <2>0, <3>1, <3>2 DEF To, Calls
  <2> QED
    BY <2>1, <2>2
<1> QED
  BY <1>1, <1>2, <1>3, <1>4, <1>5

\* What a forward call has fetched has no hole.
LEMMA FetchForwardHistory ==
    ASSUME TypeOK, TypeOK', History, Fetch("forward")
    PROVE  History'
<1> DEFINE c == call["forward"]
<1> DEFINE new == GetHistory(c)
<1>1. c \in Calls /\ top \in Nat
  BY ForwardRequest
<1>2. /\ new \subseteq Found(c) /\ new \subseteq 1..top
      /\ \A m \in new, n \in Found(c) : m <= n => n \in new
  BY ForwardRequest
<1>3. new # {} => Oldest(new) \in new /\ \A m \in new : Oldest(new) <= m
  BY ForwardRequest
<1>4. /\ UNCHANGED <<config, top, bridged, lost, cursor>>
      /\ pc["forward"] = "fetch" /\ pc'["backward"] = pc["backward"]
      /\ call'["backward"] = call["backward"]
  BY ForwardRequest
<1>5. LET d == call'["forward"]
      IN /\ d.anchor = c.anchor /\ d.min = c.min /\ d.messages = c.messages \cup new
         /\ pc'["forward"] \in {"fetch", "convert"}
         /\ pc'["forward"] = "fetch" => new # {} /\ d.offset = Oldest(new)
  BY ForwardRequest
<1>6. /\ \A m \in c.messages : m > c.min
      /\ Convex(c.messages)
      /\ \/ c.messages = {} /\ c.offset = 0
         \/ c.offset \in c.messages /\ \A m \in c.messages : c.offset <= m
      /\ c.messages \subseteq 1..top /\ c.min \in Nat /\ c.offset \in Nat
  BY <1>1, <1>4 DEF History, ForwardOK, Asking, Calls
<1>7. \A m \in new : m > c.min /\ (c.offset = 0 \/ m < c.offset)
  BY <1>2 DEF Found
<1>8. \A n \in 1..top, m \in new : m <= n /\ (c.offset = 0 \/ n < c.offset) => n \in new
  <2> SUFFICES ASSUME NEW n \in 1..top, NEW m \in new, m <= n, c.offset = 0 \/ n < c.offset
               PROVE  n \in new
    OBVIOUS
  <2>1. n > c.min
    BY <1>1, <1>2, <1>6, <1>7
  <2>2. n \in Found(c)
    BY <2>1 DEF Found
  <2> QED
    BY <1>2, <2>2
<1> HIDE DEF c, new
<1>9. Convex(c.messages \cup new)
  <2> SUFFICES ASSUME NEW a \in c.messages \cup new, NEW b \in c.messages \cup new,
                      NEW m \in a..b
               PROVE  m \in c.messages \cup new
    BY DEF Convex
  <2>1. a \in 1..top /\ b \in 1..top /\ m \in 1..top /\ a <= m /\ m <= b
    <3>1. a \in 1..top /\ b \in 1..top
      BY <1>2, <1>6
    <3> QED
      BY <1>1, <3>1
  <2>2. CASE a \in c.messages
    <3>1. b \in c.messages
      BY <1>6, <1>7, <2>1, <2>2
    <3> QED
      BY <1>6, <2>2, <3>1 DEF Convex
  <2>3. CASE a \in new /\ b \in new
    <3>1. c.offset = 0 \/ m < c.offset
      BY <1>6, <1>7, <2>1, <2>3
    <3> QED
      BY <1>8, <2>1, <2>3, <3>1
  <2>4. CASE a \in new /\ b \in c.messages
    <3>1. CASE m < c.offset
      BY <1>8, <2>1, <2>4, <3>1
    <3>2. CASE c.offset <= m
      <4>1. m \in (c.offset)..b /\ c.offset \in c.messages
        BY <1>6, <2>1, <2>4, <3>2
      <4> QED
        BY <1>6, <2>4, <4>1 DEF Convex
    <3> QED
      BY <1>6, <2>1, <3>1, <3>2
  <2> QED
    BY <2>2, <2>3, <2>4
<1>10. ForwardOK'
  <2>1. /\ \/ c.anchor = 0 /\ bridged = {}
           \/ c.anchor \in bridged /\ \A b \in bridged : b <= c.anchor
        /\ c.min = c.anchor
    BY <1>4 DEF History, ForwardOK, c
  <2>2. \A m \in c.messages \cup new : m > c.min
    BY <1>6, <1>7
  <2>3. pc'["forward"] \in Asking =>
           /\ Oldest(new) \in c.messages \cup new
           /\ \A m \in c.messages \cup new : Oldest(new) <= m
    <3> SUFFICES ASSUME pc'["forward"] \in Asking,
                        NEW m \in c.messages
                 PROVE  new # {} /\ Oldest(new) <= m
      BY <1>2, <1>3, <1>5 DEF Asking
    <3>1. new # {} /\ Oldest(new) \in new
      BY <1>2, <1>3, <1>5 DEF Asking
    <3>2. Oldest(new) \in 1..top /\ m \in 1..top
      BY <1>2, <1>6, <3>1
    <3>3. Oldest(new) < c.offset /\ c.offset <= m
      BY <1>6, <1>7, <3>1
    <3> QED
      BY <1>6, <3>1, <3>2, <3>3
  <2> QED
    BY <1>4, <1>5, <1>9, <2>1, <2>2, <2>3 DEF ForwardOK, Asking
<1>11. BackwardOK' /\ RecordOK'
  BY <1>1, <1>4, BackwardStays DEF History, Stays, Unmoved
<1>12. Joined' /\ (cursor # 0 => Above(cursor))'
  BY <1>4, AboveStays DEF History, Joined, Settled
<1> QED
  BY <1>4, <1>10, <1>11, <1>12 DEF History

\* The request of a backward call.
LEMMA BackwardRequest ==
    ASSUME TypeOK, Fetch("backward")
    PROVE  LET c == call["backward"]
               d == call'["backward"]
               new == GetHistory(c)
           IN /\ c \in Calls /\ top \in Nat
              /\ new \subseteq Found(c) /\ new \subseteq 1..top
              /\ \A m \in new, n \in Found(c) : m <= n => n \in new
              /\ UNCHANGED <<config, top, bridged, lost, cut, albumIndex, cursor>>
              /\ pc["backward"] = "fetch" /\ pc'["forward"] = pc["forward"]
              /\ call'["forward"] = call["forward"]
              /\ d.min = c.min /\ d.orig = c.orig /\ d.count = c.count
              /\ d.messages = c.messages \cup new
              /\ pc'["backward"] = "convert"
<1> DEFINE c == call["backward"]
<1> DEFINE new == GetHistory(c)
<1>1. c \in Calls /\ top \in 0..MaxID /\ top \in Nat
  BY ConfigFacts DEF TypeOK, Fetchers
<1>2. /\ new \subseteq Found(c) /\ new \subseteq 1..top
      /\ \A m \in new, n \in Found(c) : m <= n => n \in new
  <2>1. Found(c) \subseteq 1..top
    BY DEF Found
  <2> QED
    BY <1>1, <2>1, GetHistoryFacts
<1>3. /\ UNCHANGED <<config, top, bridged, lost, cut, albumIndex, cursor>>
      /\ pc["backward"] = "fetch" /\ pc'["forward"] = pc["forward"]
      /\ call'["forward"] = call["forward"]
  BY DEF Fetch, chat, room, TypeOK, To, Fetchers, Callers
<1>4. LET d == call'["backward"]
      IN /\ d.min = c.min /\ d.orig = c.orig /\ d.count = c.count
         /\ d.messages = c.messages \cup new
         /\ pc'["backward"] = "convert"
  <2>1. /\ To("backward", "convert")
        /\ call' = [call EXCEPT !["backward"].messages = c.messages \cup new]
    BY DEF Fetch, Forward
  <2>2. call \in [Fetchers -> Calls] /\ pc \in [Callers -> Places]
        /\ "backward" \in Fetchers /\ "backward" \in Callers
    BY DEF TypeOK, Fetchers, Callers
  <2> HIDE DEF new
  <2> QED
    BY <2>1, <2>2 DEF To, Calls
<1> QED
  BY <1>1, <1>2, <1>3, <1>4

\* What a backward call has fetched reaches up to where it began.
LEMMA FetchBackwardHistory ==
    ASSUME TypeOK, TypeOK', History, Fetch("backward")
    PROVE  History'
<1> DEFINE c == call["backward"]
<1> DEFINE new == GetHistory(c)
<1>1. c \in Calls /\ top \in Nat
  BY BackwardRequest
<1>2. /\ new \subseteq Found(c) /\ new \subseteq 1..top
      /\ \A m \in new, n \in Found(c) : m <= n => n \in new
  BY BackwardRequest
<1>3. /\ UNCHANGED <<config, top, bridged, lost, cursor>>
      /\ pc["backward"] = "fetch" /\ pc'["forward"] = pc["forward"]
      /\ call'["forward"] = call["forward"]
  BY BackwardRequest
<1>4. LET d == call'["backward"]
      IN /\ d.min = c.min /\ d.orig = c.orig /\ d.messages = c.messages \cup new
         /\ pc'["backward"] = "convert"
  BY BackwardRequest
<1>5. /\ c.min = 0 /\ c.orig <= top /\ c.messages = {} /\ c.offset = c.orig
      /\ c.orig \in Nat
      /\ c.orig = 0 => bridged = {}
      /\ c.orig # 0 => Above(c.orig) /\ \A b \in bridged : c.orig <= b
      /\ cursor # 0 => c.orig # 0 /\ c.orig <= cursor
  BY <1>1, <1>3 DEF History, BackwardOK, Asking, Calls
<1>6. \A m \in new : c.orig = 0 \/ m < c.orig
  BY <1>2, <1>5 DEF Found
<1>7. \A n \in 1..top, m \in new : m <= n /\ (c.orig = 0 \/ n < c.orig) => n \in new
  <2> SUFFICES ASSUME NEW n \in 1..top, NEW m \in new, m <= n, c.orig = 0 \/ n < c.orig
               PROVE  n \in new
    OBVIOUS
  <2>1. n \in Found(c)
    BY <1>5 DEF Found
  <2> QED
    BY <1>2, <2>1
<1> HIDE DEF c, new
<1>8. Convex(new)
  <2> SUFFICES ASSUME NEW a \in new, NEW b \in new, NEW m \in a..b PROVE m \in new
    BY DEF Convex
  <2>1. a \in 1..top /\ b \in 1..top /\ m \in 1..top /\ a <= m /\ m <= b
    BY <1>1, <1>2
  <2>2. c.orig = 0 \/ m < c.orig
    BY <1>5, <1>6, <2>1
  <2> QED
    BY <1>7, <2>1, <2>2
<1>9. ASSUME c.orig # 0, NEW m \in new, NEW n \in m..(c.orig - 1) PROVE n \in new
  <2>1. m \in 1..top /\ n \in 1..top /\ m <= n /\ n < c.orig
    BY <1>1, <1>2, <1>5
  <2> QED
    BY <1>7, <2>1
<1>10. c.messages \cup new = new
  BY <1>5
<1>11. BackwardOK'
  BY <1>3, <1>4, <1>5, <1>6, <1>8, <1>9, <1>10, AboveStays DEF BackwardOK, Asking
<1>12. RecordOK'
  BY <1>4 DEF RecordOK
<1>13. ForwardOK'
  BY <1>3, ForwardStays DEF History, Stays, Unmoved
<1>14. Joined' /\ (cursor # 0 => Above(cursor))'
  BY <1>3, AboveStays DEF History, Joined, Settled
<1> QED
  BY <1>3, <1>11, <1>12, <1>13, <1>14 DEF History

\* Above in the next state, for a k of this one.
AboveThen(k) == \A b \in bridged' : \A m \in k..b : Settled(m)'

\* A forward batch leaves no hole above k: what lies between its oldest message
\* and the anchor, or the place where the task in the queue began, was left out
\* because of its size.
LEMMA ForwardAbove ==
    ASSUME TypeOK, History, Deliver("forward"), NEW k \in Nat, Above(k),
           \/ call["forward"].anchor # 0
           \/ k # 0 /\ cursor # 0 /\ cursor <= k
    PROVE  AboveThen(k)
<1> DEFINE c == call["forward"]
<1> DEFINE new == Converted("forward")
<1> DEFINE from == IF c.anchor # 0 THEN c.anchor + 1 ELSE IF done THEN 1 ELSE cursor
<1>1. c \in Calls /\ top \in Nat /\ cursor \in 0..top /\ bridged \subseteq 1..top
  BY ConfigFacts DEF TypeOK, Fetchers
<1>2. /\ \/ c.anchor = 0 /\ bridged = {}
         \/ c.anchor \in bridged /\ \A b \in bridged : b <= c.anchor
      /\ c.min = c.anchor
      /\ \A m \in c.messages : m > c.min
      /\ Convex(c.messages)
  BY DEF History, ForwardOK, Deliver
<1>3. /\ c.messages \subseteq 1..top /\ c.anchor \in Nat
      /\ new = c.messages \ config.service
  BY <1>1, <1>2, ConvertedFacts DEF Calls, Fetchers
<1>4. c.messages # {} => /\ Oldest(c.messages) \in c.messages
                         /\ \A m \in c.messages : Oldest(c.messages) <= m
  BY <1>1, <1>3, EndFacts
<1>5. /\ bridged' = bridged \cup new /\ UNCHANGED config
      /\ lost' = IF from = 0 THEN lost ELSE lost \cup from..(Oldest(c.messages) - 1)
  BY DEF Deliver, Forward
<1>6. from \in Nat \ {0} /\ (c.anchor = 0 => from <= k)
  BY <1>1, <1>3
<1> HIDE DEF c, new, from
<1>7. \A m : Settled(m) => Settled(m)'
  BY <1>5 DEF Settled
<1> SUFFICES ASSUME NEW b \in bridged', NEW m \in k..b PROVE Settled(m)'
  BY DEF AboveThen
<1>8. CASE b \in bridged
  BY <1>7, <1>8 DEF Above
<1>9. CASE b \in new
  <2>1. b \in c.messages /\ b \in 1..top /\ m \in Nat /\ k <= m /\ m <= b
    BY <1>1, <1>3, <1>9
  <2>2. Oldest(c.messages) \in c.messages /\ Oldest(c.messages) \in 1..top
    BY <1>3, <1>4, <2>1
  <2>3. CASE m >= Oldest(c.messages)
    <3>1. m \in Oldest(c.messages)..b
      BY <2>1, <2>2, <2>3
    <3>2. m \in c.messages
      BY <1>2, <2>1, <2>2, <3>1 DEF Convex
    <3> QED
      BY <1>3, <1>5, <3>2 DEF Settled
  <2>4. CASE m < Oldest(c.messages) /\ m >= from
    <3>1. m \in from..(Oldest(c.messages) - 1)
      BY <1>6, <2>1, <2>2, <2>4
    <3> QED
      BY <1>5, <1>6, <3>1 DEF Settled
  <2>5. CASE m < from
    <3>1. c.anchor # 0
      BY <1>6, <2>1, <2>5
    <3>2. c.anchor \in bridged /\ m \in k..(c.anchor)
      BY <1>2, <1>3, <2>1, <2>5, <3>1 DEF from
    <3>3. Settled(m)
      BY <3>2 DEF Above
    <3> QED
      BY <1>7, <3>3
  <2> QED
    BY <1>6, <2>1, <2>2, <2>3, <2>4, <2>5
<1> QED
  BY <1>5, <1>8, <1>9

LEMMA DeliverForwardHistory ==
    ASSUME TypeOK, TypeOK', History, Deliver("forward")
    PROVE  History'
<1> DEFINE c == call["forward"]
<1> DEFINE new == Converted("forward")
<1>1. /\ c \in Calls /\ top \in Nat /\ cursor \in 0..top /\ bridged \subseteq 1..top
      /\ pc \in [Callers -> Places] /\ call \in [Fetchers -> Calls]
  BY ConfigFacts DEF TypeOK, Fetchers
<1>2. /\ \/ c.anchor = 0 /\ bridged = {}
         \/ c.anchor \in bridged /\ \A b \in bridged : b <= c.anchor
      /\ c.min = c.anchor
      /\ \A m \in c.messages : m > c.min
      /\ Convex(c.messages)
  BY DEF History, ForwardOK, Deliver
<1>3. /\ c.messages \subseteq 1..top /\ c.anchor \in Nat
      /\ new = c.messages \ config.service
  BY <1>1, <1>2, ConvertedFacts DEF Calls, Fetchers
<1>4. /\ bridged' = bridged \cup new /\ UNCHANGED <<config, top, cursor>>
      /\ pc'["forward"] = "idle" /\ pc'["backward"] = pc["backward"]
      /\ call'["backward"] = call["backward"] /\ pc["forward"] = "deliver"
  BY <1>1 DEF Deliver, Forward, To, Callers, Fetchers
<1> HIDE DEF c, new
<1>5. bridged # {} => c.anchor # 0
  <2>1. \A a \in bridged : a # 0
    BY <1>1
  <2> QED
    BY <1>2, <2>1
<1>6. \A b \in new : \A a \in bridged : a < b
  <2> SUFFICES ASSUME NEW b \in new, NEW a \in bridged PROVE a < b
    OBVIOUS
  <2>1. b \in 1..top /\ a \in 1..top /\ a <= c.anchor /\ c.anchor < b
    BY <1>1, <1>2, <1>3
  <2> QED
    BY <1>1, <1>3, <2>1
<1>7. Joined'
  <2> SUFFICES ASSUME NEW a \in bridged' PROVE AboveThen(a)
    BY DEF Joined, AboveThen
  <2>1. CASE a \in bridged
    <3>1. Above(a) /\ a \in Nat /\ c.anchor # 0
      BY <1>1, <1>5, <2>1, JoinedAbove DEF History
    <3> QED
      BY <3>1, ForwardAbove DEF c
  <2>2. CASE a \in new
    <3> SUFFICES ASSUME NEW b \in bridged', NEW m \in a..b PROVE Settled(m)'
      BY DEF AboveThen
    <3>1. a \in 1..top /\ b \in 1..top
      BY <1>1, <1>3, <1>4, <2>2
    <3>2. b \in new
      BY <1>4, <1>6, <2>2, <3>1
    <3>3. m \in c.messages
      BY <1>2, <1>3, <2>2, <3>2 DEF Convex
    <3> QED
      BY <1>3, <1>4, <3>3 DEF Settled
  <2> QED
    BY <1>4, <2>1, <2>2
<1>8. (cursor # 0 => Above(cursor))'
  <2> SUFFICES ASSUME cursor # 0 PROVE AboveThen(cursor)
    BY <1>4 DEF Above, AboveThen
  <2>1. Above(cursor) /\ cursor \in Nat
    BY <1>1 DEF History
  <2> QED
    BY <2>1, ForwardAbove
<1>9. pc["backward"] # "idle" => bridged # {} /\ c.anchor # 0
  BY <1>4, <1>5 DEF History
<1>10. BackwardOK'
  <2> DEFINE d == call["backward"]
  <2> SUFFICES ASSUME pc["backward"] \notin {"idle", "record"} PROVE BackwardOK'
    BY <1>4 DEF BackwardOK
  <2>1. /\ d.min = 0 /\ d.orig <= top /\ d.orig # 0 /\ d.orig \in Nat
        /\ Above(d.orig) /\ \A b \in bridged : d.orig <= b
    BY <1>1, <1>9 DEF History, BackwardOK, Calls, Fetchers
  <2>2. AboveThen(d.orig)
    BY <1>9, <2>1, ForwardAbove DEF c
  <2>3. (\A b \in bridged : \A m \in call["backward"].orig..b : Settled(m))'
    BY <1>4, <2>2 DEF AboveThen
  <2>4. ASSUME NEW b \in bridged' PROVE d.orig <= b
    <3>1. CASE b \in bridged
      BY <2>1, <3>1
    <3>2. CASE b \in new
      <4>1. c.anchor \in bridged /\ c.anchor < b /\ d.orig <= c.anchor
        BY <1>2, <1>6, <1>9, <2>1, <3>2
      <4>2. b \in Nat
        BY <1>3, <3>2
      <4> QED
        BY <1>3, <2>1, <4>1, <4>2
    <3> QED
      BY <1>4, <3>1, <3>2
  <2>5. /\ cursor # 0 => d.orig # 0 /\ d.orig <= cursor
        /\ Convex(d.messages)
        /\ \A m \in d.messages : m < d.orig /\ \A n \in m..(d.orig - 1) : n \in d.messages
        /\ pc["backward"] \in Asking => d.messages = {} /\ d.offset = d.orig
    BY <2>1 DEF History, BackwardOK
  <2> HIDE DEF d
  <2>6. call'["backward"] = d
    BY <1>4 DEF d
  <2> QED
    BY <1>4, <2>1, <2>3, <2>4, <2>5, <2>6 DEF BackwardOK, Convex, Above
<1>11. RecordOK'
  <2> SUFFICES ASSUME pc["backward"] = "record", NEW m \in Batch("backward") PROVE AboveThen(m)
    <3>1. Batch("backward")' = Batch("backward")
      BY <1>4 DEF Batch, Forward, trimTrailingAlbum, GroupedID
    <3> QED
      BY <1>4, <3>1 DEF RecordOK, Above, AboveThen
  <2>1. Above(m) /\ m \in Nat /\ c.anchor # 0
    BY <1>1, <1>9, BatchFacts DEF History, RecordOK, Fetchers
  <2> QED
    BY <2>1, ForwardAbove DEF c
<1> QED
  BY <1>4, <1>7, <1>8, <1>10, <1>11 DEF History, ForwardOK

LEMMA DeliverBackwardHistory ==
    ASSUME TypeOK, TypeOK', History, Deliver("backward")
    PROVE  History'
<1> DEFINE c == call["backward"]
<1> DEFINE batch == Batch("backward")
<1> DEFINE new == Converted("backward")
<1>1. /\ c \in Calls /\ top \in Nat /\ cursor \in 0..top /\ bridged \subseteq 1..top
      /\ pc \in [Callers -> Places] /\ call \in [Fetchers -> Calls]
  BY ConfigFacts DEF TypeOK, Fetchers
<1>2. /\ c.orig = 0 => bridged = {}
      /\ c.orig # 0 => Above(c.orig) /\ \A b \in bridged : c.orig <= b
      /\ cursor # 0 => c.orig # 0 /\ c.orig <= cursor
      /\ Convex(c.messages)
      /\ c.orig # 0 =>
            \A m \in c.messages :
                m < c.orig /\ \A n \in m..(c.orig - 1) : n \in c.messages
  BY DEF History, BackwardOK, Deliver
<1>3. c.messages \subseteq 1..top /\ c.orig \in Nat
  BY <1>1 DEF Calls
<1>4. /\ batch \subseteq c.messages /\ batch \subseteq 1..top
      /\ \A m \in batch, n \in c.messages : m <= n => n \in batch
      /\ new = batch \ config.service
  BY <1>2, BatchFacts, ConvertedFacts DEF Fetchers
<1>5. /\ bridged' = bridged \cup new /\ UNCHANGED <<config, top, cursor, lost, call>>
      /\ pc'["backward"] = "record" /\ pc'["forward"] = pc["forward"]
      /\ pc["backward"] = "deliver"
  BY <1>1 DEF Deliver, Forward, To, Callers, Fetchers
<1> HIDE DEF c, batch, new
<1>6. \A m : Settled(m) \/ m \in batch => Settled(m)'
  BY <1>4, <1>5 DEF Settled
<1>7. \A b \in new : \A k \in Nat : c.orig # 0 /\ c.orig <= k => b < k
  <2> SUFFICES ASSUME NEW b \in new, NEW k \in Nat, c.orig # 0, c.orig <= k PROVE b < k
    OBVIOUS
  <2>1. b \in c.messages /\ b \in 1..top
    BY <1>4
  <2>2. b < c.orig
    BY <1>2, <2>1
  <2> QED
    BY <1>3, <2>1, <2>2
<1>8. ASSUME NEW k \in Nat, Above(k), c.orig # 0, c.orig <= k PROVE AboveThen(k)
  <2> SUFFICES ASSUME NEW b \in bridged', NEW m \in k..b PROVE Settled(m)'
    BY DEF AboveThen
  <2>1. b \in bridged
    <3>1. b \in 1..top
      BY <1>1, <1>4, <1>5
    <3>2. ~(b < k)
      BY <3>1
    <3> QED
      BY <1>5, <1>7, <1>8, <3>2
  <2> QED
    BY <1>6, <1>8, <2>1 DEF Above
<1>9. ASSUME NEW a \in batch PROVE AboveThen(a)
  <2> SUFFICES ASSUME NEW b \in bridged', NEW m \in a..b PROVE Settled(m)'
    BY DEF AboveThen
  <2>1. a \in c.messages /\ a \in 1..top /\ b \in 1..top
    BY <1>1, <1>4, <1>5
  <2>2. m \in Nat /\ a <= m /\ m <= b
    BY <2>1
  <2>3. ASSUME m \in c.messages PROVE Settled(m)'
    BY <1>4, <1>6, <2>2, <2>3
  <2>4. CASE b \in new
    <3>1. b \in c.messages
      BY <1>4, <2>4
    <3> QED
      BY <1>2, <2>1, <2>3, <3>1 DEF Convex
  <2>5. CASE b \in bridged
    <3>1. c.orig # 0
      BY <1>2, <2>5
    <3>2. CASE m < c.orig
      <4>1. m \in a..(c.orig - 1)
        BY <1>3, <2>1, <2>2, <3>2
      <4> QED
        BY <1>2, <2>1, <2>3, <3>1, <4>1
    <3>3. CASE c.orig <= m
      <4>1. m \in (c.orig)..b
        BY <1>3, <2>1, <2>2, <3>3
      <4> QED
        BY <1>2, <1>6, <2>5, <3>1, <4>1 DEF Above
    <3> QED
      BY <1>3, <2>2, <3>2, <3>3
  <2> QED
    BY <1>5, <2>4, <2>5
<1>10. Joined'
  <2> SUFFICES ASSUME NEW a \in bridged' PROVE AboveThen(a)
    BY DEF Joined, AboveThen
  <2>1. CASE a \in bridged
    <3>1. Above(a) /\ a \in Nat /\ c.orig # 0 /\ c.orig <= a
      BY <1>1, <1>2, <2>1, JoinedAbove DEF History
    <3> QED
      BY <1>8, <3>1
  <2>2. CASE a \in new
    BY <1>4, <1>9, <2>2
  <2> QED
    BY <1>5, <2>1, <2>2
<1>11. (cursor # 0 => Above(cursor))'
  <2> SUFFICES ASSUME cursor # 0 PROVE AboveThen(cursor)
    BY <1>5 DEF Above, AboveThen
  <2>1. Above(cursor) /\ cursor \in Nat /\ c.orig # 0 /\ c.orig <= cursor
    BY <1>1, <1>2 DEF History
  <2> QED
    BY <1>8, <2>1
<1>12. (bridged = {} => pc["forward"] = "idle" \/ pc["backward"] = "idle")'
  BY <1>5 DEF History
<1>13. ForwardOK'
  <2> DEFINE d == call["forward"]
  <2> SUFFICES ASSUME pc["forward"] # "idle" PROVE ForwardOK'
    BY <1>5 DEF ForwardOK
  <2>1. bridged # {} /\ c.orig # 0
    BY <1>2, <1>5 DEF History
  <2>2. d.anchor \in bridged /\ \A b \in bridged : b <= d.anchor
    BY <2>1 DEF History, ForwardOK
  <2>3. ASSUME NEW b \in bridged' PROVE b <= d.anchor
    <3>1. CASE b \in bridged
      BY <2>2, <3>1
    <3>2. CASE b \in new
      <4>1. b \in Nat /\ d.anchor \in Nat /\ c.orig <= d.anchor
        <5>1. b \in 1..top /\ d.anchor \in 1..top
          BY <1>1, <1>4, <2>2, <3>2
        <5>2. c.orig <= d.anchor
          BY <1>2, <2>1, <2>2
        <5> QED
          BY <1>1, <5>1, <5>2
      <4>2. b < d.anchor
        BY <1>7, <2>1, <3>2, <4>1
      <4> QED
        BY <4>1, <4>2
    <3> QED
      BY <1>5, <3>1, <3>2
  <2>4. d.anchor \in bridged'
    BY <1>5, <2>2
  <2> QED
    BY <1>5, <2>3, <2>4 DEF History, ForwardOK, Convex
<1>14. BackwardOK'
  BY <1>5 DEF BackwardOK
<1>15. RecordOK'
  <2>1. Batch("backward")' = batch
    BY <1>5 DEF Batch, Forward, trimTrailingAlbum, GroupedID, batch
  <2> QED
    BY <1>9, <2>1 DEF RecordOK, Above, AboveThen
<1> QED
  BY <1>10, <1>11, <1>12, <1>13, <1>14, <1>15 DEF History

LEMMA RecordHistory ==
    ASSUME TypeOK, TypeOK', History, Record
    PROVE  History'
<1>1. /\ UNCHANGED <<config, top, bridged, lost>>
      /\ cursor' = Oldest(Batch("backward"))
      /\ pc["backward"] = "record" /\ pc'["backward"] = "idle"
      /\ pc'["forward"] = pc["forward"] /\ call'["forward"] = call["forward"]
  BY DEF Record, NextCursor, Forward, room, To, TypeOK, Callers, Fetchers
<1>2. cursor' # 0 => cursor' \in Batch("backward")
  <2>1. Batch("backward") \subseteq 1..top /\ top \in Nat
    BY BatchFacts, ConfigFacts DEF Fetchers
  <2> QED
    BY <1>1, <2>1, EndFacts
<1>3. (cursor # 0 => Above(cursor))'
  <2> SUFFICES ASSUME cursor' # 0 PROVE Above(cursor)'
    OBVIOUS
  <2>1. \A m \in Batch("backward") : \A b \in bridged : \A n \in m..b : Settled(n)
    BY <1>1 DEF History, RecordOK, Above
  <2>2. \A b \in bridged : \A n \in (cursor')..b : Settled(n)
    BY <1>2, <2>1
  <2> QED
    BY <1>1, <2>2 DEF Above, Settled
<1>4. Joined' /\ BackwardOK' /\ RecordOK'
  BY <1>1 DEF History, Joined, Settled, BackwardOK, RecordOK
<1>5. ForwardOK'
  BY <1>1, ForwardStays DEF History, Stays, Unmoved
<1> QED
  BY <1>1, <1>3, <1>4, <1>5 DEF History

\* A step has nothing to do with the history, or it is one of these.
LEMMA StepKinds ==
    ASSUME TypeOK, [Next]_vars
    PROVE  \/ Quiet
           \/ StartForward \/ StartBackward \/ Record
           \/ \E p \in Fetchers : Fetch(p) \/ Return(p) \/ Deliver(p)
<1>0. ASSUME UNCHANGED <<config, room, cursor, call>>, top' >= top,
             \/ \A p \in Fetchers : pc'[p] = pc[p]
             \/ \E q \in Callers, place \in Asking \cup {"idle"} :
                   To(q, place) /\ (pc[q] \in Asking \/ q = "login")
      PROVE  Quiet
  <2>1. ASSUME NEW p \in Fetchers PROVE Rests(p)
    <3>1. call'[p] = call[p] /\ p \in Callers /\ p # "login"
      BY <1>0 DEF Callers, Fetchers
    <3>2. \A q \in Callers : \A place : To(q, place) => pc'[p] = IF p = q THEN place ELSE pc[p]
      BY <3>1 DEF To, TypeOK
    <3> QED
      BY <1>0, <3>1, <3>2 DEF Rests
  <2> QED
    BY <1>0, <2>1 DEF Quiet
<1>1. top \in Nat /\ top >= top
  BY ConfigFacts
<1>2. CASE NewMessage
  BY <1>0, <1>1, <1>2 DEF NewMessage
<1>3. CASE \/ Accept \/ Invalidate \/ OnEdit \/ Fire \/ StopTakeout \/ SaveStopped
           \/ StopFails \/ SaveLogin \/ LoginReturns \/ UNCHANGED vars
  <2>1. UNCHANGED <<config, top, room, cursor, call>>
    BY <1>3
    DEF Accept, Invalidate, OnEdit, Fire, StopTakeout, SaveStopped, StopFails, SaveLogin,
        LoginReturns, vars, data, chat
  <2>2. UNCHANGED pc \/ To("login", "idle")
    BY <1>3
    DEF Accept, Invalidate, OnEdit, Fire, StopTakeout, SaveStopped, StopFails, SaveLogin,
        LoginReturns, vars
  <2> QED
    BY <1>0, <1>1, <2>1, <2>2 DEF Callers
<1>4. ASSUME NEW p \in Callers, Lock(p) \/ Takeout(p) PROVE Quiet
  <2>1. UNCHANGED <<config, top, room, cursor, call>>
    BY <1>4
    DEF Lock, Takeout, Clear, InitTakeoutSession, InitDelay, Wake, SaveTakeout, data, chat
  <2>2. pc[p] \in Asking /\ \E place \in Asking : To(p, place)
    BY <1>4
    DEF Lock, Takeout, Clear, InitTakeoutSession, InitDelay, Wake, SaveTakeout, Asking
  <2> QED
    BY <1>0, <1>1, <2>1, <2>2
<1>5. ASSUME NEW p \in Callers, To(p, "idle"),
             call' = [q \in Fetchers |-> IF q = p THEN NoCall ELSE call[q]],
             UNCHANGED <<config, top, room, cursor>>
      PROVE  Quiet
  <2>1. ASSUME NEW q \in Fetchers PROVE Rests(q)
    <3>1. q \in Callers /\ pc'[q] = IF q = p THEN "idle" ELSE pc[q]
      BY <1>5 DEF To, TypeOK, Callers
    <3> QED
      BY <1>5, <3>1 DEF Rests
  <2> QED
    BY <1>1, <1>5, <2>1 DEF Quiet
<1>6. ASSUME NEW p \in Callers, GetTakeoutFails(p) PROVE Quiet
  BY <1>5, <1>6 DEF GetTakeoutFails, chat
<1>7. ASSUME NEW p \in Fetchers, TakeoutInvalid(p) \/ FetchFails(p) PROVE Quiet
  <2>1. /\ To(p, "idle") /\ UNCHANGED <<config, top, room, cursor>>
        /\ call' = [call EXCEPT ![p] = NoCall]
    BY <1>7 DEF TakeoutInvalid, FetchFails, chat
  <2>2. call' = [q \in Fetchers |-> IF q = p THEN NoCall ELSE call[q]] /\ p \in Callers
    BY <2>1 DEF TypeOK, Callers
  <2> QED
    BY <1>5, <2>1, <2>2
<1>8. CASE Crash
  BY <1>1, <1>8 DEF Crash, Quiet, Rests, chat, Callers
<1> QED
  BY <1>2, <1>3, <1>4, <1>6, <1>7, <1>8 DEF Next, Fetching

\* FetchMessages returns.
LEMMA ReturnStays ==
    ASSUME TypeOK, NEW p \in Fetchers, Return(p)
    PROVE  /\ UNCHANGED <<config, top, bridged, lost, cut, albumIndex, cursor>>
           /\ pc[p] = "convert" /\ pc'[p] = "deliver"
           /\ \A q \in Fetchers : Stays(q) /\ (q # p => pc'[q] = pc[q] /\ call'[q] = call[q])
<1>1. /\ pc[p] = "convert" /\ To(p, "deliver")
      /\ UNCHANGED <<config, top, bridged, lost, cut, albumIndex, cursor>>
  BY DEF Return, chat, room
<1>2. PICK index \in [IDs -> Int] : call' = [call EXCEPT ![p].index = index]
  BY ReturnType
<1>3. \A q \in Fetchers :
          /\ call'[q].anchor = call[q].anchor /\ call'[q].min = call[q].min
          /\ call'[q].orig = call[q].orig /\ call'[q].offset = call[q].offset
          /\ call'[q].count = call[q].count /\ call'[q].messages = call[q].messages
          /\ q # p => call'[q] = call[q]
  BY <1>2 DEF TypeOK, Calls
<1> QED
  BY <1>1, <1>3 DEF Stays, Unmoved, To, TypeOK, Callers

LEMMA HistoryInductive ==
    ASSUME TypeOK, TypeOK', [Next]_vars, config.calls = {}, History
    PROVE  History'
<1>1. CASE Quiet
  BY <1>1, RestsStays, HistoryStays DEF Quiet, room
<1>2. ASSUME NEW p \in Fetchers, Fetch(p) \/ Deliver(p) PROVE History'
  BY <1>2, FetchForwardHistory, FetchBackwardHistory, DeliverForwardHistory,
     DeliverBackwardHistory
  DEF Fetchers
<1>3. ASSUME NEW p \in Fetchers, Return(p) PROVE History'
  <2>1. top' >= top
    BY <1>3, ReturnStays, ConfigFacts
  <2> QED
    BY <1>3, <2>1, ReturnStays, HistoryStays
<1>4. CASE StartForward \/ StartBackward \/ Record
  BY <1>4, StartForwardHistory, StartBackwardHistory, RecordHistory
<1> QED
  BY <1>1, <1>2, <1>3, <1>4, StepKinds

-----------------------------------------------------------------------------
(* The history in a chat with calls                                           *)

\* The newest message stays the newest one of a chat that nobody writes to.
LEMMA EndsInductive ==
    ASSUME TypeOK, Ends, [Next]_vars
    PROVE  UNCHANGED config /\ Ends' /\ (config.first = config.last => top' = top)
<1>1. /\ config.first \in Int /\ config.last \in Int /\ top \in Int
  BY BackfillConstants DEF TypeOK
<1>2. CASE NewMessage
  BY <1>1, <1>2 DEF NewMessage, Ends
<1>3. CASE ~NewMessage
  <2>1. UNCHANGED <<config, top>>
    <3>1. CASE \/ Accept \/ Invalidate \/ OnEdit \/ Fire \/ StopTakeout \/ SaveStopped
               \/ StopFails \/ SaveLogin \/ LoginReturns \/ UNCHANGED vars
      BY <3>1
      DEF Accept, Invalidate, OnEdit, Fire, StopTakeout, SaveStopped, StopFails, SaveLogin,
          LoginReturns, vars, data, chat
    <3>2. ASSUME NEW p \in Callers, Lock(p) \/ Takeout(p) \/ GetTakeoutFails(p)
          PROVE  UNCHANGED <<config, top>>
      BY <3>2
      DEF Lock, Takeout, Clear, InitTakeoutSession, InitDelay, Wake, SaveTakeout,
          GetTakeoutFails, data, chat
    <3>3. ASSUME NEW p \in Fetchers, Fetching(p) \/ FetchFails(p)
          PROVE  UNCHANGED <<config, top>>
      BY <3>3 DEF Fetching, Fetch, TakeoutInvalid, Return, Deliver, FetchFails, chat
    <3>4. CASE StartForward \/ StartBackward \/ Record \/ Crash
      BY <3>4 DEF StartForward, StartBackward, Record, Crash, chat
    <3> QED
      BY <1>3, <3>1, <3>2, <3>3, <3>4 DEF Next
  <2> QED
    BY <2>1 DEF Ends
<1> QED
  BY <1>2, <1>3

\* What is settled stays settled.
LEMMA ReachesStays ==
    ASSUME UNCHANGED <<config, top>>, bridged \subseteq bridged', lost \subseteq lost'
    PROVE  \A k : Reaches(k) => \A m \in k..top : Settled(m)'
BY DEF Reaches, Settled

\* The parts about the two calls, where they go on without a fetch.
LEMMA CallsStay ==
    ASSUME UNCHANGED <<config, top>>, bridged \subseteq bridged', lost \subseteq lost'
    PROVE  /\ ForwardReaches /\ Stays("forward") => ForwardReaches'
           /\ BackwardReaches /\ Stays("backward") => BackwardReaches'
           /\ RecordReaches /\ Stays("backward") => RecordReaches'
<1>1. ASSUME ForwardReaches, Stays("forward") PROVE ForwardReaches'
  <2>1. CASE pc'["forward"] = "idle"
    BY <2>1 DEF ForwardReaches
  <2>2. CASE pc'["forward"] # "idle" /\ Unmoved("forward")
    <3>1. pc["forward"] # "idle" /\ (pc'["forward"] \in Asking => pc["forward"] \in Asking)
      BY <2>2 DEF Unmoved, Asking
    <3> QED
      BY <1>1, <2>2, <3>1 DEF ForwardReaches, Unmoved, FullBelow
  <2> QED
    BY <1>1, <2>1, <2>2 DEF Stays
<1>2. ASSUME BackwardReaches, Stays("backward") PROVE BackwardReaches'
  <2>1. CASE pc'["backward"] = "idle"
    BY <2>1 DEF BackwardReaches
  <2>2. CASE pc'["backward"] # "idle" /\ Unmoved("backward")
    <3>1. /\ pc'["backward"] \notin {"idle", "record"} => pc["backward"] \notin {"idle", "record"}
          /\ pc'["backward"] \in Asking => pc["backward"] \in Asking
      BY <2>2 DEF Unmoved, Asking
    <3>2. \A k : Reaches(k) => Reaches(k)'
      BY ReachesStays DEF Reaches
    <3> QED
      BY <1>2, <2>2, <3>1, <3>2 DEF BackwardReaches, Unmoved, FullBelow
  <2> QED
    BY <1>2, <2>1, <2>2 DEF Stays
<1>3. ASSUME RecordReaches, Stays("backward") PROVE RecordReaches'
  <2>1. CASE pc'["backward"] # "record"
    BY <2>1 DEF RecordReaches
  <2>2. CASE pc'["backward"] = "record"
    <3>1. Unmoved("backward") /\ pc["backward"] = "record"
      BY <1>3, <2>2 DEF Stays, Unmoved, Asking
    <3>2. Batch("backward")' = Batch("backward")
      BY <3>1 DEF Unmoved, Batch, Forward, trimTrailingAlbum, GroupedID
    <3> QED
      BY <1>3, <3>1, <3>2, ReachesStays DEF RecordReaches, Reaches
  <2> QED
    BY <2>1, <2>2
<1> QED
  BY <1>1, <1>2, <1>3

\* The steps that neither begin a call, nor fetch, nor bridge, nor record.
LEMMA CallHistoryStays ==
    ASSUME CallHistory, \A p \in Fetchers : Stays(p),
           UNCHANGED <<config, top, bridged, lost, cursor>>
    PROVE  CallHistory'
BY CallsStay, ReachesStays DEF CallHistory, Fetchers, Reaches

LEMMA StartForwardCalls ==
    ASSUME TypeOK, CallHistory, config.calls # {}, StartForward
    PROVE  CallHistory'
<1> DEFINE newest == Newest(bridged)
<1> DEFINE count == IF newest = 0 THEN config.initial ELSE config.catchup
<1>1. /\ UNCHANGED <<config, top, bridged, lost, cursor>>
      /\ Start("forward", newest, count)
  BY DEF StartForward, room
<1>2. newest \in bridged
  BY ConfigFacts, EndFacts DEF TypeOK, CallHistory
<1>3. call' = [call EXCEPT !["forward"] = Parameters("forward", newest, count)]
  BY <1>1 DEF Start
<1>4. call'["forward"] = Parameters("forward", newest, count)
  BY <1>3 DEF TypeOK, Fetchers
<1> HIDE DEF newest, count
<1>5. LET c == call'["forward"]
      IN c.anchor = newest /\ c.min \in {0, newest} /\ c.messages = {} /\ c.offset = 0
  BY <1>4 DEF Parameters, Forward
<1>6. ForwardReaches'
  BY <1>1, <1>2, <1>5 DEF ForwardReaches, FullBelow
<1>7. Stays("backward")
  BY <1>1, <1>3 DEF Stays, Unmoved, Start, To, TypeOK, Callers, Fetchers
<1> QED
  BY <1>1, <1>6, <1>7, CallsStay, ReachesStays DEF CallHistory, Reaches

LEMMA StartBackwardCalls ==
    ASSUME TypeOK, CallHistory, config.calls # {}, StartBackward
    PROVE  CallHistory'
<1> DEFINE oldest == Oldest(bridged)
<1> DEFINE from == IF oldest \notin config.calls THEN oldest ELSE 0
<1> DEFINE orig == Offset(from, cursor)
<1>1. /\ UNCHANGED <<config, top, bridged, lost, cursor>>
      /\ Start("backward", oldest, config.batch)
  BY DEF StartBackward, chat, room
<1>2. oldest \in bridged
  BY ConfigFacts, EndFacts DEF TypeOK, CallHistory
<1>3. call' = [call EXCEPT !["backward"] = Parameters("backward", oldest, config.batch)]
  BY <1>1 DEF Start
<1>4. call'["backward"] = Parameters("backward", oldest, config.batch)
  BY <1>3 DEF TypeOK, Fetchers
<1> HIDE DEF oldest
<1>5. LET c == call'["backward"]
      IN c.min = 0 /\ c.messages = {} /\ c.offset = orig /\ c.orig = orig
  BY <1>4 DEF Parameters, Forward
<1>6. orig \in 0..top /\ (orig # 0 => Reaches(orig))
  <2>1. oldest \in 1..top /\ cursor \in 0..top /\ top \in Nat
    BY <1>2, ConfigFacts DEF TypeOK
  <2>2. from \in 0..top
    BY <2>1
  <2> HIDE DEF from
  <2>3. orig \in {from, cursor}
    BY DEF Offset
  <2>4. (from # 0 => Reaches(from)) /\ (cursor # 0 => Reaches(cursor))
    BY <1>2 DEF from, CallHistory
  <2> QED
    BY <2>1, <2>2, <2>3, <2>4
<1> HIDE DEF orig
<1>7. pc'["backward"] \in {"lock", "fetch"}
  BY <1>1 DEF Start, To, TypeOK, Callers, Fetchers
<1>8. \A k : Reaches(k) => Reaches(k)'
  BY <1>1, ReachesStays DEF Reaches
<1>9. BackwardReaches' /\ RecordReaches'
  <2>1. orig <= top
    BY <1>6, ConfigFacts
  <2> QED
    BY <1>1, <1>5, <1>6, <1>7, <1>8, <2>1 DEF BackwardReaches, RecordReaches, FullBelow
<1>10. Stays("forward")
  BY <1>1, <1>3 DEF Stays, Unmoved, Start, To, TypeOK, Callers, Fetchers
<1> QED
  BY <1>1, <1>8, <1>9, <1>10, CallsStay DEF CallHistory

LEMMA FetchForwardCalls ==
    ASSUME TypeOK, CallHistory, Fetch("forward")
    PROVE  CallHistory'
<1> DEFINE c == call["forward"]
<1> DEFINE new == GetHistory(c)
<1>1. /\ c \in Calls /\ top \in Nat
      /\ new \subseteq Found(c) /\ new \subseteq 1..top
      /\ \A m \in new, n \in Found(c) : m <= n => n \in new
      /\ new # {} => Oldest(new) \in new /\ \A m \in new : Oldest(new) <= m
  BY ForwardRequest
<1>2. /\ UNCHANGED <<config, top, bridged, lost, cursor>>
      /\ pc["forward"] = "fetch" /\ pc'["backward"] = pc["backward"]
      /\ call'["backward"] = call["backward"]
  BY ForwardRequest
<1>3. LET d == call'["forward"]
      IN /\ d.anchor = c.anchor /\ d.min = c.min /\ d.messages = c.messages \cup new
         /\ pc'["forward"] \in {"fetch", "convert"}
         /\ pc'["forward"] = "fetch" => new # {} /\ d.offset = Oldest(new)
  BY ForwardRequest
<1>4. /\ c.anchor \in bridged /\ c.min \in {0, c.anchor}
      /\ \A m \in c.messages : m > c.min
      /\ FullBelow(c.messages, top)
      /\ \/ c.messages = {} /\ c.offset = 0
         \/ c.offset \in c.messages /\ \A m \in c.messages : c.offset <= m
      /\ c.messages \subseteq 1..top /\ c.min \in Nat /\ c.offset \in Nat
  BY <1>1, <1>2 DEF CallHistory, ForwardReaches, Asking, Calls
<1>5. \A m \in new : m > c.min /\ (c.offset = 0 \/ m < c.offset)
  BY <1>1 DEF Found
<1>6. \A n \in 1..top, m \in new : m <= n /\ (c.offset = 0 \/ n < c.offset) => n \in new
  <2> SUFFICES ASSUME NEW n \in 1..top, NEW m \in new, m <= n, c.offset = 0 \/ n < c.offset
               PROVE  n \in new
    OBVIOUS
  <2>1. n > c.min
    BY <1>1, <1>4, <1>5
  <2>2. n \in Found(c)
    BY <2>1 DEF Found
  <2> QED
    BY <1>1, <2>2
<1> HIDE DEF c, new
<1>7. FullBelow(c.messages \cup new, top)
  <2> SUFFICES ASSUME NEW m \in c.messages \cup new, NEW n \in m..top
               PROVE  n \in c.messages \cup new
    BY DEF FullBelow
  <2>1. CASE m \in c.messages
    BY <1>4, <2>1 DEF FullBelow
  <2>2. CASE m \in new
    <3>0. m \in 1..top
      BY <1>1, <2>2
    <3>1. m \in 1..top /\ n \in 1..top /\ m <= n
      BY <1>1, <3>0
    <3>2. CASE c.offset = 0 \/ n < c.offset
      BY <1>6, <2>2, <3>1, <3>2
    <3>3. CASE c.offset # 0 /\ ~(n < c.offset)
      <4>1. c.offset \in c.messages /\ n \in (c.offset)..top
        BY <1>1, <1>4, <3>1, <3>3
      <4> QED
        BY <1>4, <4>1 DEF FullBelow
    <3> QED
      BY <3>2, <3>3
  <2> QED
    BY <2>1, <2>2
<1>8. pc'["forward"] \in Asking =>
         /\ Oldest(new) \in c.messages \cup new
         /\ \A m \in c.messages \cup new : Oldest(new) <= m
  <2> SUFFICES ASSUME pc'["forward"] \in Asking, NEW m \in c.messages
               PROVE  new # {} /\ Oldest(new) <= m
    BY <1>1, <1>3 DEF Asking
  <2>1. new # {} /\ Oldest(new) \in new
    BY <1>1, <1>3 DEF Asking
  <2>2. Oldest(new) \in 1..top /\ m \in 1..top
    BY <1>1, <1>4, <2>1
  <2>3. Oldest(new) < c.offset /\ c.offset <= m
    BY <1>4, <1>5, <2>1, <2>2
  <2> QED
    BY <1>4, <2>1, <2>2, <2>3
<1>9. \A m \in c.messages \cup new : m > c.min
  BY <1>4, <1>5
<1>10. ForwardReaches'
  BY <1>2, <1>3, <1>4, <1>7, <1>8, <1>9 DEF ForwardReaches, Asking
<1>11. Stays("backward")
  BY <1>2 DEF Stays, Unmoved
<1> QED
  BY <1>2, <1>10, <1>11, CallsStay, ReachesStays DEF CallHistory, Reaches

LEMMA FetchBackwardCalls ==
    ASSUME TypeOK, CallHistory, Fetch("backward")
    PROVE  CallHistory'
<1> DEFINE c == call["backward"]
<1> DEFINE new == GetHistory(c)
<1> DEFINE end == IF c.orig = 0 THEN top ELSE c.orig - 1
<1>1. /\ c \in Calls /\ top \in Nat
      /\ new \subseteq Found(c) /\ new \subseteq 1..top
      /\ \A m \in new, n \in Found(c) : m <= n => n \in new
  BY BackwardRequest
<1>2. /\ UNCHANGED <<config, top, bridged, lost, cursor>>
      /\ pc["backward"] = "fetch" /\ pc'["forward"] = pc["forward"]
      /\ call'["forward"] = call["forward"]
  BY BackwardRequest
<1>3. LET d == call'["backward"]
      IN /\ d.min = c.min /\ d.orig = c.orig /\ d.messages = c.messages \cup new
         /\ pc'["backward"] = "convert"
  BY BackwardRequest
<1>4. /\ c.min = 0 /\ c.messages = {} /\ c.offset = c.orig /\ c.orig \in Nat
      /\ c.orig <= top
      /\ c.orig # 0 => Reaches(c.orig)
  BY <1>1, <1>2 DEF CallHistory, BackwardReaches, Asking, Calls
<1>5. \A m \in new : c.orig = 0 \/ m < c.orig
  BY <1>1, <1>4 DEF Found
<1> HIDE DEF c, new
<1>6. FullBelow(new, end)
  <2> SUFFICES ASSUME NEW m \in new, NEW n \in m..end PROVE n \in new
    BY DEF FullBelow
  <2>1. m \in 1..top /\ m <= n /\ n <= end /\ n \in Int
    BY <1>1, <1>4
  <2>2. n \in 1..top /\ (c.orig = 0 \/ n < c.orig)
    BY <1>1, <1>4, <2>1
  <2>3. n \in Found(c)
    BY <1>4, <2>2 DEF Found
  <2> QED
    BY <1>1, <2>1, <2>3
<1>7. c.messages \cup new = new
  BY <1>4
<1>8. \A k : Reaches(k) => Reaches(k)'
  BY <1>2, ReachesStays DEF Reaches
<1>9. BackwardReaches' /\ RecordReaches'
  BY <1>2, <1>3, <1>4, <1>5, <1>6, <1>7, <1>8 DEF BackwardReaches, RecordReaches, Asking
<1>10. Stays("forward")
  BY <1>2 DEF Stays, Unmoved
<1> QED
  BY <1>2, <1>8, <1>9, <1>10, CallsStay DEF CallHistory

LEMMA DeliverForwardCalls ==
    ASSUME TypeOK, CallHistory, Deliver("forward")
    PROVE  CallHistory'
<1> DEFINE c == call["forward"]
<1> DEFINE new == Converted("forward")
<1>1. c \in Calls /\ top \in Nat /\ bridged \subseteq 1..top
  BY ConfigFacts DEF TypeOK, Fetchers
<1>2. (\A m \in c.messages : m > c.min) /\ FullBelow(c.messages, top)
  BY DEF CallHistory, ForwardReaches, Deliver
<1>3. new = c.messages \ config.service /\ c.messages \subseteq 1..top
  BY <1>1, <1>2, ConvertedFacts DEF Calls, Fetchers
<1>4. /\ bridged' = bridged \cup new /\ lost \subseteq lost'
      /\ UNCHANGED <<config, top, cursor>>
      /\ pc'["forward"] = "idle" /\ pc'["backward"] = pc["backward"]
      /\ call'["backward"] = call["backward"]
  BY DEF Deliver, Forward, To, Callers, Fetchers, TypeOK
<1> HIDE DEF c, new
<1>5. \A k : Reaches(k) => Reaches(k)'
  BY <1>4, ReachesStays DEF Reaches
<1>6. ASSUME NEW a \in new PROVE Reaches(a)'
  BY <1>2, <1>3, <1>4 DEF Reaches, Settled, FullBelow
<1>7. \A a \in bridged' \ config.calls : Reaches(a)'
  BY <1>4, <1>5, <1>6 DEF CallHistory
<1>8. Stays("backward") /\ Stays("forward")
  BY <1>4 DEF Stays, Unmoved
<1>9. ForwardReaches' /\ BackwardReaches' /\ RecordReaches'
  BY <1>4, <1>8, CallsStay DEF CallHistory
<1> QED
  BY <1>4, <1>5, <1>7, <1>9 DEF CallHistory

LEMMA DeliverBackwardCalls ==
    ASSUME TypeOK, CallHistory, Deliver("backward")
    PROVE  CallHistory'
<1> DEFINE c == call["backward"]
<1> DEFINE batch == Batch("backward")
<1> DEFINE new == Converted("backward")
<1>1. c \in Calls /\ top \in Nat /\ bridged \subseteq 1..top /\ c.orig \in Nat
  BY ConfigFacts DEF TypeOK, Fetchers, Calls
<1>2. /\ c.orig # 0 => Reaches(c.orig) /\ \A m \in c.messages : m < c.orig
      /\ FullBelow(c.messages, IF c.orig = 0 THEN top ELSE c.orig - 1)
  BY DEF CallHistory, BackwardReaches, Deliver
<1>3. /\ batch \subseteq c.messages /\ batch \subseteq 1..top
      /\ \A m \in batch, n \in c.messages : m <= n => n \in batch
      /\ new = batch \ config.service
  BY <1>2, BatchFacts, ConvertedFacts DEF Fetchers
<1>4. /\ bridged' = bridged \cup new /\ UNCHANGED <<config, top, cursor, lost, call>>
      /\ pc'["backward"] = "record" /\ pc'["forward"] = pc["forward"]
  BY DEF Deliver, Forward, To, Callers, Fetchers, TypeOK
<1> HIDE DEF c, batch, new
<1>5. \A k : Reaches(k) => Reaches(k)'
  BY <1>4, ReachesStays DEF Reaches
<1>6. ASSUME NEW a \in batch PROVE Reaches(a)'
  <2> SUFFICES ASSUME NEW m \in a..top PROVE Settled(m)'
    BY <1>4 DEF Reaches
  <2>1. a \in c.messages /\ a \in 1..top /\ m \in Int /\ a <= m /\ m <= top
    BY <1>1, <1>3
  <2>2. CASE c.orig = 0 \/ m < c.orig
    <3>1. m \in c.messages
      <4>1. m \in a..(IF c.orig = 0 THEN top ELSE c.orig - 1)
        BY <1>1, <2>1, <2>2
      <4> QED
        BY <1>2, <2>1, <4>1 DEF FullBelow
    <3> QED
      BY <1>3, <1>4, <2>1, <3>1 DEF Settled
  <2>3. CASE c.orig # 0 /\ ~(m < c.orig)
    <3>1. m \in (c.orig)..top
      BY <1>1, <2>1, <2>3
    <3>2. Settled(m)
      BY <1>2, <2>3, <3>1 DEF Reaches
    <3> QED
      BY <1>4, <3>2 DEF Settled
  <2> QED
    BY <2>2, <2>3
<1>7. \A a \in bridged' \ config.calls : Reaches(a)'
  BY <1>3, <1>4, <1>5, <1>6 DEF CallHistory
<1>8. BackwardReaches' /\ RecordReaches'
  <2>1. Batch("backward")' = batch
    BY <1>4 DEF Batch, Forward, trimTrailingAlbum, GroupedID, batch
  <2> QED
    BY <1>4, <1>6, <2>1 DEF BackwardReaches, RecordReaches
<1>9. ForwardReaches'
  <2>1. Stays("forward")
    BY <1>4 DEF Stays, Unmoved
  <2> QED
    BY <1>4, <2>1, CallsStay DEF CallHistory
<1> QED
  BY <1>4, <1>5, <1>7, <1>8, <1>9 DEF CallHistory

LEMMA RecordCalls ==
    ASSUME TypeOK, CallHistory, Record
    PROVE  CallHistory'
<1>1. /\ UNCHANGED <<config, top, bridged, lost>>
      /\ cursor' = Oldest(Batch("backward"))
      /\ pc["backward"] = "record" /\ pc'["backward"] = "idle"
      /\ pc'["forward"] = pc["forward"] /\ call'["forward"] = call["forward"]
  BY DEF Record, NextCursor, Forward, room, To, TypeOK, Callers, Fetchers
<1>2. cursor' # 0 => cursor' \in Batch("backward")
  <2>1. Batch("backward") \subseteq 1..top /\ top \in Nat
    BY BatchFacts, ConfigFacts DEF Fetchers
  <2> QED
    BY <1>1, <2>1, EndFacts
<1>3. cursor' # 0 => \A m \in (cursor')..top : Settled(m)'
  BY <1>1, <1>2 DEF CallHistory, RecordReaches, Reaches, Settled
<1>4. \A k : Reaches(k) => Reaches(k)'
  BY <1>1, ReachesStays DEF Reaches
<1>5. (cursor # 0 => Reaches(cursor))'
  BY <1>1, <1>3 DEF Reaches
<1>6. Stays("forward") /\ Stays("backward")
  BY <1>1 DEF Stays, Unmoved
<1> QED
  BY <1>1, <1>4, <1>5, <1>6, CallsStay DEF CallHistory

LEMMA CallHistoryInductive ==
    ASSUME TypeOK, [Next]_vars, config.calls # {}, top' = top, CallHistory
    PROVE  CallHistory'
<1>1. CASE Quiet
  BY <1>1, RestsStays, CallHistoryStays DEF Quiet, room
<1>2. ASSUME NEW p \in Fetchers, Fetch(p) \/ Deliver(p) PROVE CallHistory'
  BY <1>2, FetchForwardCalls, FetchBackwardCalls, DeliverForwardCalls,
     DeliverBackwardCalls
  DEF Fetchers
<1>3. ASSUME NEW p \in Fetchers, Return(p) PROVE CallHistory'
  BY <1>3, ReturnStays, CallHistoryStays
<1>4. CASE StartForward \/ StartBackward \/ Record
  BY <1>4, StartForwardCalls, StartBackwardCalls, RecordCalls
<1> QED
  BY <1>1, <1>2, <1>3, <1>4, StepKinds

-----------------------------------------------------------------------------
(* Albums                                                                     *)

\* An album is a row of messages, not longer than MaxAlbumSize.
LEMMA AlbumFacts ==
    ASSUME TypeOK, NEW a \in IDs, NEW b \in IDs, GroupedID(a) # 0,
           GroupedID(a) = GroupedID(b)
    PROVE  /\ b < a + MaxAlbumSize /\ a \notin config.service
           /\ \A m \in a..b : m \in IDs /\ GroupedID(m) = GroupedID(a)
<1>1. config \in Configs /\ MaxID \in Nat
  BY ConfigFacts DEF TypeOK
<1>2. /\ a \notin config.service /\ b \notin config.service
      /\ config.album[a] # 0 /\ config.album[a] = config.album[b]
  BY DEF GroupedID
<1>3. /\ b < a + MaxAlbumSize
      /\ \A m \in a..b : m \notin config.service /\ config.album[m] = config.album[a]
  BY <1>1, <1>2, AlbumsAreConsecutive
<1>4. \A m \in a..b : m \in IDs
  BY <1>1 DEF IDs
<1> QED
  BY <1>2, <1>3, <1>4 DEF GroupedID

\* What is not between two items of an album is not between their numbers.
LEMMA AlbumBetween ==
    ASSUME TypeOK, NEW m \in IDs, GroupedID(m) # 0, NEW o \in Before(m),
           NEW n \in IDs, o <= n, n <= m
    PROVE  GroupedID(n) = GroupedID(m)
<1>1. o \in IDs /\ GroupedID(o) = GroupedID(m) /\ n \in o..m
  BY DEF Before, IDs
<1> QED
  BY <1>1, AlbumFacts

\* Whoever knows the items before a message finds its index.
LEMMA IndexIsRight ==
    ASSUME TypeOK, NEW m \in IDs, GroupedID(m) # 0, NEW known \in SUBSET IDs,
           Before(m) \subseteq known
    PROVE  telegramAlbumIndex(m, known) = IndexOf(m)
<1> DEFINE A == Album(GroupedID(m))
<1> DEFINE W == {m} \cup {o \in known : /\ o \in (m - MaxAlbumSize + 1)..(m - 1)
                                        /\ GroupedID(o) = GroupedID(m)}
<1>1. MaxID \in Nat /\ MaxAlbumSize \in Nat /\ IDs \subseteq Nat
  BY ConfigFacts, BackfillConstants DEF IDs
<1>2. A \subseteq IDs /\ m \in A
  BY DEF Album
<1>3. Min(A) \in A /\ \A y \in A : Min(A) <= y
  BY <1>1, <1>2, MinFacts
<1>4. PICK x \in A : Min(A) = x
  BY <1>3
<1>5. x \in Nat /\ m \in Nat /\ x \in IDs /\ GroupedID(x) = GroupedID(m) /\ x <= m
  BY <1>1, <1>2, <1>3, <1>4 DEF Album
<1>6. x \in W
  <2>1. CASE x = m
    BY <2>1
  <2>2. CASE x # m
    <3>1. x < m
      BY <1>5, <2>2
    <3>2. x \in Before(m)
      BY <1>5, <3>1 DEF Before
    <3>3. m < x + MaxAlbumSize
      BY <1>5, AlbumFacts
    <3>4. x \in (m - MaxAlbumSize + 1)..(m - 1)
      BY <1>1, <1>5, <3>1, <3>3
    <3> QED
      BY <1>5, <3>2, <3>4
  <2> QED
    BY <2>1, <2>2
<1>7. W \subseteq A /\ A \subseteq Nat
  BY <1>1, <1>2 DEF Album
<1>8. Min(W) \in W /\ \A y \in W : Min(W) <= y
  BY <1>6, <1>7, MinFacts
<1>9. PICK y \in W : Min(W) = y
  BY <1>8
<1>10. y \in Nat /\ y <= x /\ x <= y
  BY <1>3, <1>4, <1>6, <1>7, <1>8, <1>9
<1>11. Min(W) = Min(A)
  BY <1>4, <1>5, <1>9, <1>10
<1> QED
  BY <1>11 DEF telegramAlbumIndex, IndexOf

\* A full batch, without the album at its end, has its albums from their beginning.
LEMMA TrimmedIsWhole ==
    ASSUME TypeOK, NEW S \in SUBSET (1..top), Convex(S), Cardinality(S) >= config.batch,
           NEW m \in trimTrailingAlbum(S), Fits(GroupedID(m)), NEW o \in Before(m)
    PROVE  o \in trimTrailingAlbum(S)
<1> DEFINE low == Oldest(S)
<1> DEFINE album == GroupedID(low)
<1> DEFINE rest == {k \in S : \E n \in S : n <= k /\ GroupedID(n) # album}
<1>1. /\ top \in Nat /\ MaxID \in Nat /\ top <= MaxID /\ 1..top \subseteq IDs
      /\ IDs \subseteq Nat
  BY ConfigFacts DEF TypeOK, IDs
<1>2. trimTrailingAlbum(S) = IF S = {} \/ album = 0 \/ rest = {} THEN S ELSE rest
  BY DEF trimTrailingAlbum
<1>3. m \in S /\ S # {}
  BY <1>2
<1>4. low \in S /\ \A n \in S : low <= n
  BY <1>1, <1>3, EndFacts
<1>5. GroupedID(m) # 0 /\ m \in IDs /\ S \subseteq IDs
  BY <1>1, <1>3 DEF Fits
<1>6. o \in IDs /\ o < m /\ GroupedID(o) = GroupedID(m)
  BY DEF Before
<1> HIDE DEF low
<1>7. o \in S \/ album = GroupedID(m)
  <2>1. CASE low <= o
    <3>1. o \in low..m
      BY <1>1, <1>4, <1>5, <1>6, <2>1
    <3> QED
      BY <1>3, <1>4, <3>1 DEF Convex
  <2>2. CASE ~(low <= o)
    <3>1. o <= low /\ low <= m /\ low \in IDs
      BY <1>1, <1>3, <1>4, <1>5, <1>6, <2>2
    <3> QED
      BY <1>5, <3>1, AlbumBetween
  <2> QED
    BY <2>1, <2>2
<1>8. CASE album = 0
  BY <1>2, <1>5, <1>7, <1>8
<1>9. CASE album # 0 /\ rest = {}
  <2>1. \A n \in S : GroupedID(n) = album
    <3> SUFFICES ASSUME NEW n \in S, GroupedID(n) # album PROVE FALSE
      OBVIOUS
    <3>1. n <= n
      BY <1>1, <1>5
    <3>2. n \in rest
      BY <3>1
    <3> QED
      BY <1>9, <3>2
  <2>2. GroupedID(m) = album /\ S \subseteq Album(GroupedID(m))
    BY <1>3, <1>5, <2>1 DEF Album
  <2>3. IsFiniteSet(Album(GroupedID(m)))
    <3>1. Album(GroupedID(m)) \subseteq 1..MaxID /\ IsFiniteSet(1..MaxID)
      BY <1>1, FS_Interval DEF Album, IDs
    <3> QED
      BY <3>1, FS_Subset
  <2>4. Cardinality(Album(GroupedID(m))) <= config.batch
    BY DEF Fits, Album
  <2>5. Cardinality(S) = Cardinality(Album(GroupedID(m)))
    <3>1. /\ IsFiniteSet(S) /\ Cardinality(S) <= Cardinality(Album(GroupedID(m)))
      BY <2>2, <2>3, FS_Subset
    <3>2. Cardinality(S) \in Nat /\ Cardinality(Album(GroupedID(m))) \in Nat
      BY <2>3, <3>1, FS_CardinalityType
    <3>3. config.batch \in Nat
      BY ConfigFacts
    <3> QED
      BY <2>4, <3>1, <3>2, <3>3
  <2>6. S = Album(GroupedID(m))
    BY <2>2, <2>3, <2>5, FS_Subset
  <2>7. o \in S
    BY <1>6, <2>6 DEF Album
  <2> QED
    BY <1>2, <1>9, <2>7
<1>10. CASE album # 0 /\ rest # {}
  <2>1. m \in rest
    BY <1>2, <1>3, <1>10
  <2>2. PICK n \in S : n <= m /\ GroupedID(n) # album
    BY <2>1
  <2>3. GroupedID(m) # album
    <3> SUFFICES ASSUME GroupedID(m) = album PROVE FALSE
      OBVIOUS
    <3>1. low \in IDs /\ n \in low..m
      BY <1>1, <1>4, <1>5, <2>2
    <3>2. GroupedID(n) = GroupedID(low)
      BY <1>5, <3>1, AlbumFacts
    <3> QED
      BY <2>2, <3>2
  <2>4. o \in S /\ o <= o
    BY <1>1, <1>6, <1>7, <2>3
  <2>5. o \in rest
    BY <1>6, <2>3, <2>4
  <2> QED
    BY <1>2, <1>3, <1>10, <2>5
<1> QED
  BY <1>8, <1>9, <1>10

\* A request that is not answered in full has been given what there is.
LEMMA AnswerIsFull ==
    ASSUME TypeOK, NEW c \in Calls, c.limit <= ChunkLimit,
           NEW n \in Found(c), n \notin GetHistory(c)
    PROVE  Cardinality(GetHistory(c)) >= c.limit
<1> DEFINE found == Found(c)
<1> DEFINE Newer(m) == {k \in found : k > m}
<1> DEFINE T == found \ GetHistory(c)
<1>1. top \in Nat /\ found \subseteq 1..top /\ IsFiniteSet(1..top)
  BY ConfigFacts, FS_Interval DEF Found
<1>2. IsFiniteSet(found)
  BY <1>1, FS_Subset
<1>3. GetHistory(c) = {m \in found : /\ Cardinality(Newer(m)) < c.limit
                                     /\ Cardinality(Newer(m)) < ChunkLimit}
  BY DEF GetHistory, Found
<1>4. \A m \in found : IsFiniteSet(Newer(m)) /\ Cardinality(Newer(m)) \in Nat
  BY <1>2, FS_Subset, FS_CardinalityType
<1>5. GetHistory(c) \subseteq found /\ IsFiniteSet(GetHistory(c))
  <2>1. GetHistory(c) \subseteq found
    BY <1>3
  <2> QED
    BY <1>2, <2>1, FS_Subset
<1>6. Cardinality(GetHistory(c)) \in Nat
  BY <1>5, FS_CardinalityType
<1>7. c.limit \in Int /\ ChunkLimit \in Nat
  BY BackfillConstants DEF Calls
<1>8. T \in SUBSET (1..top) /\ T # {}
  BY <1>1
<1>9. Max(T) \in T /\ \A y \in T : Max(T) >= y
  BY <1>1, <1>8, MaxFacts
<1>10. Newer(Max(T)) \subseteq GetHistory(c)
  <2> SUFFICES ASSUME NEW k \in found, k > Max(T), k \notin GetHistory(c) PROVE FALSE
    OBVIOUS
  <2>1. k \in T /\ k \in Nat /\ Max(T) \in Nat
    BY <1>1, <1>8, <1>9
  <2> HIDE DEF T
  <2> QED
    BY <1>9, <2>1
<1>11. Max(T) \in found /\ Max(T) \notin GetHistory(c)
  BY <1>9
<1> HIDE DEF found, Newer, T
<1>12. Cardinality(Newer(Max(T))) >= c.limit
  BY <1>3, <1>4, <1>7, <1>11
<1>13. Cardinality(Newer(Max(T))) <= Cardinality(GetHistory(c))
  BY <1>5, <1>10, FS_Subset
<1> QED
  BY <1>4, <1>6, <1>7, <1>11, <1>12, <1>13

\* The albums of a chat do not change, nor what a call makes of the same messages.
LEMMA SameAlbums ==
    ASSUME UNCHANGED config
    PROVE  /\ \A m : /\ GroupedID(m)' = GroupedID(m) /\ Before(m)' = Before(m)
                     /\ IndexOf(m)' = IndexOf(m) /\ Fits(m)' = Fits(m)
           /\ \A p \in Fetchers :
                 /\ call'[p].min = call[p].min /\ call'[p].orig = call[p].orig
                 /\ call'[p].count = call[p].count
                 /\ call'[p].messages = call[p].messages
                 => Batch(p)' = Batch(p) /\ Converted(p)' = Converted(p)
<1>1. \A m : GroupedID(m)' = GroupedID(m)
  BY DEF GroupedID
<1>2. \A m : Before(m)' = Before(m)
  BY <1>1 DEF Before
<1>3. \A g : Album(g)' = Album(g)
  BY <1>1 DEF Album
<1>4. \A m : IndexOf(m)' = IndexOf(m)
  BY <1>1, <1>3 DEF IndexOf
<1>5. \A g : Fits(g)' = Fits(g)
  <2>1. \A g : {m \in IDs : GroupedID(m)' = g} = {m \in IDs : GroupedID(m) = g}
    BY <1>1
  <2> QED
    BY <2>1 DEF Fits
<1>6. ASSUME NEW p \in Fetchers, call'[p].min = call[p].min, call'[p].orig = call[p].orig,
             call'[p].count = call[p].count, call'[p].messages = call[p].messages
      PROVE  Batch(p)' = Batch(p) /\ Converted(p)' = Converted(p)
  <2>1. Batch(p)' = Batch(p)
    BY <1>1, <1>6 DEF Batch, Forward, trimTrailingAlbum
  <2> QED
    BY <1>6, <2>1 DEF Converted, Forward
<1> QED
  BY <1>1, <1>2, <1>4, <1>5, <1>6

\* Where a backward call neither begins, nor fetches, nor returns.
LEMMA BackwardAlbumsStay ==
    ASSUME BackwardAlbums, UNCHANGED config, Rests("backward")
    PROVE  BackwardAlbums'
<1>1. CASE pc'["backward"] = "idle"
  BY <1>1 DEF BackwardAlbums, Asking
<1>2. CASE call'["backward"] = call["backward"]
  <2>1. Batch("backward")' = Batch("backward") /\ Converted("backward")' = Converted("backward")
    BY <1>2, SameAlbums DEF Fetchers
  <2>2. \/ pc'["backward"] \in {"idle", pc["backward"]}
        \/ pc["backward"] \in Asking /\ pc'["backward"] \in Asking
    BY DEF Rests
  <2> QED
    BY <1>2, <2>1, <2>2, SameAlbums DEF BackwardAlbums, Asking
<1> QED
  BY <1>1, <1>2 DEF Rests

\* Where a forward call does not return and nothing is bridged.
LEMMA ForwardAlbumsStay ==
    ASSUME ForwardAlbums, UNCHANGED <<config, bridged, cut>>,
           Rests("forward") \/ pc'["forward"] # "deliver"
    PROVE  ForwardAlbums'
<1> SUFFICES ASSUME pc'["forward"] = "deliver" PROVE ForwardAlbums'
  BY DEF ForwardAlbums
<1>1. call'["forward"] = call["forward"] /\ pc["forward"] = "deliver"
  BY DEF Rests, Asking
<1>2. Converted("forward")' = Converted("forward")
  BY <1>1, SameAlbums DEF Fetchers
<1>3. \A m : Uncut(m)' = Uncut(m)
  BY SameAlbums DEF Uncut
<1> QED
  BY <1>1, <1>2, <1>3, SameAlbums DEF ForwardAlbums

\* Where nothing is bridged.
LEMMA RoomAlbumsStay ==
    ASSUME InOrder, Indexed, UNCHANGED <<config, bridged, albumIndex, cut>>
    PROVE  InOrder' /\ Indexed'
<1>1. \A m : Uncut(m)' = Uncut(m)
  BY SameAlbums DEF Uncut
<1> QED
  BY <1>1, SameAlbums DEF InOrder, Indexed

\* A forward call begins.
LEMMA StartForwardAlbums ==
    ASSUME TypeOK, Albums, StartForward
    PROVE  Albums'
<1>1. /\ UNCHANGED <<config, bridged, albumIndex, cut>>
      /\ pc'["forward"] # "deliver" /\ Rests("backward")
  BY DEF StartForward, Start, room, To, TypeOK, Callers, Fetchers, Rests
<1> QED
  BY <1>1, BackwardAlbumsStay, ForwardAlbumsStay, RoomAlbumsStay DEF Albums

\* A backward call begins, with the size of a batch.
LEMMA StartBackwardAlbums ==
    ASSUME TypeOK, Albums, StartBackward
    PROVE  Albums'
<1>1. /\ UNCHANGED <<config, bridged, albumIndex, cut>>
      /\ pc'["backward"] \in {"lock", "fetch"} /\ Rests("forward")
      /\ call'["backward"] = Parameters("backward", Oldest(bridged), config.batch)
  BY DEF StartBackward, Start, chat, room, To, TypeOK, Callers, Fetchers, Rests
<1>2. call'["backward"].limit = config.batch /\ call'["backward"].count = config.batch
  BY <1>1 DEF Parameters
<1>3. BackwardAlbums'
  BY <1>1, <1>2 DEF BackwardAlbums
<1> QED
  BY <1>1, <1>3, ForwardAlbumsStay, RoomAlbumsStay DEF Albums

\* A forward request.
LEMMA FetchForwardAlbums ==
    ASSUME TypeOK, Albums, Fetch("forward")
    PROVE  Albums'
<1>1. /\ UNCHANGED <<config, bridged, albumIndex, cut>>
      /\ pc'["forward"] # "deliver" /\ Rests("backward")
  BY DEF Fetch, chat, room, To, TypeOK, Callers, Fetchers, Rests
<1> QED
  BY <1>1, BackwardAlbumsStay, ForwardAlbumsStay, RoomAlbumsStay DEF Albums

\* A backward request: a full answer loses the album at its end, and one that is
\* not full has all that is left of the history.
LEMMA FetchBackwardAlbums ==
    ASSUME TypeOK, TypeOK', History, History', Albums, Fetch("backward")
    PROVE  Albums'
<1> DEFINE c == call["backward"]
<1> DEFINE new == GetHistory(c)
<1>1. /\ c \in Calls /\ top \in Nat
      /\ new \subseteq Found(c) /\ new \subseteq 1..top
  BY BackwardRequest
<1>2. /\ UNCHANGED <<config, top, bridged, albumIndex, cut>>
      /\ pc["backward"] = "fetch" /\ pc'["backward"] = "convert"
      /\ pc'["forward"] = pc["forward"] /\ call'["forward"] = call["forward"]
      /\ call'["backward"].count = c.count
      /\ call'["backward"].messages = c.messages \cup new
  BY BackwardRequest
<1>3. /\ c.min = 0 /\ c.messages = {} /\ c.offset = c.orig /\ c.orig \in Nat
      /\ c.limit = config.batch /\ c.count = config.batch
  BY <1>1, <1>2 DEF History, BackwardOK, Albums, BackwardAlbums, Asking, Calls
<1>4. call'["backward"].messages = new /\ Convex(new)
  <2>1. call'["backward"].messages = new
    BY <1>2, <1>3
  <2>2. Convex(call'["backward"].messages)
    BY <1>2 DEF History, BackwardOK
  <2> QED
    BY <2>1, <2>2
<1>5. Batch("backward")' = IF Cardinality(new) >= config.batch THEN trimTrailingAlbum(new)
                           ELSE new
  <2>1. \A s : trimTrailingAlbum(s)' = trimTrailingAlbum(s)
    BY <1>2 DEF trimTrailingAlbum, GroupedID
  <2> QED
    BY <1>2, <1>3, <1>4, <2>1 DEF Batch, Forward
<1>6. ASSUME NEW m \in Batch("backward")', Fits(GroupedID(m)), NEW o \in Before(m)
      PROVE  o \in Batch("backward")'
  <2>1. CASE Cardinality(new) >= config.batch
    <3>1. m \in trimTrailingAlbum(new) /\ new \in SUBSET (1..top)
      BY <1>1, <1>5, <1>6, <2>1
    <3>2. o \in trimTrailingAlbum(new)
      BY <1>4, <1>6, <2>1, <3>1, TrimmedIsWhole
    <3> QED
      BY <1>5, <2>1, <3>2
  <2>2. CASE ~(Cardinality(new) >= config.batch)
    <3>1. m \in new /\ m \in Found(c) /\ m \in 1..top
      BY <1>1, <1>5, <1>6, <2>2
    <3>2. o \in 1..MaxID /\ o < m /\ MaxID \in Nat
      BY ConfigFacts DEF Before, IDs
    <3>3. o \in Found(c)
      <4>1. o \in 1..top
        BY <1>1, <3>1, <3>2
      <4>2. o > 0 /\ (c.offset = 0 \/ o < c.offset)
        BY <1>3, <3>1, <3>2 DEF Found
      <4> QED
        BY <1>3, <4>1, <4>2 DEF Found
    <3>4. c.limit <= ChunkLimit
      BY <1>3, <1>6 DEF Fits
    <3>5. o \in new
      BY <1>1, <1>3, <2>2, <3>3, <3>4, AnswerIsFull
    <3> QED
      BY <1>5, <2>2, <3>5
  <2> QED
    BY <2>1, <2>2
<1>7. BackwardAlbums'
  <2>1. \A m \in Batch("backward")' :
            Fits(GroupedID(m))' => Before(m)' \subseteq Batch("backward")'
    BY <1>2, <1>6, SameAlbums DEF Fits, GroupedID
  <2> QED
    BY <1>2, <2>1 DEF BackwardAlbums, Asking
<1> QED
  BY <1>2, <1>7, ForwardAlbumsStay, RoomAlbumsStay DEF Albums, Rests

\* A forward call returns: the items of the batch and of the room tell the index,
\* or the album is not complete.
LEMMA ReturnForwardAlbums ==
    ASSUME TypeOK, Albums, Return("forward")
    PROVE  Albums'
<1> DEFINE p == "forward"
<1>1. /\ UNCHANGED <<config, bridged, albumIndex, cut>>
      /\ pc'[p] = "deliver" /\ Stays(p)
      /\ pc'["backward"] = pc["backward"] /\ call'["backward"] = call["backward"]
  BY ReturnStays DEF Fetchers
<1>2. Converted(p)' = Converted(p)
  BY <1>1, SameAlbums DEF Stays, Unmoved, Fetchers
<1>3. Converted(p) \subseteq Batch(p) /\ Batch(p) \subseteq IDs /\ bridged \subseteq IDs
  <2>1. Batch(p) \subseteq 1..top /\ 1..top \subseteq IDs
    BY BatchFacts, ConfigFacts DEF TypeOK, IDs, Fetchers
  <2> QED
    BY <2>1, ConvertedFacts, ConfigFacts DEF Fetchers
<1>4. \A m \in Converted(p) :
          call'[p].index[m] = telegramAlbumIndex(m, bridged \cup Batch(p))
  BY <1>3 DEF Return, TypeOK, Calls, Fetchers
<1>5. ASSUME NEW m \in Converted(p), Uncut(m), Before(m) \subseteq bridged \cup Converted(p)
      PROVE  call'[p].index[m] = IndexOf(m)
  <2>1. GroupedID(m) # 0 /\ m \in IDs /\ Before(m) \subseteq bridged \cup Batch(p)
    BY <1>3, <1>5 DEF Uncut, Fits
  <2>2. bridged \cup Batch(p) \in SUBSET IDs
    BY <1>3
  <2>3. telegramAlbumIndex(m, bridged \cup Batch(p)) = IndexOf(m)
    BY <2>1, <2>2, IndexIsRight
  <2> QED
    BY <1>4, <2>3
<1>6. \A m : Uncut(m)' = Uncut(m)
  BY <1>1, SameAlbums DEF Uncut
<1>7. ForwardAlbums'
  BY <1>1, <1>2, <1>5, <1>6, SameAlbums DEF ForwardAlbums
<1> QED
  BY <1>1, <1>7, BackwardAlbumsStay, RoomAlbumsStay DEF Albums, Rests

\* A backward call returns: the batch has the items before one of its own.
LEMMA ReturnBackwardAlbums ==
    ASSUME TypeOK, Albums, Return("backward")
    PROVE  Albums'
<1> DEFINE p == "backward"
<1>1. /\ UNCHANGED <<config, bridged, albumIndex, cut>>
      /\ pc[p] = "convert" /\ pc'[p] = "deliver" /\ Stays(p)
      /\ pc'["forward"] = pc["forward"] /\ call'["forward"] = call["forward"]
  BY ReturnStays DEF Fetchers
<1>2. Converted(p)' = Converted(p) /\ Batch(p)' = Batch(p)
  BY <1>1, SameAlbums DEF Stays, Unmoved, Fetchers
<1>3. Converted(p) \subseteq Batch(p) /\ Batch(p) \subseteq IDs /\ bridged \subseteq IDs
  <2>1. Batch(p) \subseteq 1..top /\ 1..top \subseteq IDs
    BY BatchFacts, ConfigFacts DEF TypeOK, IDs, Fetchers
  <2> QED
    BY <2>1, ConvertedFacts, ConfigFacts DEF Fetchers
<1>4. \A m \in Converted(p) :
          call'[p].index[m] = telegramAlbumIndex(m, bridged \cup Batch(p))
  BY <1>3 DEF Return, TypeOK, Calls, Fetchers
<1>5. \A m \in Batch(p) : Fits(GroupedID(m)) => Before(m) \subseteq Batch(p)
  BY <1>1 DEF Albums, BackwardAlbums
<1>6. ASSUME NEW m \in Converted(p), Fits(GroupedID(m))
      PROVE  call'[p].index[m] = IndexOf(m)
  <2>1. GroupedID(m) # 0 /\ m \in IDs /\ Before(m) \subseteq bridged \cup Batch(p)
    BY <1>3, <1>5, <1>6 DEF Fits
  <2>2. bridged \cup Batch(p) \in SUBSET IDs
    BY <1>3
  <2>3. telegramAlbumIndex(m, bridged \cup Batch(p)) = IndexOf(m)
    BY <2>1, <2>2, IndexIsRight
  <2> QED
    BY <1>4, <2>3
<1>7. \A m : Fits(GroupedID(m))' = Fits(GroupedID(m))
  BY <1>1, SameAlbums DEF Fits, GroupedID
<1>8. BackwardAlbums'
  BY <1>1, <1>2, <1>5, <1>6, <1>7, SameAlbums DEF BackwardAlbums, Asking
<1> QED
  BY <1>1, <1>8, ForwardAlbumsStay, RoomAlbumsStay DEF Albums, Rests

\* A forward batch: an album that it does not complete is cut.
LEMMA DeliverForwardAlbums ==
    ASSUME TypeOK, Albums, Deliver("forward")
    PROVE  Albums'
<1> DEFINE new == Converted("forward")
<1>1. /\ UNCHANGED config /\ bridged' = bridged \cup new
      /\ albumIndex' = [m \in IDs |-> IF m \in new \ bridged
                                      THEN call["forward"].index[m] ELSE albumIndex[m]]
      /\ cut' = cut \cup {GroupedID(m) : m \in
                     {n \in new : \E o \in IDs \ bridged' :
                         o < n /\ GroupedID(o) = GroupedID(n)}}
      /\ pc["forward"] = "deliver"
  BY DEF Deliver, Forward
<1>2. pc'["forward"] = "idle" /\ Rests("backward")
  BY DEF Deliver, Forward, To, TypeOK, Callers, Fetchers, Rests
<1>3. new \subseteq IDs /\ bridged \subseteq IDs
  <2>1. Batch("forward") \subseteq 1..top /\ 1..top \subseteq IDs
    BY BatchFacts, ConfigFacts DEF TypeOK, IDs, Fetchers
  <2> QED
    BY <2>1, ConvertedFacts, ConfigFacts DEF Fetchers
<1> HIDE DEF new
<1>4. \A m : Uncut(m)' => Uncut(m) /\ GroupedID(m) \notin cut'
  BY <1>1, SameAlbums DEF Uncut
<1>5. ASSUME NEW m \in bridged', Uncut(m)', NEW o \in Before(m) PROVE o \in bridged'
  <2>1. CASE m \in bridged
    BY <1>1, <1>4, <1>5, <2>1 DEF Albums, InOrder
  <2>2. CASE m \in new /\ o \notin bridged'
    <3>1. o \in IDs \ bridged' /\ o < m /\ GroupedID(o) = GroupedID(m)
      BY <2>2 DEF Before
    <3>2. GroupedID(m) \in cut'
      BY <1>1, <2>2, <3>1
    <3> QED
      BY <1>4, <1>5, <3>2
  <2> QED
    BY <1>1, <2>1, <2>2
<1>6. InOrder'
  BY <1>1, <1>5, SameAlbums DEF InOrder
<1>7. ASSUME NEW m \in bridged', Uncut(m)' PROVE albumIndex'[m] = IndexOf(m)
  <2>1. CASE m \in bridged
    <3>1. albumIndex'[m] = albumIndex[m]
      BY <1>1, <1>3, <2>1
    <3> QED
      BY <1>4, <1>7, <2>1, <3>1 DEF Albums, Indexed
  <2>2. CASE m \in new \ bridged
    <3>1. albumIndex'[m] = call["forward"].index[m]
      BY <1>1, <1>3, <2>2
    <3>2. Before(m) \subseteq bridged \cup new
      BY <1>1, <1>5, <1>7
    <3> QED
      BY <1>1, <1>4, <1>7, <2>2, <3>1, <3>2 DEF Albums, ForwardAlbums, new
  <2> QED
    BY <1>1, <2>1, <2>2
<1>8. Indexed'
  BY <1>1, <1>7, SameAlbums DEF Indexed
<1>9. ForwardAlbums'
  BY <1>2 DEF ForwardAlbums
<1> QED
  BY <1>1, <1>2, <1>6, <1>8, <1>9, BackwardAlbumsStay DEF Albums

\* A backward batch: its albums are whole, and one that a forward call is about to
\* cut has no item below the anchor of that call.
LEMMA DeliverBackwardAlbums ==
    ASSUME TypeOK, History, Albums, Deliver("backward")
    PROVE  Albums'
<1> DEFINE new == Converted("backward")
<1> DEFINE batch == Batch("backward")
<1> DEFINE c == call["backward"]
<1> DEFINE f == call["forward"]
<1>1. /\ UNCHANGED <<config, cut, call>> /\ bridged' = bridged \cup new
      /\ albumIndex' = [m \in IDs |-> IF m \in new \ bridged
                                      THEN c.index[m] ELSE albumIndex[m]]
      /\ pc["backward"] = "deliver"
  BY DEF Deliver, Forward
<1>2. pc'["backward"] = "record" /\ pc'["forward"] = pc["forward"]
  BY DEF Deliver, Forward, To, TypeOK, Callers, Fetchers
<1>3. /\ new \subseteq batch /\ batch \subseteq c.messages /\ batch \subseteq IDs
      /\ bridged \subseteq IDs /\ IDs \subseteq Nat
  <2>1. batch \subseteq 1..top /\ 1..top \subseteq IDs
    BY BatchFacts, ConfigFacts DEF TypeOK, IDs, Fetchers
  <2> QED
    BY <2>1, BatchFacts, ConvertedFacts, ConfigFacts DEF Fetchers, IDs
<1>4. /\ c.orig = 0 => bridged = {}
      /\ c.orig # 0 => \A b \in bridged : c.orig <= b
      /\ \A m \in c.messages : c.orig = 0 \/ m < c.orig
      /\ c.orig \in Nat
  BY <1>1 DEF History, BackwardOK, TypeOK, Calls, Fetchers
<1>5. new = batch \ config.service
  BY <1>4, ConvertedFacts DEF Fetchers
<1>6. /\ \A m \in batch : Fits(GroupedID(m)) => Before(m) \subseteq batch
      /\ \A m \in new : Fits(GroupedID(m)) => c.index[m] = IndexOf(m)
  BY <1>1 DEF Albums, BackwardAlbums
<1>7. \A m : Uncut(m)' = Uncut(m)
  BY <1>1, SameAlbums DEF Uncut
<1> HIDE DEF new, batch, c
<1>8. ASSUME NEW m \in new, Uncut(m), NEW o \in Before(m) PROVE o \in new
  <2>1. m \in batch /\ o \in batch /\ GroupedID(m) # 0 /\ m \in IDs
    BY <1>3, <1>6, <1>8 DEF Uncut, Fits
  <2>2. o \in IDs /\ GroupedID(o) = GroupedID(m)
    BY DEF Before
  <2>3. o \notin config.service
    BY <2>1, <2>2, AlbumFacts
  <2> QED
    BY <1>5, <2>1, <2>3
<1>9. InOrder'
  <2>1. \A m \in bridged' : Uncut(m) => Before(m) \subseteq bridged'
    BY <1>1, <1>8 DEF Albums, InOrder
  <2> QED
    BY <1>1, <1>7, <2>1, SameAlbums DEF InOrder
<1>10. Indexed'
  <2>1. ASSUME NEW m \in bridged', Uncut(m) PROVE albumIndex'[m] = IndexOf(m)
    <3>1. m \in IDs
      BY <1>1, <1>3
    <3>2. CASE m \in bridged
      BY <1>1, <2>1, <3>1, <3>2 DEF Albums, Indexed
    <3>3. CASE m \in new \ bridged
      BY <1>1, <1>6, <2>1, <3>1, <3>3 DEF Uncut
    <3> QED
      BY <1>1, <3>2, <3>3
  <2> QED
    BY <1>1, <1>7, <2>1, SameAlbums DEF Indexed
<1>11. ASSUME pc["forward"] = "deliver", NEW m \in Converted("forward"), Uncut(m),
              NEW o \in Before(m), o \notin bridged
       PROVE  o \notin new
  <2> SUFFICES ASSUME o \in new PROVE FALSE
    OBVIOUS
  <2>1. bridged # {}
    BY <1>1, <1>11 DEF History
  <2>2. c.orig # 0 /\ o < c.orig /\ o \in IDs
    BY <1>3, <1>4, <2>1
  <2>3. f.anchor \in bridged /\ \A n \in f.messages : n > f.anchor
    BY <1>11, <2>1 DEF History, ForwardOK
  <2>4. m \in f.messages /\ m \in IDs
    <3>1. /\ Converted("forward") \subseteq Batch("forward")
          /\ Batch("forward") \subseteq f.messages
      BY BatchFacts, ConvertedFacts DEF Fetchers
    <3>2. Converted("forward") \subseteq 1..top /\ f.messages \in SUBSET (1..top)
      BY <3>1 DEF TypeOK, Calls, Fetchers
    <3>3. 1..top \subseteq IDs
      BY ConfigFacts DEF TypeOK, IDs
    <3> QED
      BY <3>1, <3>2, <3>3
  <2> HIDE DEF f
  <2>5. f.anchor \in IDs /\ c.orig <= f.anchor /\ m > f.anchor
    BY <1>3, <1>4, <2>2, <2>3, <2>4
  <2>6. o < f.anchor /\ o <= f.anchor /\ f.anchor <= m
    <3>1. o \in Nat /\ m \in Nat /\ f.anchor \in Nat
      BY <1>3, <2>2, <2>4, <2>5
    <3> QED
      BY <1>4, <2>2, <2>5, <3>1
  <2>7. GroupedID(f.anchor) = GroupedID(m)
    BY <1>11, <2>4, <2>5, <2>6, AlbumBetween DEF Uncut, Fits
  <2>8. Uncut(f.anchor) /\ o \in Before(f.anchor)
    BY <1>11, <2>6, <2>7 DEF Uncut, Before
  <2> QED
    BY <1>11, <2>3, <2>8 DEF Albums, InOrder
<1>12. ForwardAlbums'
  <2>1. Converted("forward")' = Converted("forward")
    BY <1>1, SameAlbums DEF Fetchers
  <2>2. ASSUME pc["forward"] = "deliver", NEW m \in Converted("forward"), Uncut(m),
               Before(m) \subseteq bridged' \cup Converted("forward")
        PROVE  f.index[m] = IndexOf(m)
    <3>1. Before(m) \subseteq bridged \cup Converted("forward")
      BY <1>1, <1>11, <2>2
    <3> QED
      BY <2>2, <3>1 DEF Albums, ForwardAlbums
  <2> QED
    BY <1>1, <1>2, <1>7, <2>1, <2>2, SameAlbums DEF ForwardAlbums
<1>13. BackwardAlbums'
  BY <1>2 DEF BackwardAlbums, Asking
<1> QED
  BY <1>9, <1>10, <1>12, <1>13 DEF Albums

\* The task in the queue is recorded.
LEMMA RecordAlbums ==
    ASSUME TypeOK, Albums, Record
    PROVE  Albums'
<1>1. /\ UNCHANGED <<config, bridged, albumIndex, cut>>
      /\ Rests("backward") /\ Rests("forward")
  BY DEF Record, room, To, TypeOK, Callers, Fetchers, Rests
<1> QED
  BY <1>1, BackwardAlbumsStay, ForwardAlbumsStay, RoomAlbumsStay DEF Albums

LEMMA AlbumsInductive ==
    ASSUME TypeOK, TypeOK', [Next]_vars, History, History', Albums
    PROVE  Albums'
<1>1. CASE Quiet
  BY <1>1, BackwardAlbumsStay, ForwardAlbumsStay, RoomAlbumsStay
  DEF Albums, Quiet, room, Fetchers
<1>2. ASSUME NEW p \in Fetchers, Fetch(p) \/ Return(p) \/ Deliver(p) PROVE Albums'
  BY <1>2, FetchForwardAlbums, FetchBackwardAlbums, ReturnForwardAlbums,
     ReturnBackwardAlbums, DeliverForwardAlbums, DeliverBackwardAlbums
  DEF Fetchers
<1>3. CASE StartForward \/ StartBackward \/ Record
  BY <1>3, StartForwardAlbums, StartBackwardAlbums, RecordAlbums
<1> QED
  BY <1>1, <1>2, <1>3, StepKinds

-----------------------------------------------------------------------------
(* The invariant                                                              *)

LEMMA InitInv == Init => Inv
<1> SUFFICES ASSUME Init PROVE Inv
  OBVIOUS
<1>1. TypeOK /\ LockHeld /\ AcceptedIsNoticed
  BY InitType DEF Init, LockHeld, AcceptedIsNoticed
<1>2. Ends
  <2>1. config.first \in 0..config.last /\ config.last \in 0..MaxID /\ MaxID \in Nat
    BY <1>1, BackfillConstants DEF TypeOK
  <2> QED
    BY <2>1 DEF Init, Ends
<1>3. /\ cursor = 0 /\ pc["forward"] = "idle" /\ pc["backward"] = "idle"
      /\ bridged = config.calls
  BY DEF Init, Callers, Fetchers
<1>4. ASSUME config.calls = {} PROVE History /\ Albums
  BY <1>3, <1>4 DEF History, Joined, ForwardOK, BackwardOK, RecordOK, Albums, InOrder,
     Indexed, BackwardAlbums, ForwardAlbums, Asking
<1>5. CallHistory
  BY <1>3 DEF CallHistory, ForwardReaches, BackwardReaches, RecordReaches
<1> QED
  BY <1>1, <1>2, <1>4, <1>5 DEF Inv

LEMMA InvInductive == Inv /\ [Next]_vars => Inv'
<1> SUFFICES ASSUME Inv, [Next]_vars PROVE Inv'
  OBVIOUS
<1>1. TypeOK' /\ LockHeld' /\ AcceptedIsNoticed'
  BY TypeInductive, LockInductive DEF Inv
<1>2. UNCHANGED config /\ Ends' /\ (config.first = config.last => top' = top)
  BY EndsInductive DEF Inv
<1>3. ASSUME config.calls = {} PROVE History' /\ Albums'
  <2>1. History'
    BY <1>1, <1>3, HistoryInductive DEF Inv
  <2> QED
    BY <1>1, <1>3, <2>1, AlbumsInductive DEF Inv
<1>4. ASSUME config.calls # {}, config.first = config.last PROVE CallHistory'
  BY <1>2, <1>4, CallHistoryInductive DEF Inv
<1> QED
  BY <1>1, <1>2, <1>3, <1>4 DEF Inv

LEMMA InvHolds == Spec => []Inv
BY InitInv, InvInductive, PTL DEF Spec

-----------------------------------------------------------------------------
(* The theorems                                                               *)

\* A call of getTakeoutID that waits for the user never misses the acceptance:
\* takeoutAccepted is cleared under the lock before the request, so whatever
\* order the answer and the edited message come in, the event is set or will be.
THEOREM WakeUpIsKept == Spec => []AcceptedIsNoticed
<1>1. Inv => AcceptedIsNoticed
  BY DEF Inv
<1> QED
  BY <1>1, InvHolds, PTL

\* FetchMessages returns nothing that is in the room, although a forward and a
\* backward call may run at a time and a crash may come between the delivery of a
\* batch and the cursor that is stored after it.
THEOREM BatchesAreNew == Spec => []NothingTwice
<1>1. Inv => NothingTwice
  <2> SUFFICES ASSUME Inv, NEW p \in Fetchers, pc[p] = "deliver", config.calls = {},
                      NEW m \in Converted(p), m \in bridged
               PROVE  FALSE
    BY DEF NothingTwice
  <2>1. m \in call[p].messages /\ call[p].messages \subseteq 1..top /\ top \in Nat
    BY ConvertedFacts, BatchFacts, ConfigFacts DEF Inv, TypeOK, Calls
  <2>2. CASE p = "forward"
    <3>1. m <= call[p].anchor /\ call[p].anchor = call[p].min /\ m > call[p].min
      BY <2>1, <2>2 DEF Inv, History, ForwardOK
    <3>2. call[p].min \in Nat
      BY DEF Inv, TypeOK, Calls
    <3> QED
      BY <2>1, <3>1, <3>2
  <2>3. CASE p = "backward"
    <3>1. call[p].orig # 0 /\ call[p].orig <= m /\ m < call[p].orig
      BY <2>1, <2>3 DEF Inv, History, BackwardOK
    <3>2. call[p].orig \in Nat
      BY DEF Inv, TypeOK, Calls
    <3> QED
      BY <2>1, <3>1, <3>2
  <2> QED
    BY <2>2, <2>3 DEF Fetchers
<1> QED
  BY <1>1, InvHolds, PTL

\* The batches of both directions join without a hole, at every moment, in a chat
\* without calls and in one with calls that nobody writes to: neither the end of
\* an album, nor a batch with nothing to bridge, nor an anchor that is a call, nor
\* a request that fails, nor a crash before the cursor is stored leaves a message
\* out that lies between two that FetchMessages has brought.
THEOREM BatchesJoin == Spec => []NoHoles
<1>1. Inv => NoHoles
  <2> SUFFICES ASSUME Inv, Steady, NEW a \in bridged \ config.calls,
                      NEW b \in bridged \ config.calls, NEW m \in a..b
               PROVE  Settled(m)
    BY DEF NoHoles
  <2>1. CASE config.calls = {}
    BY <2>1 DEF Inv, History, Joined
  <2>2. CASE config.calls # {}
    <3>1. Reaches(a)
      BY <2>2 DEF Inv, CallHistory, Steady
    <3>2. m \in a..top
      <4>1. a \in 1..top /\ b \in 1..top /\ top \in Nat
        BY ConfigFacts DEF Inv, TypeOK
      <4> QED
        BY <4>1
    <3> QED
      BY <3>1, <3>2 DEF Reaches
  <2> QED
    BY <2>1, <2>2
<1> QED
  BY <1>1, InvHolds, PTL

\* In a chat without calls every item of an album has its place in the album as
\* its index, although telegramAlbumIndex looks only at the items of the batch
\* and of the database: trimTrailingAlbum keeps a backward batch from ending
\* inside an album, whichever order the batches of both directions come in.
THEOREM AlbumsInOrder == Spec => []AlbumIndexes
<1>1. Inv => AlbumIndexes
  BY DEF Inv, Albums, Indexed, Uncut, IndexOf, Album, AlbumIndexes
<1> QED
  BY <1>1, InvHolds, PTL
=============================================================================
