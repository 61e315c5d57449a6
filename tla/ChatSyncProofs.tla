--------------------------- MODULE ChatSyncProofs ---------------------------
(* Proofs about ChatSync, for every number of dialogs, every size of a page,   *)
(* all limits, and every number of messages, crawls and failures.             *)
(*                                                                            *)
(* The parts of the invariant have their state as parameters: c the setting,  *)
(* dt the dates, ch what is checked, m a position, pg a page.                 *)
EXTENDS ChatSync, FiniteSetTheorems, WellFoundedInduction, TLAPS

MaxDate == NumDialogs + MaxBumps

Entries == [dialog : Dialogs, date : 0..MaxDate]

Metas == [complete : BOOLEAN, cursor : 0..NumDialogs, offset : Nat, count : Nat,
          crawl : Nat]

TypeOK ==
    /\ config \in Configs
    /\ meta \in Metas /\ stored \in Metas
    /\ update \in Int /\ create \in Int
    /\ page \in SUBSET Entries
    /\ checked \in [Dialogs -> Nat] /\ origin \in [Dialogs -> Int]
    /\ crawls \in Nat

\* A dialog keeps its first date until it gets a message.
DatesOK(dt) ==
    /\ dt \in [Dialogs -> 0..MaxDate]
    /\ \A d \in Dialogs : dt[d] = d \/ dt[d] > NumDialogs
    /\ \A d, e \in Dialogs : dt[d] = dt[e] => d = e

CrawlsOK ==
    /\ meta.crawl <= crawls /\ stored.crawl <= crawls
    /\ \A d \in Dialogs : checked[d] <= crawls

Above(dt, k) == {d \in Dialogs : dt[d] >= k}

\* Those of them that got no message yet.
Quiet(dt, k) == {d \in Dialogs : dt[d] >= k /\ dt[d] = d}

IsKnown(ch, m, d) == ch[d] >= m.crawl

IsAhead(dt, d) == {e \in Dialogs : dt[e] > dt[d]}

IsDated(c) ==
    \/ c.silent = {}
    \/ Unlimited(c.update) /\ ~c.dialogSync /\ Cardinality(c.silent) < PageSize

\* The dialogs that count are checked.
TopKnown(c, dt, ch, m) ==
    \A d \in Dialogs :
        Unlimited(c.update) \/ Cardinality(IsAhead(dt, d)) < c.update => IsKnown(ch, m, d)

\* What a position says: everything above it is checked; the count has those
\* that got no message, and, if all dialogs are dated, it has no more than
\* there are; what lies between the position and the cursor has no date.
PositionOK(c, dt, ch, m) ==
    /\ m.offset > 0 => /\ \A d \in Above(dt, m.offset) : IsKnown(ch, m, d)
                       /\ Above(dt, m.offset) # {}
                       /\ Cardinality(Quiet(dt, m.offset)) <= m.count
    /\ c.silent = {} /\ m.offset > 0 => m.count <= Cardinality(Above(dt, m.offset))
    /\ c.silent = {} /\ m.offset = 0 => m.count = 0
    /\ IsDated(c) /\ m.cursor # NoDialog =>
          /\ m.offset = 0 => \A d \in Dialogs : IsKnown(ch, m, d)
          /\ m.offset > 0 =>
                \A d \in Dialogs :
                    dt[m.cursor] <= dt[d] /\ dt[d] < m.offset => d \in c.silent
    /\ IsDated(c) /\ m.complete => TopKnown(c, dt, ch, m)

Listed(pg) == {e.dialog : e \in pg}

\* Checked, or about to be.
Covered(ch, m, pg, todo, d) == IsKnown(ch, m, d) \/ (todo /\ d \in Listed(pg))

\* The list of a page.
ListOK(dt, pg) ==
    /\ pg # {}
    /\ \A e \in pg : /\ e.date <= dt[e.dialog]
                     /\ e.date = e.dialog \/ e.date > NumDialogs
    /\ \A e, f \in pg : e.date = f.date \/ e.dialog = f.dialog => e = f
    /\ \A e, f \in pg : \A d \in Dialogs :
          e.date <= dt[d] /\ dt[d] <= f.date => [dialog |-> d, date |-> dt[d]] \in pg

\* A page that was fetched with this limit and is not recorded yet; todo: nor
\* checked.
PageOK(c, dt, ch, m, pg, limit, todo) ==
    /\ ListOK(dt, pg)
    /\ \A e \in pg : \A d \in Above(dt, e.date) : Covered(ch, m, pg, todo, d)
    /\ Unlimited(limit) /\ Cardinality(pg) < PageSize =>
          \A d \in Dialogs : Covered(ch, m, pg, todo, d)
    /\ IsDated(c) /\ Last(pg).dialog = m.cursor /\ m.offset > 0 => Listed(pg) \subseteq c.silent
    /\ \A e \in pg : Cardinality(Quiet(dt, e.date)) <= m.count + Position(pg, e)
    /\ c.silent = {} =>
          m.count + Cardinality(pg) <= Cardinality(Above(dt, Last(pg).date))

\* The limits of the call.
LimitsOK ==
    /\ pc \in {"loop", "handle", "advance", "save"} =>
          /\ create = subtractLimit(config.create, meta.count)
          /\ isFullSync(holder) => update = subtractLimit(config.update, meta.count)
    /\ pc = "finish" /\ isFullSync(holder) /\ IsDated(config) =>
          TopKnown(config, date, checked, meta)

\* The dialogs without a message yet that are listed before d.
Before(dt, d) == {e \in Dialogs : dt[e] = e /\ e > d}

\* A crawl creates portals from the top.
CreateOK(c, dt, or) ==
    \A d \in Dialogs :
        or[d] > 0 /\ dt[d] = d /\ ~Unlimited(c.create) =>
            Cardinality(Before(dt, d)) < c.create

Inv ==
    /\ TypeOK /\ DatesOK(date) /\ CrawlsOK
    /\ PositionOK(config, date, checked, meta)
    /\ PositionOK(config, date, checked, stored)
    /\ pc \in {"handle", "advance"} =>
          PageOK(config, date, checked, meta, page, update, pc = "handle")
    /\ LimitsOK /\ CreateOK(config, date, origin)

-----------------------------------------------------------------------------
(* Numbers and finite sets                                                    *)

LEMMA Constants ==
    /\ NumDialogs \in Nat /\ PageSize \in Nat \ {0} /\ MaxBumps \in Nat /\ MaxDate \in Nat
    /\ \A c \in Configs : /\ c.silent \subseteq Dialogs /\ c.dialogSync \in BOOLEAN
                          /\ c.update \in Int /\ c.create \in Int /\ c.login \in Int
                          /\ c.update <= NumDialogs /\ c.create <= NumDialogs
<1>1. NumDialogs \in Nat /\ PageSize \in Nat \ {0} /\ MaxBumps \in Nat /\ MaxDate \in Nat
  BY ChatSyncConstants DEF MaxDate
<1>2. ASSUME NEW c \in Configs
      PROVE  /\ c.silent \subseteq Dialogs /\ c.dialogSync \in BOOLEAN
             /\ c.update \in Int /\ c.create \in Int /\ c.login \in Int
             /\ c.update <= NumDialogs /\ c.create <= NumDialogs
  <2>1. {c.update, c.create, c.login} \subseteq -1..NumDialogs
    BY ChatSyncConstants
  <2>2. c.update \in -1..NumDialogs /\ c.create \in -1..NumDialogs /\ c.login \in -1..NumDialogs
    BY <2>1
  <2> QED
    BY <1>1, <2>2, ChatSyncConstants
<1> QED
  BY <1>1, <1>2

LEMMA MinFacts ==
    ASSUME NEW S \in SUBSET Nat, S # {}
    PROVE  \E x \in S : \A y \in S : x <= y
<1> DEFINE R == OpToRel(<, Nat)
<1>1. \A x, y \in Nat : <<x, y>> \in R <=> x < y
  BY DEF OpToRel
<1>2. IsWellFoundedOn(R, Nat)
  BY NatLessThanWellFounded
<1> HIDE DEF R
<1>3. PICK x \in S : \A y \in S : ~(<<y, x>> \in R)
  BY <1>2, WFMin
<1>4. ASSUME NEW y \in S PROVE x <= y
  <2>1. x \in Nat /\ y \in Nat /\ ~(y < x)
    BY <1>1, <1>3
  <2> QED
    BY <2>1
<1> QED
  BY <1>4

LEMMA MaxFacts ==
    ASSUME NEW n \in Nat, NEW S \in SUBSET (0..n), S # {}
    PROVE  \E x \in S : \A y \in S : x >= y
<1> DEFINE T == {n - x : x \in S}
<1>1. T \in SUBSET Nat /\ T # {}
  <2>1. \A x \in S : n - x \in Nat
    OBVIOUS
  <2> QED
    BY <2>1
<1>2. PICK t \in T : \A y \in T : t <= y
  BY <1>1, MinFacts
<1>3. PICK x \in S : t = n - x
  BY <1>2
<1>4. ASSUME NEW y \in S PROVE x >= y
  <2>1. x \in 0..n /\ y \in 0..n
    OBVIOUS
  <2>3. n - y \in T
    OBVIOUS
  <2>2. t <= n - y
    BY <1>2, <2>3
  <2> QED
    BY <1>3, <2>1, <2>2
<1> QED
  BY <1>4

LEMMA LastFacts ==
    ASSUME NEW S \in SUBSET Entries, S # {}
    PROVE  Last(S) \in S /\ \A f \in S : Last(S).date <= f.date
<1> DEFINE T == {e.date : e \in S}
<1>1. T \in SUBSET Nat /\ T # {}
  BY Constants DEF Entries
<1>2. PICK t \in T : \A y \in T : t <= y
  BY <1>1, MinFacts
<1>3. PICK e \in S : t = e.date
  BY <1>2
<1>4. \A f \in S : e.date <= f.date
  BY <1>2, <1>3
<1> QED
  BY <1>4 DEF Last

LEMMA FirstFacts ==
    ASSUME NEW S \in SUBSET Entries, S # {}
    PROVE  \E e \in S : \A f \in S : e.date >= f.date
<1> DEFINE T == {e.date : e \in S}
<1>1. T \in SUBSET (0..MaxDate) /\ T # {}
  BY DEF Entries
<1>2. PICK t \in T : \A y \in T : t >= y
  BY <1>1, MaxFacts, Constants
<1>3. PICK e \in S : t = e.date
  BY <1>2
<1> QED
  BY <1>2, <1>3

\* Sets of dialogs.
LEMMA SubsetSize ==
    ASSUME NEW T \in SUBSET Dialogs, NEW S \in SUBSET T
    PROVE  /\ IsFiniteSet(T) /\ IsFiniteSet(S)
           /\ Cardinality(T) \in Nat /\ Cardinality(S) \in Nat
           /\ Cardinality(S) <= Cardinality(T) /\ Cardinality(S) <= NumDialogs
<1>1. IsFiniteSet(Dialogs) /\ Cardinality(Dialogs) <= NumDialogs
  BY Constants, FS_Interval DEF Dialogs
<1>2. IsFiniteSet(T) /\ Cardinality(T) <= Cardinality(Dialogs)
  BY <1>1, FS_Subset
<1>3. IsFiniteSet(S) /\ Cardinality(S) <= Cardinality(T)
  BY <1>2, FS_Subset
<1>4. Cardinality(S) \in Nat /\ Cardinality(T) \in Nat /\ Cardinality(Dialogs) \in Nat
  BY <1>1, <1>2, <1>3, FS_CardinalityType
<1> QED
  BY <1>1, <1>2, <1>3, <1>4, Constants

\* A list has as many entries as dialogs.
LEMMA ListedSize ==
    ASSUME NEW S \in SUBSET Entries, \A e, f \in S : e.dialog = f.dialog => e = f
    PROVE  /\ IsFiniteSet(S) /\ Cardinality(S) \in Nat
           /\ Listed(S) \subseteq Dialogs /\ Cardinality(Listed(S)) = Cardinality(S)
<1> DEFINE g == [e \in S |-> e.dialog]
<1>1. Listed(S) \subseteq Dialogs
  BY DEF Listed, Entries
<1>2. IsFiniteSet(Listed(S))
  BY <1>1, SubsetSize
<1>3. g \in Bijection(S, Listed(S))
  BY DEF Listed, Bijection, Injection, Surjection, IsInjective
<1>4. g \in Injection(S, Listed(S)) /\ g \in Surjection(S, Listed(S))
  BY <1>3 DEF Bijection
<1>5. IsFiniteSet(S) /\ Cardinality(S) = Cardinality(Listed(S))
  BY <1>2, <1>4, FS_Injection
<1> QED
  BY <1>1, <1>5, FS_CardinalityType

LEMMA PositionFacts ==
    ASSUME NEW S \in SUBSET Entries, IsFiniteSet(S), NEW e \in S
    PROVE  /\ Position(S, e) \in Nat /\ 1 <= Position(S, e)
           /\ Position(S, e) <= Cardinality(S)
           /\ \A f \in S : f.date >= e.date => Position(S, f) <= Position(S, e)
<1> DEFINE T(f) == {x \in S : x.date >= f.date}
<1>1. \A f \in S : IsFiniteSet(T(f)) /\ Cardinality(T(f)) \in Nat /\ Cardinality(T(f)) <= Cardinality(S)
  BY FS_Subset, FS_CardinalityType
<1>2. \A f \in S : f.date \in Nat
  BY Constants DEF Entries
<1>3. T(e) # {}
  BY <1>2
<1>4. Cardinality(T(e)) # 0
  BY <1>1, <1>3, FS_EmptySet
<1>5. ASSUME NEW f \in S, f.date >= e.date PROVE Cardinality(T(f)) <= Cardinality(T(e))
  <2>1. T(f) \in SUBSET T(e)
    BY <1>2, <1>5
  <2> QED
    BY <1>1, <2>1, FS_Subset
<1>6. \A f \in S : Position(S, f) = Cardinality(T(f))
  BY DEF Position
<1> HIDE DEF T
<1> QED
  BY <1>1, <1>4, <1>5, <1>6

\* The first k entries are k, unless there are less.
LEMMA Prefix ==
    ASSUME NEW S \in SUBSET Entries, IsFiniteSet(S), NEW k \in Nat,
           \A e, f \in S : e.date = f.date => e = f,
           NEW T, T = {e \in S : Position(S, e) <= k}, T # S
    PROVE  Cardinality(T) >= k
<1>1. S \ T \in SUBSET Entries /\ S \ T # {}
  OBVIOUS
<1>2. PICK g \in S \ T : \A f \in S \ T : g.date >= f.date
  BY <1>1, FirstFacts
<1> DEFINE U == {f \in S : f.date >= g.date}
<1>3. U \subseteq T \cup {g}
  <2> SUFFICES ASSUME NEW f \in U, f \notin T PROVE f = g
    OBVIOUS
  <2>1. f.date \in Nat /\ g.date \in Nat /\ f.date >= g.date /\ g.date >= f.date
    BY <1>2, Constants DEF Entries
  <2> QED
    BY <2>1
<1>4. IsFiniteSet(T) /\ Cardinality(T) \in Nat
  BY FS_Subset, FS_CardinalityType
<1>5. IsFiniteSet(T \cup {g}) /\ Cardinality(T \cup {g}) = Cardinality(T) + 1
  BY <1>4, FS_AddElement
<1>6. Cardinality(U) <= Cardinality(T) + 1 /\ Cardinality(U) \in Nat
  BY <1>3, <1>5, FS_Subset, FS_CardinalityType
<1>7. ~(Cardinality(U) <= k)
  BY <1>2 DEF Position
<1> QED
  BY <1>4, <1>6, <1>7

-----------------------------------------------------------------------------
(* Dialogs are checked and get messages                                       *)

\* Some dialogs got a message: they come first and are checked for crawl n.
Later(dt, ch, dt2, ch2, n) ==
    \A d \in Dialogs :
        /\ ch2[d] >= ch[d]
        /\ \/ dt2[d] = dt[d]
           \/ /\ dt2[d] > NumDialogs /\ ch2[d] >= n
              /\ \A e \in Dialogs : dt2[d] > dt[e]

LEMMA LaterFacts ==
    ASSUME NEW dt, DatesOK(dt), NEW dt2, DatesOK(dt2),
           NEW ch \in [Dialogs -> Nat], NEW ch2 \in [Dialogs -> Nat], NEW n \in Nat,
           Later(dt, ch, dt2, ch2, n)
    PROVE  /\ \A k \in Nat : Above(dt, k) \subseteq Above(dt2, k)
           /\ \A k \in Nat : \A d \in Above(dt2, k) : d \in Above(dt, k) \/ ch2[d] >= n
           /\ \A k \in Nat : Quiet(dt2, k) \subseteq Quiet(dt, k)
           /\ \A d \in Dialogs : Before(dt2, d) \subseteq Before(dt, d)
           /\ \A d \in Dialogs : dt2[d] = d => dt[d] = d
           /\ \A d \in Dialogs : ch2[d] >= n \/ IsAhead(dt, d) \subseteq IsAhead(dt2, d)
           /\ \A m \in Metas : m.crawl <= n =>
                 \A d \in Dialogs :
                     IsKnown(ch, m, d) \/ ch2[d] >= n => IsKnown(ch2, m, d)
<1>1. /\ \A d \in Dialogs : d \in Nat /\ d <= NumDialogs
      /\ NumDialogs \in Nat
  BY Constants DEF Dialogs
<1>2. \A d \in Dialogs : dt[d] \in Nat /\ dt2[d] \in Nat /\ ch[d] \in Nat /\ ch2[d] \in Nat
  BY Constants DEF DatesOK
<1>3. \A d \in Dialogs : dt2[d] >= dt[d]
  BY <1>2 DEF Later
<1>4. \A d \in Dialogs : dt2[d] = d => dt[d] = d
  BY <1>1, <1>2 DEF Later
<1>5. \A k \in Nat : Above(dt, k) \subseteq Above(dt2, k)
  BY <1>2, <1>3 DEF Above
<1>6. \A k \in Nat : \A d \in Above(dt2, k) : d \in Above(dt, k) \/ ch2[d] >= n
  BY DEF Above, Later
<1>7. \A k \in Nat : Quiet(dt2, k) \subseteq Quiet(dt, k)
  BY <1>4 DEF Quiet
<1>8. \A d \in Dialogs : Before(dt2, d) \subseteq Before(dt, d)
  BY <1>4 DEF Before
<1>9. \A d \in Dialogs : ch2[d] >= n \/ IsAhead(dt, d) \subseteq IsAhead(dt2, d)
  <2> SUFFICES ASSUME NEW d \in Dialogs, ~(ch2[d] >= n), NEW e \in IsAhead(dt, d)
               PROVE  e \in IsAhead(dt2, d)
    OBVIOUS
  <2>1. e \in Dialogs /\ dt[e] > dt[d] /\ dt2[d] = dt[d]
    BY DEF IsAhead, Later
  <2> QED
    BY <1>2, <1>3, <2>1 DEF IsAhead
<1>10. \A m \in Metas : m.crawl <= n =>
         \A d \in Dialogs : IsKnown(ch, m, d) \/ ch2[d] >= n => IsKnown(ch2, m, d)
  <2> SUFFICES ASSUME NEW m \in Metas, m.crawl <= n, NEW d \in Dialogs,
                      IsKnown(ch, m, d) \/ ch2[d] >= n
               PROVE  IsKnown(ch2, m, d)
    OBVIOUS
  <2>1. m.crawl \in Nat /\ ch2[d] >= ch[d]
    BY DEF Metas, Later
  <2> QED
    BY <1>2, <2>1 DEF IsKnown
<1> QED
  BY <1>4, <1>5, <1>6, <1>7, <1>8, <1>9, <1>10

LEMMA TopKept ==
    ASSUME NEW c \in Configs, NEW dt, DatesOK(dt), NEW dt2, DatesOK(dt2),
           NEW ch \in [Dialogs -> Nat], NEW ch2 \in [Dialogs -> Nat], NEW n \in Nat,
           Later(dt, ch, dt2, ch2, n), NEW m \in Metas, m.crawl <= n,
           TopKnown(c, dt, ch, m)
    PROVE  TopKnown(c, dt2, ch2, m)
<1> SUFFICES ASSUME NEW d \in Dialogs,
                    Unlimited(c.update) \/ Cardinality(IsAhead(dt2, d)) < c.update
             PROVE  IsKnown(ch2, m, d)
  BY DEF TopKnown
<1>1. CASE ch2[d] >= n
  BY <1>1, LaterFacts
<1>2. CASE IsAhead(dt, d) \subseteq IsAhead(dt2, d)
  <2>1. IsAhead(dt2, d) \in SUBSET Dialogs /\ c.update \in Int
    BY Constants DEF IsAhead
  <2>2. /\ Cardinality(IsAhead(dt, d)) <= Cardinality(IsAhead(dt2, d))
        /\ Cardinality(IsAhead(dt, d)) \in Nat /\ Cardinality(IsAhead(dt2, d)) \in Nat
    BY <1>2, <2>1, SubsetSize
  <2>3. Unlimited(c.update) \/ Cardinality(IsAhead(dt, d)) < c.update
    BY <2>1, <2>2
  <2>4. IsKnown(ch, m, d)
    BY <2>3 DEF TopKnown
  <2> QED
    BY <2>4, LaterFacts
<1> QED
  BY <1>1, <1>2, LaterFacts

LEMMA PositionKept ==
    ASSUME NEW c \in Configs, NEW dt, DatesOK(dt), NEW dt2, DatesOK(dt2),
           NEW ch \in [Dialogs -> Nat], NEW ch2 \in [Dialogs -> Nat], NEW n \in Nat,
           Later(dt, ch, dt2, ch2, n), NEW m \in Metas, m.crawl <= n,
           PositionOK(c, dt, ch, m)
    PROVE  PositionOK(c, dt2, ch2, m)
<1> DEFINE k == m.offset
<1>1. /\ k \in Nat /\ m.count \in Nat /\ m.cursor \in 0..NumDialogs
      /\ \A d \in Dialogs : dt[d] \in Nat /\ dt2[d] \in Nat
  BY Constants DEF Metas, DatesOK
<1>2. Above(dt2, k) \in SUBSET Dialogs /\ Quiet(dt, k) \in SUBSET Dialogs
  BY DEF Above, Quiet
<1>3. /\ Above(dt, k) \subseteq Above(dt2, k) /\ Quiet(dt2, k) \subseteq Quiet(dt, k)
      /\ \A d \in Above(dt2, k) : d \in Above(dt, k) \/ ch2[d] >= n
      /\ \A d \in Dialogs : IsKnown(ch, m, d) \/ ch2[d] >= n => IsKnown(ch2, m, d)
  BY <1>1, LaterFacts
<1>4. /\ Cardinality(Above(dt, k)) <= Cardinality(Above(dt2, k))
      /\ Cardinality(Quiet(dt2, k)) <= Cardinality(Quiet(dt, k))
      /\ Cardinality(Above(dt, k)) \in Nat /\ Cardinality(Above(dt2, k)) \in Nat
      /\ Cardinality(Quiet(dt, k)) \in Nat /\ Cardinality(Quiet(dt2, k)) \in Nat
  BY <1>2, <1>3, SubsetSize
<1>5. ASSUME k > 0
      PROVE  /\ \A d \in Above(dt2, k) : IsKnown(ch2, m, d)
             /\ Above(dt2, k) # {}
             /\ Cardinality(Quiet(dt2, k)) <= m.count
  <2>1. /\ \A d \in Above(dt, k) : IsKnown(ch, m, d)
        /\ Above(dt, k) # {}
        /\ Cardinality(Quiet(dt, k)) <= m.count
    BY <1>5 DEF PositionOK
  <2>2. \A d \in Above(dt2, k) : IsKnown(ch2, m, d)
    BY <1>2, <1>3, <2>1
  <2>3. Cardinality(Quiet(dt2, k)) <= m.count
    BY <1>1, <1>4, <2>1
  <2> QED
    BY <1>3, <2>1, <2>2, <2>3
<1>6. /\ c.silent = {} /\ k > 0 => m.count <= Cardinality(Above(dt2, k))
      /\ c.silent = {} /\ k = 0 => m.count = 0
  BY <1>1, <1>4 DEF PositionOK
<1>7. ASSUME IsDated(c), m.cursor # NoDialog, k = 0, NEW d \in Dialogs
      PROVE  IsKnown(ch2, m, d)
  BY <1>3, <1>7 DEF PositionOK
<1>8. ASSUME IsDated(c), m.cursor # NoDialog, k > 0, NEW d \in Dialogs,
             dt2[m.cursor] <= dt2[d], dt2[d] < k
      PROVE  d \in c.silent
  <2>1. PICK f \in Dialogs : dt[f] >= k
    BY <1>8 DEF PositionOK, Above
  <2>2. m.cursor \in Dialogs
    BY <1>1, <1>8 DEF Dialogs, NoDialog
  <2>3. \A e \in Dialogs : dt2[e] < k => dt2[e] = dt[e]
    BY <1>1, <2>1 DEF Later
  <2>4. dt2[m.cursor] < k
    BY <1>1, <1>8, <2>2
  <2>5. dt[m.cursor] <= dt[d] /\ dt[d] < k
    BY <1>8, <2>2, <2>3, <2>4
  <2> QED
    BY <1>8, <2>5 DEF PositionOK
<1>9. IsDated(c) /\ m.complete => TopKnown(c, dt2, ch2, m)
  BY TopKept DEF PositionOK
<1> QED
  BY <1>5, <1>6, <1>7, <1>8, <1>9 DEF PositionOK

LEMMA PageKept ==
    ASSUME NEW c \in Configs, NEW dt, DatesOK(dt), NEW dt2, DatesOK(dt2),
           NEW ch \in [Dialogs -> Nat], NEW ch2 \in [Dialogs -> Nat], NEW n \in Nat,
           Later(dt, ch, dt2, ch2, n), NEW m \in Metas, m.crawl <= n,
           NEW pg \in SUBSET Entries, NEW limit, NEW todo \in BOOLEAN,
           PageOK(c, dt, ch, m, pg, limit, todo)
    PROVE  PageOK(c, dt2, ch2, m, pg, limit, todo)
<1>1. /\ \A d \in Dialogs : dt[d] \in Nat /\ dt2[d] \in Nat /\ dt2[d] >= dt[d]
      /\ \A e \in pg : e.dialog \in Dialogs /\ e.date \in Nat
      /\ m.count \in Nat
  BY Constants DEF Metas, DatesOK, Entries, Later
<1>2. ListOK(dt2, pg)
  <2>1. ListOK(dt, pg)
    BY DEF PageOK
  <2>2. \A e \in pg : e.date <= dt2[e.dialog]
    BY <1>1, <2>1 DEF ListOK
  <2>3. ASSUME NEW e \in pg, NEW f \in pg, NEW d \in Dialogs,
               e.date <= dt2[d], dt2[d] <= f.date
        PROVE  [dialog |-> d, date |-> dt2[d]] \in pg
    <3>1. f.date <= dt[f.dialog]
      BY <2>1 DEF ListOK
    <3>2. ~(dt2[d] > dt[f.dialog])
      BY <1>1, <2>3, <3>1
    <3>3. dt2[d] = dt[d]
      BY <1>1, <3>2 DEF Later
    <3> QED
      BY <2>1, <2>3, <3>3 DEF ListOK
  <2> QED
    BY <2>1, <2>2, <2>3 DEF ListOK
<1>3. \A d \in Dialogs : Covered(ch, m, pg, todo, d) \/ ch2[d] >= n => Covered(ch2, m, pg, todo, d)
  BY LaterFacts DEF Covered
<1>4. ASSUME NEW e \in pg, NEW d \in Above(dt2, e.date) PROVE Covered(ch2, m, pg, todo, d)
  <2>1. d \in Above(dt, e.date) \/ ch2[d] >= n
    BY <1>1, LaterFacts
  <2>2. d \in Dialogs
    BY DEF Above
  <2> QED
    BY <1>3, <2>1, <2>2 DEF PageOK
<1>5. ASSUME NEW e \in pg
      PROVE  Cardinality(Quiet(dt2, e.date)) <= m.count + Position(pg, e)
  <2>1. Quiet(dt2, e.date) \subseteq Quiet(dt, e.date) /\ Quiet(dt, e.date) \in SUBSET Dialogs
    BY <1>1, LaterFacts DEF Quiet
  <2>2. /\ Cardinality(Quiet(dt2, e.date)) <= Cardinality(Quiet(dt, e.date))
        /\ Cardinality(Quiet(dt2, e.date)) \in Nat /\ Cardinality(Quiet(dt, e.date)) \in Nat
    BY <2>1, SubsetSize
  <2>3. Position(pg, e) \in Nat
    BY ListedSize, PositionFacts DEF PageOK, ListOK
  <2>4. Cardinality(Quiet(dt, e.date)) <= m.count + Position(pg, e)
    BY DEF PageOK
  <2> QED
    BY <1>1, <2>2, <2>3, <2>4
<1>6. ASSUME c.silent = {}
      PROVE  m.count + Cardinality(pg) <= Cardinality(Above(dt2, Last(pg).date))
  <2> DEFINE k == Last(pg).date
  <2>1. k \in Nat
    BY <1>1, LastFacts DEF PageOK, ListOK
  <2> HIDE DEF k
  <2>2. Above(dt, k) \subseteq Above(dt2, k) /\ Above(dt2, k) \in SUBSET Dialogs
    BY <2>1, LaterFacts DEF Above
  <2>3. /\ Cardinality(Above(dt, k)) <= Cardinality(Above(dt2, k))
        /\ Cardinality(Above(dt, k)) \in Nat /\ Cardinality(Above(dt2, k)) \in Nat
    BY <2>2, SubsetSize
  <2>4. Cardinality(pg) \in Nat
    BY ListedSize DEF PageOK, ListOK
  <2>5. m.count + Cardinality(pg) <= Cardinality(Above(dt, k))
    BY <1>6 DEF PageOK, k
  <2> QED
    BY <1>1, <2>3, <2>4, <2>5 DEF k
<1> QED
  BY <1>2, <1>3, <1>4, <1>5, <1>6 DEF PageOK

LEMMA CreateKept ==
    ASSUME NEW c \in Configs, NEW dt, DatesOK(dt), NEW dt2, DatesOK(dt2),
           NEW ch \in [Dialogs -> Nat], NEW ch2 \in [Dialogs -> Nat], NEW n \in Nat,
           Later(dt, ch, dt2, ch2, n), NEW or, NEW or2,
           \A d \in Dialogs : or2[d] > 0 => or[d] > 0, CreateOK(c, dt, or)
    PROVE  CreateOK(c, dt2, or2)
<1> SUFFICES ASSUME NEW d \in Dialogs, or2[d] > 0, dt2[d] = d, ~Unlimited(c.create)
             PROVE  Cardinality(Before(dt2, d)) < c.create
  BY DEF CreateOK
<1>1. dt[d] = d /\ Before(dt2, d) \subseteq Before(dt, d) /\ Before(dt, d) \in SUBSET Dialogs
  BY LaterFacts DEF Before
<1>2. Cardinality(Before(dt, d)) < c.create
  BY <1>1 DEF CreateOK
<1>3. /\ Cardinality(Before(dt2, d)) <= Cardinality(Before(dt, d))
      /\ Cardinality(Before(dt2, d)) \in Nat /\ Cardinality(Before(dt, d)) \in Nat
  BY <1>1, SubsetSize
<1>4. c.create \in Int
  BY Constants
<1> QED
  BY <1>2, <1>3, <1>4

-----------------------------------------------------------------------------
(* A page is fetched                                                          *)

LEMMA UnionSize ==
    ASSUME NEW A \in SUBSET Dialogs, NEW B \in SUBSET Dialogs
    PROVE  /\ Cardinality(A) \in Nat /\ Cardinality(B) \in Nat
           /\ Cardinality(A \cup B) <= Cardinality(A) + Cardinality(B)
           /\ A \cap B = {} => Cardinality(A \cup B) = Cardinality(A) + Cardinality(B)
<1>1. IsFiniteSet(A) /\ IsFiniteSet(B) /\ Cardinality(A) \in Nat /\ Cardinality(B) \in Nat
  BY SubsetSize
<1>2. A \cap B \in SUBSET Dialogs
  OBVIOUS
<1>3. IsFiniteSet(A \cap B) /\ Cardinality(A \cap B) \in Nat
  BY <1>2, SubsetSize
<1>4. Cardinality(A \cup B) = Cardinality(A) + Cardinality(B) - Cardinality(A \cap B)
  BY <1>1, FS_Union
<1>5. A \cap B = {} => Cardinality(A \cap B) = 0
  BY FS_EmptySet
<1> QED
  BY <1>1, <1>3, <1>4, <1>5

\* What messages.getDialogs may return.
Below == {[dialog |-> d, date |-> date[d]] :
            d \in {d \in Dialogs : meta.offset = 0 \/ date[d] < meta.offset}}

LEMMA BelowFacts ==
    ASSUME DatesOK(date)
    PROVE  /\ Below \in SUBSET Entries /\ IsFiniteSet(Below)
           /\ \A e \in Below : /\ e.dialog \in Dialogs /\ e.date = date[e.dialog]
                               /\ meta.offset = 0 \/ e.date < meta.offset
           /\ \A d \in Dialogs : meta.offset = 0 \/ date[d] < meta.offset =>
                 [dialog |-> d, date |-> date[d]] \in Below
           /\ \A e, f \in Below : e.date = f.date \/ e.dialog = f.dialog => e = f
<1>1. Below \in SUBSET Entries
  BY DEF Below, Entries, DatesOK
<1>2. \A e \in Below : /\ e.dialog \in Dialogs /\ e.date = date[e.dialog]
                       /\ meta.offset = 0 \/ e.date < meta.offset
  BY DEF Below
<1>3. \A d \in Dialogs : meta.offset = 0 \/ date[d] < meta.offset =>
         [dialog |-> d, date |-> date[d]] \in Below
  BY DEF Below
<1>4. \A e \in Below : e = [dialog |-> e.dialog, date |-> date[e.dialog]]
  BY DEF Below
<1>5. ASSUME NEW e \in Below, NEW f \in Below, e.date = f.date \/ e.dialog = f.dialog
      PROVE  e = f
  <2>1. e.dialog = f.dialog
    BY <1>2, <1>5 DEF DatesOK
  <2> QED
    BY <1>4, <2>1
<1>6. IsFiniteSet(Below)
  BY <1>1, <1>5, ListedSize
<1> QED
  BY <1>1, <1>2, <1>3, <1>5, <1>6

\* It returns the first ones, and all of them if there are less than it may.
LEMMA GetDialogsFacts ==
    ASSUME DatesOK(date), NEW limit \in Int, limit # 0
    PROVE  LET pg == GetDialogs(limit)
           IN /\ pg \subseteq Below
              /\ \A e \in pg, f \in Below : f.date >= e.date => f \in pg
              /\ pg = {} => Below = {}
              /\ Unlimited(limit) /\ Cardinality(pg) < PageSize => pg = Below
<1> DEFINE pg == GetDialogs(limit)
<1> DEFINE k == IF Unlimited(limit) \/ PageSize <= limit THEN PageSize ELSE limit
<1>1. /\ Below \in SUBSET Entries /\ IsFiniteSet(Below)
      /\ \A e, f \in Below : e.date = f.date => e = f
  BY BelowFacts
<1>2. \A e \in Below : Position(Below, e) \in Nat
  BY <1>1, PositionFacts
<1>3. k \in Nat \ {0} /\ PageSize \in Nat \ {0}
  BY Constants DEF Unlimited
<1>4. pg = {e \in Below : /\ Position(Below, e) <= PageSize
                          /\ Unlimited(limit) \/ Position(Below, e) <= limit}
  BY DEF GetDialogs, Below
<1>5. pg = {e \in Below : Position(Below, e) <= k}
  BY <1>2, <1>3, <1>4 DEF Unlimited
<1> HIDE DEF pg
<1>6. pg # Below => Cardinality(pg) >= k
  BY <1>1, <1>3, <1>5, Prefix
<1>7. Unlimited(limit) => k = PageSize
  OBVIOUS
<1> HIDE DEF k
<1>8. ASSUME NEW e \in pg, NEW f \in Below, f.date >= e.date PROVE f \in pg
  <2>1. e \in Below /\ Position(Below, e) <= k
    BY <1>5
  <2>2. Position(Below, f) <= Position(Below, e)
    BY <1>1, <1>8, <2>1, PositionFacts
  <2> QED
    BY <1>2, <1>3, <1>5, <2>1, <2>2
<1>9. pg \subseteq Below /\ IsFiniteSet(pg) /\ Cardinality(pg) \in Nat
  BY <1>1, <1>5, FS_Subset, FS_CardinalityType
<1>10. pg = {} => Cardinality(pg) = 0
  BY FS_EmptySet
<1> QED
  BY <1>3, <1>6, <1>7, <1>8, <1>9, <1>10 DEF pg

LEMMA FetchedPage ==
    ASSUME DatesOK(date), config \in Configs, meta \in Metas, checked \in [Dialogs -> Nat],
           PositionOK(config, date, checked, meta),
           NEW limit \in Int, limit # 0, NEW pg, pg = GetDialogs(limit), pg # {}
    PROVE  pg \in SUBSET Entries /\ PageOK(config, date, checked, meta, pg, limit, TRUE)
<1> DEFINE k == meta.offset
<1> DEFINE Entry(d) == [dialog |-> d, date |-> date[d]]
<1>1. /\ pg \subseteq Below
      /\ \A e \in pg, f \in Below : f.date >= e.date => f \in pg
      /\ Unlimited(limit) /\ Cardinality(pg) < PageSize => pg = Below
  BY GetDialogsFacts
<1>2. pg \in SUBSET Entries
  BY <1>1, BelowFacts
<1>3. \A e \in pg : /\ e.dialog \in Dialogs /\ e.date = date[e.dialog] /\ e.date \in Nat
                    /\ k = 0 \/ e.date < k
  BY <1>1, BelowFacts, Constants DEF DatesOK
<1>4. \A d \in Dialogs : k = 0 \/ date[d] < k => Entry(d) \in Below
  BY BelowFacts
<1>5. k \in Nat /\ meta.count \in Nat /\ \A d \in Dialogs : date[d] \in Nat
  BY Constants DEF Metas, DatesOK
<1>6. \A e \in pg, d \in Dialogs : e.date <= date[d] /\ (k = 0 \/ date[d] < k) => Entry(d) \in pg
  <2> SUFFICES ASSUME NEW e \in pg, NEW d \in Dialogs, e.date <= date[d], k = 0 \/ date[d] < k
               PROVE  Entry(d) \in pg
    OBVIOUS
  <2>1. Entry(d) \in Below /\ Entry(d).date = date[d]
    BY <1>4
  <2>2. Entry(d).date >= e.date
    BY <1>3, <1>5, <2>1
  <2> QED
    BY <1>1, <2>1, <2>2
<1>7. ListOK(date, pg)
  <2>1. \A e \in pg : e.date <= date[e.dialog] /\ (e.date = e.dialog \/ e.date > NumDialogs)
    BY <1>3, <1>5 DEF DatesOK
  <2>2. \A e, f \in pg : e.date = f.date \/ e.dialog = f.dialog => e = f
    BY <1>1, BelowFacts
  <2>3. ASSUME NEW e \in pg, NEW f \in pg, NEW d \in Dialogs,
               e.date <= date[d], date[d] <= f.date
        PROVE  Entry(d) \in pg
    BY <1>3, <1>5, <1>6, <2>3
  <2> QED
    BY <2>1, <2>2, <2>3 DEF ListOK
<1>8. \A d \in Dialogs : Entry(d) \in pg => d \in Listed(pg)
  BY DEF Listed
<1>9. \A d \in Dialogs : k > 0 /\ date[d] >= k => IsKnown(checked, meta, d)
  BY DEF PositionOK, Above
<1>10. ASSUME NEW e \in pg, NEW d \in Above(date, e.date)
       PROVE  Covered(checked, meta, pg, TRUE, d)
  <2>1. d \in Dialogs /\ date[d] >= e.date
    BY DEF Above
  <2>2. e.date <= date[d]
    BY <1>3, <1>5, <2>1
  <2>3. CASE k = 0 \/ date[d] < k
    BY <1>6, <1>8, <2>1, <2>2, <2>3 DEF Covered
  <2>4. CASE k > 0 /\ date[d] >= k
    BY <1>9, <2>1, <2>4 DEF Covered
  <2>5. k = 0 \/ date[d] < k \/ (k > 0 /\ date[d] >= k)
    BY <1>5, <2>1
  <2> QED
    BY <2>3, <2>4, <2>5
<1>11. ASSUME Unlimited(limit), Cardinality(pg) < PageSize, NEW d \in Dialogs
       PROVE  Covered(checked, meta, pg, TRUE, d)
  <2>1. pg = Below
    BY <1>1, <1>11
  <2>2. CASE k = 0 \/ date[d] < k
    BY <1>4, <1>8, <2>1, <2>2 DEF Covered
  <2>3. CASE k > 0 /\ date[d] >= k
    BY <1>9, <2>3 DEF Covered
  <2>4. k = 0 \/ date[d] < k \/ (k > 0 /\ date[d] >= k)
    BY <1>5
  <2> QED
    BY <2>2, <2>3, <2>4
<1>12. ASSUME IsDated(config), Last(pg).dialog = meta.cursor, k > 0, NEW e \in pg
       PROVE  e.dialog \in config.silent
  <2>1. Last(pg) \in pg /\ Last(pg).date <= e.date
    BY <1>2, LastFacts
  <2>2. date[meta.cursor] <= date[e.dialog] /\ date[e.dialog] < k
    BY <1>3, <1>5, <1>12, <2>1
  <2>3. meta.cursor # NoDialog
    BY <1>3, <1>12, <2>1, Constants DEF NoDialog, Dialogs
  <2> QED
    BY <1>3, <1>12, <2>2, <2>3 DEF PositionOK
<1>13. ASSUME NEW e \in pg
       PROVE  Cardinality(Quiet(date, e.date)) <= meta.count + Position(pg, e)
  <2> DEFINE P == {f \in pg : f.date >= e.date}
  <2> DEFINE Q == IF k > 0 THEN Quiet(date, k) ELSE {}
  <2>1. P \in SUBSET Entries /\ \A f, g \in P : f.dialog = g.dialog => f = g
    BY <1>2, <1>7 DEF ListOK
  <2>2. /\ Listed(P) \in SUBSET Dialogs /\ Cardinality(Listed(P)) = Position(pg, e)
        /\ Position(pg, e) \in Nat
    BY <2>1, ListedSize DEF Position
  <2>3. Q \in SUBSET Dialogs
    BY DEF Quiet
  <2>4. Cardinality(Q) <= meta.count
    BY <1>5, FS_EmptySet DEF PositionOK
  <2>5. ASSUME NEW d \in Quiet(date, e.date), d \notin Q PROVE d \in Listed(P)
    <3>1. d \in Dialogs /\ date[d] >= e.date /\ (k = 0 \/ date[d] < k)
      BY <1>5, <2>5 DEF Quiet
    <3>2. Entry(d) \in pg
      BY <1>3, <1>5, <1>6, <3>1
    <3>3. Entry(d) \in P /\ Entry(d).dialog = d
      BY <3>1, <3>2
    <3> QED
      BY <3>3 DEF Listed
  <2> HIDE DEF P, Q
  <2>6. Q \cup Listed(P) \in SUBSET Dialogs /\ Quiet(date, e.date) \in SUBSET (Q \cup Listed(P))
    BY <2>2, <2>3, <2>5
  <2>7. /\ Cardinality(Quiet(date, e.date)) <= Cardinality(Q \cup Listed(P))
        /\ Cardinality(Quiet(date, e.date)) \in Nat /\ Cardinality(Q \cup Listed(P)) \in Nat
    BY <2>6, SubsetSize
  <2>8. /\ Cardinality(Q \cup Listed(P)) <= Cardinality(Q) + Cardinality(Listed(P))
        /\ Cardinality(Q) \in Nat
    BY <2>2, <2>3, UnionSize
  <2> QED
    BY <1>5, <2>2, <2>4, <2>7, <2>8
<1>14. ASSUME config.silent = {}
       PROVE  meta.count + Cardinality(pg) <= Cardinality(Above(date, Last(pg).date))
  <2> DEFINE A == IF k > 0 THEN Above(date, k) ELSE {}
  <2> DEFINE l == Last(pg).date
  <2>1. /\ Listed(pg) \in SUBSET Dialogs /\ Cardinality(Listed(pg)) = Cardinality(pg)
        /\ Cardinality(pg) \in Nat
    BY <1>2, <1>7, ListedSize DEF ListOK
  <2>2. A \in SUBSET Dialogs
    BY DEF Above
  <2>3. meta.count <= Cardinality(A)
    BY <1>5, <1>14, FS_EmptySet DEF PositionOK
  <2>4. Last(pg) \in pg /\ \A f \in pg : l <= f.date
    BY <1>2, LastFacts
  <2>5. A \cap Listed(pg) = {}
    BY <1>3, <1>5 DEF Listed, Above
  <2>6. A \cup Listed(pg) \subseteq Above(date, l)
    <3>1. ASSUME NEW d \in A PROVE d \in Above(date, l)
      <4>1. k > 0 /\ d \in Dialogs /\ date[d] >= k
        BY DEF Above
      <4>2. l \in Nat /\ l < k
        BY <1>3, <2>4, <4>1
      <4> HIDE DEF l
      <4> QED
        BY <1>5, <4>1, <4>2 DEF Above
    <3>2. ASSUME NEW d \in Listed(pg) PROVE d \in Above(date, l)
      <4>1. PICK f \in pg : f.dialog = d
        BY DEF Listed
      <4>2. date[d] >= l /\ d \in Dialogs
        BY <1>3, <2>4, <4>1
      <4> HIDE DEF l
      <4> QED
        BY <4>2 DEF Above
    <3> QED
      BY <3>1, <3>2
  <2>7. Above(date, l) \in SUBSET Dialogs
    BY DEF Above
  <2> HIDE DEF A, l
  <2>8. /\ Cardinality(A \cup Listed(pg)) <= Cardinality(Above(date, l))
        /\ Cardinality(A \cup Listed(pg)) \in Nat /\ Cardinality(Above(date, l)) \in Nat
    BY <2>6, <2>7, SubsetSize
  <2>9. /\ Cardinality(A \cup Listed(pg)) = Cardinality(A) + Cardinality(Listed(pg))
        /\ Cardinality(A) \in Nat
    BY <2>1, <2>2, <2>5, UnionSize
  <2> QED
    BY <1>5, <2>1, <2>3, <2>8, <2>9 DEF l
<1>15. IsDated(config) /\ Last(pg).dialog = meta.cursor /\ k > 0 => Listed(pg) \subseteq config.silent
  BY <1>12 DEF Listed
<1> QED
  BY <1>2, <1>7, <1>10, <1>11, <1>13, <1>14, <1>15 DEF PageOK

-----------------------------------------------------------------------------
(* A page is checked and recorded                                             *)

\* handleDialogs.
LEMMA CheckedFacts ==
    ASSUME TypeOK, NEW k \in Nat, CheckDialogs(k)
    PROVE  /\ checked' \in [Dialogs -> Nat] /\ origin' \in [Dialogs -> Int]
           /\ \A d \in Dialogs : /\ checked'[d] >= checked[d]
                                 /\ checked'[d] \in {checked[d], meta.crawl}
           /\ \A e \in page : Position(page, e) <= k => checked'[e.dialog] >= meta.crawl
           /\ \A d \in Dialogs :
                 \/ origin'[d] = origin[d]
                 \/ \E e \in page : /\ e.dialog = d
                                    /\ Unlimited(create) \/ Position(page, e) <= create
<1> DEFINE At(d) == {e \in page : e.dialog = d /\ Position(page, e) <= k}
<1>1. /\ meta.crawl \in Nat /\ \A e \in page : e.dialog \in Dialogs
      /\ checked \in [Dialogs -> Nat] /\ origin \in [Dialogs -> Int]
  BY DEF TypeOK, Metas, Entries
<1>2. /\ checked' = [d \in Dialogs |-> IF At(d) = {} THEN checked[d]
                                       ELSE Larger(checked[d], meta.crawl)]
      /\ origin' = [d \in Dialogs |->
                       IF /\ origin[d] = 0
                          /\ \E e \in At(d) : Unlimited(create) \/ Position(page, e) <= create
                       THEN meta.crawl ELSE origin[d]]
  BY DEF CheckDialogs
<1>3. \A d \in Dialogs : /\ Larger(checked[d], meta.crawl) \in Nat
                         /\ Larger(checked[d], meta.crawl) >= checked[d]
                         /\ Larger(checked[d], meta.crawl) >= meta.crawl
                         /\ Larger(checked[d], meta.crawl) \in {checked[d], meta.crawl}
  BY <1>1 DEF Larger
<1>4. checked' \in [Dialogs -> Nat] /\ origin' \in [Dialogs -> Int]
  <2> HIDE DEF At
  <2> QED
    BY <1>1, <1>2, <1>3
<1>5. \A d \in Dialogs : /\ checked'[d] >= checked[d]
                         /\ checked'[d] \in {checked[d], meta.crawl}
  <2> HIDE DEF At
  <2> QED
    BY <1>1, <1>2, <1>3
<1>6. ASSUME NEW e \in page, Position(page, e) <= k PROVE checked'[e.dialog] >= meta.crawl
  <2>1. At(e.dialog) # {} /\ e.dialog \in Dialogs
    BY <1>1, <1>6
  <2> HIDE DEF At
  <2> QED
    BY <1>2, <1>3, <2>1
<1>7. ASSUME NEW d \in Dialogs, origin'[d] # origin[d]
      PROVE  \E e \in page : e.dialog = d /\ (Unlimited(create) \/ Position(page, e) <= create)
  BY <1>2, <1>7
<1> QED
  BY <1>4, <1>5, <1>6, <1>7

\* Portals are created for the first dialogs of a page only.
LEMMA CheckedCreate ==
    ASSUME TypeOK, DatesOK(date), LimitsOK, pc = "handle",
           PageOK(config, date, checked, meta, page, update, TRUE),
           CreateOK(config, date, origin), NEW k \in Nat, CheckDialogs(k)
    PROVE  CreateOK(config, date, origin')
<1> SUFFICES ASSUME NEW d \in Dialogs, origin'[d] > 0, date[d] = d, ~Unlimited(config.create)
             PROVE  Cardinality(Before(date, d)) < config.create
  BY DEF CreateOK
<1>1. CASE origin'[d] = origin[d]
  BY <1>1 DEF CreateOK
<1>2. CASE \E e \in page : e.dialog = d /\ (Unlimited(create) \/ Position(page, e) <= create)
  <2>1. PICK e \in page : e.dialog = d /\ (Unlimited(create) \/ Position(page, e) <= create)
    BY <1>2
  <2>2. /\ config.create \in Int /\ meta.count \in Nat /\ create \in Int /\ NumDialogs \in Nat
        /\ page \in SUBSET Entries /\ d \in Nat /\ d <= NumDialogs
    BY Constants DEF TypeOK, Metas, Dialogs
  <2>3. create = subtractLimit(config.create, meta.count)
    BY DEF LimitsOK
  <2>4. Position(page, e) \in Nat /\ 1 <= Position(page, e)
    BY <2>2, ListedSize, PositionFacts DEF PageOK, ListOK
  <2>5. config.create = meta.count + create /\ Position(page, e) <= create
    BY <2>1, <2>2, <2>3, <2>4 DEF subtractLimit, Larger, Unlimited
  <2>6. e.date = d
    <3>1. /\ e.date <= date[e.dialog] /\ (e.date = e.dialog \/ e.date > NumDialogs)
          /\ e.date \in Nat
      BY <2>2, Constants DEF PageOK, ListOK, Entries
    <3> QED
      BY <2>1, <2>2, <3>1
  <2>7. Cardinality(Quiet(date, d)) <= meta.count + Position(page, e)
    BY <2>6 DEF PageOK
  <2>8. /\ Before(date, d) \cup {d} \in SUBSET Quiet(date, d)
        /\ Quiet(date, d) \in SUBSET Dialogs /\ Before(date, d) \in SUBSET Dialogs
        /\ d \notin Before(date, d)
    <3>1. \A x \in Dialogs : x \in Nat
      BY DEF Dialogs
    <3> QED
      BY <3>1 DEF Before, Quiet
  <2>9. Cardinality(Before(date, d) \cup {d}) <= Cardinality(Quiet(date, d))
        /\ Cardinality(Quiet(date, d)) \in Nat
    BY <2>8, SubsetSize
  <2>10. IsFiniteSet(Before(date, d)) /\ Cardinality(Before(date, d)) \in Nat
    BY <2>8, SubsetSize
  <2>11. Cardinality(Before(date, d) \cup {d}) = Cardinality(Before(date, d)) + 1
    BY <2>8, <2>10, FS_AddElement
  <2> QED
    BY <2>2, <2>4, <2>5, <2>7, <2>9, <2>10, <2>11
<1> QED
  BY <1>1, <1>2, CheckedFacts

\* A page of nothing but dialogs without a date is the last one.
LEMMA UndatedIsLast ==
    ASSUME NEW c \in Configs, NEW dt, NEW ch, NEW m, NEW pg \in SUBSET Entries, NEW limit,
           PageOK(c, dt, ch, m, pg, limit, FALSE), IsDated(c),
           c.silent # {} => Unlimited(limit), Listed(pg) \subseteq c.silent
    PROVE  \A d \in Dialogs : IsKnown(ch, m, d)
<1>1. /\ pg # {} /\ Cardinality(Listed(pg)) = Cardinality(pg) /\ Cardinality(pg) \in Nat
  BY ListedSize DEF PageOK, ListOK
<1>2. c.silent # {} /\ c.silent \in SUBSET Dialogs /\ PageSize \in Nat
  BY <1>1, Constants DEF Listed
<1>3. Cardinality(Listed(pg)) <= Cardinality(c.silent) /\ Cardinality(c.silent) \in Nat
  BY <1>2, SubsetSize
<1>4. Cardinality(c.silent) < PageSize
  BY <1>2 DEF IsDated
<1>5. Cardinality(pg) < PageSize
  BY <1>1, <1>2, <1>3, <1>4
<1> QED
  BY <1>2, <1>5 DEF PageOK, Covered

\* The same position again: there is nothing left.
LEMMA SameIsLast ==
    ASSUME NEW c \in Configs, NEW dt, NEW ch, NEW m \in Metas, NEW pg \in SUBSET Entries,
           NEW limit, PageOK(c, dt, ch, m, pg, limit, FALSE), PositionOK(c, dt, ch, m),
           IsDated(c), c.silent # {} => Unlimited(limit), Last(pg).dialog = m.cursor
    PROVE  \A d \in Dialogs : IsKnown(ch, m, d)
<1>1. m.offset \in Nat
  BY DEF Metas
<1>2. Last(pg) \in pg
  BY LastFacts DEF PageOK, ListOK
<1>3. m.cursor # NoDialog
  <2>1. m.cursor \in Dialogs
    BY <1>2 DEF Entries
  <2> QED
    BY <2>1, Constants DEF Dialogs, NoDialog
<1>4. CASE m.offset = 0
  BY <1>3, <1>4 DEF PositionOK
<1>5. CASE m.offset > 0
  <2>1. Listed(pg) \subseteq c.silent
    BY <1>5 DEF PageOK
  <2> QED
    BY <2>1, UndatedIsLast
<1> QED
  BY <1>1, <1>4, <1>5

\* The new position.
LEMMA NewPosition ==
    ASSUME TypeOK, DatesOK(date), PositionOK(config, date, checked, meta),
           PageOK(config, date, checked, meta, page, update, FALSE),
           IsDated(config) /\ config.silent # {} => Unlimited(update),
           NEW m, m = [meta EXCEPT !.cursor = Last(page).dialog, !.offset = getDialogOffset(page),
                                   !.count = Smaller(meta.count + Cardinality(page), NumDialogs)]
    PROVE  m \in Metas /\ m.crawl = meta.crawl /\ PositionOK(config, date, checked, m)
<1> DEFINE found == {e \in page : e.dialog \notin config.silent}
<1>1. /\ page \in SUBSET Entries /\ found \in SUBSET Entries /\ page # {}
      /\ config \in Configs /\ meta \in Metas /\ NumDialogs \in Nat
      /\ ListOK(date, page)
  BY Constants DEF TypeOK, PageOK, ListOK
<1>2. IsFiniteSet(page) /\ Cardinality(page) \in Nat
  BY <1>1, ListedSize DEF ListOK
<1>3. Last(page) \in page /\ \A f \in page : Last(page).date <= f.date
  BY <1>1, LastFacts
<1>4. \A e \in page : e.date \in Nat /\ e.dialog \in Dialogs /\ e.date <= date[e.dialog]
  BY <1>1, Constants DEF Entries, ListOK
<1>5. \A d \in Dialogs : date[d] \in Nat
  BY Constants DEF DatesOK
<1>6. /\ m.cursor = Last(page).dialog /\ m.offset = getDialogOffset(page)
      /\ m.count = Smaller(meta.count + Cardinality(page), NumDialogs)
      /\ m.complete = meta.complete /\ m.crawl = meta.crawl /\ meta.count \in Nat
  BY <1>1 DEF Metas
<1>7. \A d \in Dialogs : IsKnown(checked, m, d) <=> IsKnown(checked, meta, d)
  BY <1>6 DEF IsKnown
<1>8. /\ found = {} => m.offset = 0
      /\ found # {} => \E e \in found : m.offset = e.date /\ \A f \in found : e.date <= f.date
  <2>1. m.offset = IF found = {} THEN 0 ELSE Last(found).date
    BY <1>6 DEF getDialogOffset
  <2> HIDE DEF found
  <2> QED
    BY <1>1, <2>1, LastFacts
<1>9. m.offset \in Nat
  BY <1>4, <1>8
<1>10. m \in Metas
  <2>1. m.count \in Nat
    BY <1>1, <1>2, <1>6 DEF Smaller
  <2>2. Last(page).dialog \in 0..NumDialogs
    BY <1>1, <1>3, <1>4 DEF Dialogs
  <2> QED
    BY <1>1, <1>6, <1>9, <2>1, <2>2 DEF Metas
<1>11. ASSUME m.offset > 0
       PROVE  /\ \A d \in Above(date, m.offset) : IsKnown(checked, m, d)
              /\ Above(date, m.offset) # {}
              /\ Cardinality(Quiet(date, m.offset)) <= m.count
  <2>1. PICK e \in found : m.offset = e.date
    BY <1>8, <1>11
  <2>2. e \in page
    OBVIOUS
  <2>3. \A d \in Above(date, e.date) : d \in Dialogs /\ IsKnown(checked, m, d)
    BY <1>7, <2>2 DEF PageOK, Covered, Above
  <2>4. e.dialog \in Above(date, e.date)
    BY <1>4, <1>5, <2>2 DEF Above
  <2>5. /\ Cardinality(Quiet(date, e.date)) <= meta.count + Position(page, e)
        /\ Position(page, e) \in Nat /\ Position(page, e) <= Cardinality(page)
    BY <1>1, <1>2, <2>2, PositionFacts DEF PageOK
  <2>6. Quiet(date, e.date) \in SUBSET Dialogs
    BY DEF Quiet
  <2>7. Cardinality(Quiet(date, e.date)) \in Nat /\ Cardinality(Quiet(date, e.date)) <= NumDialogs
    BY <2>6, SubsetSize
  <2>8. Cardinality(Quiet(date, e.date)) <= m.count
    BY <1>1, <1>2, <1>6, <2>5, <2>7 DEF Smaller
  <2> QED
    BY <2>1, <2>3, <2>4, <2>8
<1>12. ASSUME config.silent = {}
       PROVE  m.offset = Last(page).date /\ m.count <= Cardinality(Above(date, m.offset))
              /\ (m.offset = 0 => m.count = 0)
  <2>1. found = page
    BY <1>12
  <2>2. m.offset = Last(page).date
    BY <1>1, <1>6, <2>1 DEF getDialogOffset
  <2>3. meta.count + Cardinality(page) <= Cardinality(Above(date, Last(page).date))
    BY <1>12 DEF PageOK
  <2>4. Above(date, m.offset) \in SUBSET Dialogs
    BY DEF Above
  <2>5. Cardinality(Above(date, m.offset)) \in Nat
    BY <2>4, SubsetSize
  <2>6. m.count <= Cardinality(Above(date, m.offset))
    BY <1>1, <1>2, <1>6, <2>2, <2>3, <2>5 DEF Smaller
  <2>7. Last(page).date # 0
    <3>1. Last(page).date = Last(page).dialog \/ Last(page).date > NumDialogs
      BY <1>1, <1>3 DEF ListOK
    <3>2. Last(page).dialog # 0
      BY <1>1, <1>3, <1>4 DEF Dialogs
    <3> QED
      BY <1>1, <1>3, <1>4, <3>1, <3>2
  <2> QED
    BY <2>2, <2>6, <2>7
<1>13. ASSUME IsDated(config), m.offset = 0, NEW d \in Dialogs PROVE IsKnown(checked, m, d)
  <2>1. found = {}
    <3>1. \A e \in found : e.date # 0
      <4> SUFFICES ASSUME NEW e \in found PROVE e.date # 0
        OBVIOUS
      <4>1. (e.date = e.dialog \/ e.date > NumDialogs) /\ e.dialog \in Dialogs /\ e.date \in Nat
        BY <1>1, <1>4 DEF ListOK
      <4> QED
        BY <1>1, <4>1 DEF Dialogs
    <3> QED
      BY <1>8, <1>13, <3>1
  <2>2. Listed(page) \subseteq config.silent
    BY <2>1 DEF Listed
  <2> QED
    BY <1>1, <1>7, <1>13, <2>2, UndatedIsLast
<1>14. ASSUME m.offset > 0, NEW d \in Dialogs, date[m.cursor] <= date[d], date[d] < m.offset
       PROVE  d \in config.silent
  <2>1. PICK e \in found : m.offset = e.date /\ \A f \in found : e.date <= f.date
    BY <1>8, <1>14
  <2> DEFINE g == [dialog |-> d, date |-> date[d]]
  <2>2. Last(page).date <= date[d] /\ date[d] <= e.date
    BY <1>3, <1>4, <1>5, <1>6, <1>14, <2>1
  <2>3. g \in page
    BY <1>1, <1>3, <2>1, <2>2 DEF ListOK
  <2>4. ~(e.date <= g.date)
    BY <1>4, <1>5, <1>14, <2>1
  <2>5. g \notin found
    BY <2>1, <2>4
  <2> QED
    BY <2>3, <2>5
<1>15. IsDated(config) /\ m.complete => TopKnown(config, date, checked, m)
  BY <1>6, <1>7 DEF PositionOK, TopKnown
<1> HIDE DEF found
<1>16. PositionOK(config, date, checked, m)
  BY <1>11, <1>12, <1>13, <1>14, <1>15 DEF PositionOK
<1> QED
  BY <1>6, <1>10, <1>16

-----------------------------------------------------------------------------
(* The invariant is inductive                                                 *)

LEMMA InitInv == Init => Inv
<1> SUFFICES ASSUME Init PROVE Inv
  OBVIOUS
<1>1. \A d \in Dialogs : d \in 0..MaxDate
  BY Constants DEF Dialogs, MaxDate
<1>2. DatesOK(date)
  BY <1>1 DEF Init, DatesOK
<1>3. TypeOK /\ CrawlsOK
  BY Constants DEF Init, TypeOK, CrawlsOK, Metas, Restarted, NoDialog
<1>4. PositionOK(config, date, checked, meta) /\ PositionOK(config, date, checked, stored)
  BY DEF Init, PositionOK, Restarted, NoDialog
<1>5. LimitsOK /\ CreateOK(config, date, origin)
  BY DEF Init, LimitsOK, CreateOK
<1> QED
  BY <1>2, <1>3, <1>4, <1>5 DEF Inv, Init

\* A step of a call, which neither checks a dialog nor brings a message.
LEMMA CallStep ==
    ASSUME Inv, UNCHANGED <<config, date, checked, origin>>,
           crawls' \in Nat, crawls <= crawls',
           meta' \in {meta, stored} \/ (meta' \in Metas /\ meta'.crawl <= crawls'
                                        /\ PositionOK(config, date, checked, meta')),
           stored' \in {stored, meta, meta'},
           update' \in Int, create' \in Int, page' \in SUBSET Entries,
           pc' \in {"handle", "advance"} =>
               PageOK(config, date, checked, meta', page', update', pc' = "handle"),
           LimitsOK'
    PROVE  Inv'
<1>1. /\ meta \in Metas /\ stored \in Metas /\ crawls \in Nat
      /\ meta.crawl <= crawls /\ stored.crawl <= crawls
      /\ meta.crawl \in Nat /\ stored.crawl \in Nat
  BY DEF Inv, TypeOK, CrawlsOK, Metas
<1>2. /\ meta.crawl <= crawls' /\ stored.crawl <= crawls'
      /\ \A d \in Dialogs : checked[d] <= crawls'
  <2>1. \A d \in Dialogs : checked[d] \in Nat /\ checked[d] <= crawls
    BY DEF Inv, TypeOK, CrawlsOK
  <2> QED
    BY <1>1, <2>1
<1>3. meta' \in Metas /\ meta'.crawl <= crawls' /\ PositionOK(config, date, checked, meta')
  BY <1>1, <1>2 DEF Inv
<1>4. stored' \in Metas /\ stored'.crawl <= crawls' /\ PositionOK(config, date, checked, stored')
  BY <1>1, <1>2, <1>3 DEF Inv
<1>5. TypeOK' /\ CrawlsOK'
  BY <1>2, <1>3, <1>4 DEF Inv, TypeOK, CrawlsOK
<1> QED
  BY <1>3, <1>4, <1>5 DEF Inv

\* A step that checks dialogs or brings a message.
LEMMA LaterStep ==
    ASSUME Inv, UNCHANGED <<config, meta, stored, crawls>>, DatesOK(date'),
           checked' \in [Dialogs -> Nat], origin' \in [Dialogs -> Int],
           \A d \in Dialogs : checked'[d] <= crawls,
           Later(date, checked, date', checked', crawls), CreateOK(config, date', origin')
    PROVE  /\ PositionOK(config, date, checked, meta)'
           /\ PositionOK(config, date, checked, stored)'
           /\ CrawlsOK' /\ CreateOK(config, date, origin)' /\ DatesOK(date)'
           /\ TopKnown(config, date, checked, meta) =>
                 TopKnown(config, date, checked, meta)'
<1>1. /\ config \in Configs /\ DatesOK(date) /\ checked \in [Dialogs -> Nat]
      /\ crawls \in Nat /\ meta \in Metas /\ stored \in Metas
      /\ meta.crawl <= crawls /\ stored.crawl <= crawls
      /\ PositionOK(config, date, checked, meta) /\ PositionOK(config, date, checked, stored)
  BY DEF Inv, TypeOK, CrawlsOK
<1>2. PositionOK(config, date', checked', meta) /\ PositionOK(config, date', checked', stored)
  BY <1>1, PositionKept
<1>3. TopKnown(config, date, checked, meta) => TopKnown(config, date', checked', meta)
  BY <1>1, TopKept
<1> QED
  BY <1>1, <1>2, <1>3 DEF CrawlsOK

LEMMA NewMessageInv ==
    ASSUME Inv, NEW d \in Dialogs, NewMessage(d)
    PROVE  Inv'
<1> DEFINE S == {date[e] : e \in Dialogs}
<1>1. /\ DatesOK(date) /\ NumDialogs \in Nat /\ MaxDate \in Nat /\ MaxBumps \in Nat
      /\ date \in [Dialogs -> 0..MaxDate] /\ crawls \in Nat
      /\ checked \in [Dialogs -> Nat] /\ origin \in [Dialogs -> Int]
  BY Constants DEF Inv, DatesOK, TypeOK
<1>2. Max(S) \in S /\ \A e \in Dialogs : date[e] <= Max(S)
  <2>1. S \in SUBSET (0..MaxDate) /\ S # {}
    BY <1>1
  <2>2. \E x \in S : \A y \in S : x >= y
    BY <1>1, <2>1, MaxFacts
  <2>3. Max(S) \in S /\ \A y \in S : Max(S) >= y
    BY <2>2 DEF Max
  <2>4. ASSUME NEW e \in Dialogs PROVE date[e] <= Max(S)
    <3>1. date[e] \in S
      OBVIOUS
    <3>2. Max(S) >= date[e] /\ Max(S) \in 0..MaxDate /\ date[e] \in 0..MaxDate
      BY <2>1, <2>3, <3>1
    <3> HIDE DEF S
    <3> QED
      BY <1>1, <3>2
  <2> QED
    BY <2>3, <2>4
<1> DEFINE top == 1 + Max(S)
<1>3. date' = [date EXCEPT ![d] = top]
  BY DEF NewMessage
<1>4. /\ checked' = [checked EXCEPT ![d] = crawls]
      /\ origin' = [origin EXCEPT ![d] = IF @ = 0 THEN -1 ELSE @]
      /\ UNCHANGED <<config, meta, stored, crawls, pc, holder, update, create, page>>
  BY DEF NewMessage, process, locals
<1>5. top \in 0..MaxDate
  <2>1. PICK e \in Dialogs : Max(S) = date[e]
    BY <1>2
  <2>2. date[e] < MaxDate /\ date[e] \in Nat
    BY <1>1 DEF NewMessage, MaxDate
  <2> HIDE DEF S
  <2> QED
    BY <1>1, <2>1, <2>2
<1>6. \A e \in Dialogs : top > date[e] /\ date[e] \in Nat
  <2>1. Max(S) \in Int
    BY <1>1, <1>2
  <2> HIDE DEF S
  <2> QED
    BY <1>1, <1>2, <2>1
<1>7. top > NumDialogs
  <2>1. NumDialogs \in Dialogs /\ d \in Nat
    BY <1>1 DEF Dialogs
  <2>2. date[NumDialogs] >= NumDialogs
    BY <1>1, <2>1 DEF DatesOK
  <2> HIDE DEF top
  <2> QED
    BY <1>1, <1>5, <1>6, <2>1, <2>2
<1> HIDE DEF top, S
<1>8. \A e \in Dialogs : date'[e] = IF e = d THEN top ELSE date[e]
  BY <1>1, <1>3
<1>9. DatesOK(date')
  <2>1. date' \in [Dialogs -> 0..MaxDate]
    BY <1>1, <1>3, <1>5
  <2>2. \A e, f \in Dialogs : date'[e] = date'[f] => e = f
    BY <1>1, <1>6, <1>8 DEF DatesOK
  <2> QED
    BY <1>1, <1>7, <1>8, <2>1, <2>2 DEF DatesOK
<1>10. checked' \in [Dialogs -> Nat] /\ origin' \in [Dialogs -> Int]
  BY <1>1, <1>4
<1>11. \A e \in Dialogs : /\ checked'[e] = IF e = d THEN crawls ELSE checked[e]
                          /\ checked[e] <= crawls /\ checked[e] \in Nat
  BY <1>1, <1>4 DEF Inv, CrawlsOK
<1>12. Later(date, checked, date', checked', crawls)
  BY <1>1, <1>6, <1>7, <1>8, <1>11 DEF Later
<1>13. CreateOK(config, date', origin')
  <2>1. \A e \in Dialogs : origin'[e] > 0 => origin[e] > 0
    BY <1>1, <1>4
  <2>2. config \in Configs /\ CreateOK(config, date, origin)
    BY DEF Inv, TypeOK
  <2> QED
    BY <1>1, <1>9, <1>10, <1>12, <2>1, <2>2, CreateKept
<1>14. \A e \in Dialogs : checked'[e] <= crawls
  BY <1>1, <1>11
<1>15. /\ PositionOK(config, date, checked, meta)'
       /\ PositionOK(config, date, checked, stored)'
       /\ CrawlsOK' /\ CreateOK(config, date, origin)' /\ DatesOK(date)'
       /\ TopKnown(config, date, checked, meta) => TopKnown(config, date, checked, meta)'
  BY <1>4, <1>9, <1>10, <1>12, <1>13, <1>14, LaterStep
<1>16. pc' \in {"handle", "advance"} =>
          PageOK(config, date, checked, meta, page, update, pc = "handle")'
  <2> SUFFICES ASSUME pc \in {"handle", "advance"}
               PROVE  PageOK(config, date', checked', meta, page, update, pc = "handle")
    BY <1>4
  <2>1. /\ config \in Configs /\ meta \in Metas /\ meta.crawl <= crawls
        /\ page \in SUBSET Entries /\ (pc = "handle") \in BOOLEAN
        /\ PageOK(config, date, checked, meta, page, update, pc = "handle")
    BY DEF Inv, TypeOK, CrawlsOK
  <2> QED
    BY <1>1, <1>9, <1>10, <1>12, <2>1, PageKept
<1>17. LimitsOK'
  BY <1>4, <1>15 DEF Inv, LimitsOK, isFullSync
<1>18. TypeOK'
  BY <1>4, <1>10 DEF Inv, TypeOK
<1> QED
  BY <1>15, <1>16, <1>17, <1>18 DEF Inv

\* Some dialogs of the page are checked.
LEMMA CheckedStep ==
    ASSUME Inv, pc = "handle", NEW k \in Nat, CheckDialogs(k),
           UNCHANGED <<config, date, meta, stored, crawls>>
    PROVE  /\ PositionOK(config, date, checked, meta)'
           /\ PositionOK(config, date, checked, stored)'
           /\ CrawlsOK' /\ CreateOK(config, date, origin)' /\ DatesOK(date)'
           /\ checked' \in [Dialogs -> Nat] /\ origin' \in [Dialogs -> Int]
<1>1. /\ TypeOK /\ DatesOK(date) /\ LimitsOK /\ CreateOK(config, date, origin) /\ CrawlsOK
      /\ PageOK(config, date, checked, meta, page, update, TRUE)
  BY DEF Inv
<1>2. /\ checked' \in [Dialogs -> Nat] /\ origin' \in [Dialogs -> Int]
      /\ \A d \in Dialogs : checked'[d] >= checked[d] /\ checked'[d] \in {checked[d], meta.crawl}
  BY <1>1, CheckedFacts
<1>3. CreateOK(config, date, origin')
  BY <1>1, CheckedCreate
<1>4. Later(date, checked, date', checked', crawls)
  BY <1>2 DEF Later
<1>5. \A d \in Dialogs : checked'[d] <= crawls
  BY <1>1, <1>2 DEF CrawlsOK
<1> QED
  BY <1>1, <1>2, <1>3, <1>4, <1>5, LaterStep

LEMMA HandleDialogsInv ==
    ASSUME Inv, HandleDialogs
    PROVE  Inv'
<1>1. /\ pc = "handle" /\ pc' = "advance" /\ CheckDialogs(Cardinality(page))
      /\ UNCHANGED <<config, date, meta, stored, crawls, holder, update, create, page>>
  BY DEF HandleDialogs, process
<1>2. /\ TypeOK /\ page \in SUBSET Entries /\ meta \in Metas
      /\ PageOK(config, date, checked, meta, page, update, TRUE)
  BY <1>1 DEF Inv, TypeOK
<1>3. IsFiniteSet(page) /\ Cardinality(page) \in Nat
  BY <1>2, ListedSize DEF PageOK, ListOK
<1>4. /\ PositionOK(config, date, checked, meta)'
      /\ PositionOK(config, date, checked, stored)'
      /\ CrawlsOK' /\ CreateOK(config, date, origin)' /\ DatesOK(date)'
      /\ checked' \in [Dialogs -> Nat] /\ origin' \in [Dialogs -> Int]
  BY <1>1, <1>3, CheckedStep
<1>5. \A d \in Dialogs : Covered(checked, meta, page, TRUE, d) =>
                            Covered(checked', meta, page, FALSE, d)
  <2>1. /\ \A d \in Dialogs : /\ checked'[d] >= checked[d]
                              /\ checked'[d] \in Nat /\ checked[d] \in Nat
        /\ \A e \in page : checked'[e.dialog] >= meta.crawl
        /\ meta.crawl \in Nat
    BY <1>1, <1>2, <1>3, <1>4, CheckedFacts, PositionFacts DEF TypeOK, Metas
  <2> QED
    BY <2>1 DEF Covered, Listed, IsKnown
<1>6. PageOK(config, date, checked', meta, page, update, FALSE)
  BY <1>2, <1>5 DEF PageOK, Above
<1>7. LimitsOK'
  BY <1>1 DEF Inv, LimitsOK, isFullSync
<1>8. TypeOK'
  BY <1>1, <1>2, <1>4 DEF TypeOK
<1> QED
  BY <1>1, <1>4, <1>6, <1>7, <1>8 DEF Inv

LEMMA ReturnFacts ==
    ASSUME Return
    PROVE  /\ pc' = "none" /\ holder' = Nobody /\ page' \in SUBSET Entries
           /\ update' \in Int /\ create' \in Int /\ LimitsOK'
  BY DEF Return, LimitsOK

LEMMA FailInv ==
    ASSUME Inv, Fail
    PROVE  Inv'
<1>1. UNCHANGED <<config, date, meta, stored, crawls>> /\ Return
  BY DEF Fail
<1>2. CASE UNCHANGED portals
  <2>1. crawls \in Nat
    BY DEF Inv, TypeOK
  <2> QED
    BY <1>1, <1>2, <2>1, ReturnFacts, CallStep DEF portals
<1>3. CASE pc = "handle" /\ \E k \in 0..Cardinality(page) - 1 : CheckDialogs(k)
  <2>1. PICK k \in Nat : CheckDialogs(k)
    BY <1>3
  <2>2. /\ PositionOK(config, date, checked, meta)'
        /\ PositionOK(config, date, checked, stored)'
        /\ CrawlsOK' /\ CreateOK(config, date, origin)' /\ DatesOK(date)'
        /\ checked' \in [Dialogs -> Nat] /\ origin' \in [Dialogs -> Int]
    BY <1>1, <1>3, <2>1, CheckedStep
  <2>3. TypeOK'
    BY <1>1, <2>2, ReturnFacts DEF Inv, TypeOK
  <2> QED
    BY <1>1, <2>2, <2>3, ReturnFacts DEF Inv
<1> QED
  BY <1>2, <1>3 DEF Fail

\* A full crawl that looks at dialogs without a date has no limit.
LEMMA FullLimit ==
    ASSUME Inv, pc \in {"loop", "handle", "advance", "save"},
           IsDated(config), config.silent # {}
    PROVE  isFullSync(holder) /\ Unlimited(update)
<1>1. ~config.dialogSync /\ Unlimited(config.update)
  BY DEF IsDated
<1>2. isFullSync(holder)
  BY <1>1 DEF isFullSync
<1>3. update = subtractLimit(config.update, meta.count)
  BY <1>2 DEF Inv, LimitsOK
<1> QED
  BY <1>1, <1>2, <1>3 DEF subtractLimit, Unlimited

LEMMA FetchInv ==
    ASSUME Inv, Fetch
    PROVE  Inv'
<1>1. /\ pc = "loop" /\ update # 0 /\ page' = GetDialogs(update)
      /\ pc' = IF page' = {} THEN "finish" ELSE "handle"
      /\ stored' \in {stored, meta}
      /\ UNCHANGED <<config, date, meta, update, create, checked, origin, crawls, holder>>
  BY DEF Fetch, process, portals
<1>2. /\ DatesOK(date) /\ config \in Configs /\ meta \in Metas
      /\ checked \in [Dialogs -> Nat] /\ PositionOK(config, date, checked, meta)
      /\ update \in Int /\ create \in Int /\ crawls \in Nat
  BY DEF Inv, TypeOK
<1>3. CASE page' = {}
  <2>1. Below = {}
    BY <1>1, <1>2, <1>3, GetDialogsFacts
  <2>2. \A d \in Dialogs : ~(meta.offset = 0 \/ date[d] < meta.offset)
    BY <1>2, <2>1, BelowFacts
  <2>3. ASSUME NEW d \in Dialogs PROVE IsKnown(checked, meta, d)
    <3>1. meta.offset \in Nat /\ date[d] \in Nat
      BY <1>2, Constants DEF Metas, DatesOK
    <3>2. meta.offset > 0 /\ d \in Above(date, meta.offset)
      BY <2>2, <3>1 DEF Above
    <3> QED
      BY <1>2, <3>2 DEF PositionOK
  <2>4. TopKnown(config, date, checked, meta)
    BY <2>3 DEF TopKnown
  <2>5. LimitsOK' /\ pc' = "finish"
    BY <1>1, <1>3, <2>4 DEF LimitsOK, TopKnown, IsAhead, IsKnown, IsDated
  <2> QED
    BY <1>1, <1>2, <1>3, <2>5, CallStep
<1>4. CASE page' # {}
  <2>1. page' \in SUBSET Entries
        /\ PageOK(config, date, checked, meta, page', update, TRUE)
    BY <1>1, <1>2, <1>4, FetchedPage
  <2>2. LimitsOK' /\ pc' = "handle"
    BY <1>1, <1>4 DEF Inv, LimitsOK, isFullSync
  <2>3. (pc' = "handle") = TRUE
    BY <2>2
  <2>4. PageOK(config, date, checked, meta', page', update', pc' = "handle")
    BY <1>1, <2>1, <2>3
  <2> QED
    BY <1>1, <1>2, <2>1, <2>2, <2>4, CallStep
<1> QED
  BY <1>3, <1>4

LEMMA LimitReachedInv ==
    ASSUME Inv, LimitReached
    PROVE  Inv'
<1>1. /\ pc = "loop" /\ update = 0 /\ pc' = "finish"
      /\ UNCHANGED <<config, date, meta, stored, update, create, page, checked, origin,
                     crawls, holder>>
  BY DEF LimitReached, process, portals
<1>2. /\ DatesOK(date) /\ config \in Configs /\ meta \in Metas /\ page \in SUBSET Entries
      /\ checked \in [Dialogs -> Nat] /\ PositionOK(config, date, checked, meta)
      /\ update \in Int /\ create \in Int /\ crawls \in Nat
  BY DEF Inv, TypeOK
<1>3. ASSUME isFullSync(holder), IsDated(config), NEW d \in Dialogs,
             Unlimited(config.update) \/ Cardinality(IsAhead(date, d)) < config.update
      PROVE  IsKnown(checked, meta, d)
  <2>1. config.silent = {}
    BY <1>1, <1>3, FullLimit DEF Unlimited
  <2>2. config.update \in Int /\ meta.count \in Nat /\ meta.offset \in Nat
    BY <1>2, Constants DEF Metas
  <2>3. ~Unlimited(config.update) /\ config.update <= meta.count
    <3>1. 0 = subtractLimit(config.update, meta.count)
      BY <1>1, <1>3 DEF Inv, LimitsOK
    <3> QED
      BY <2>2, <3>1 DEF subtractLimit, Larger, Unlimited
  <2>4. /\ IsAhead(date, d) \in SUBSET Dialogs /\ Above(date, meta.offset) \in SUBSET Dialogs
        /\ \A e \in Dialogs : date[e] \in Nat
    BY <1>2, Constants DEF IsAhead, Above, DatesOK
  <2>5. Cardinality(IsAhead(date, d)) \in Nat
    BY <2>4, SubsetSize
  <2>6. meta.offset > 0 /\ meta.count <= Cardinality(Above(date, meta.offset))
    BY <1>2, <1>3, <2>1, <2>2, <2>3, <2>5 DEF PositionOK
  <2>7. SUFFICES ASSUME d \notin Above(date, meta.offset) PROVE FALSE
    BY <1>2, <2>6 DEF PositionOK
  <2>8. Above(date, meta.offset) \in SUBSET IsAhead(date, d)
    BY <2>2, <2>4, <2>7 DEF Above, IsAhead
  <2>9. Cardinality(Above(date, meta.offset)) <= Cardinality(IsAhead(date, d))
        /\ Cardinality(Above(date, meta.offset)) \in Nat
    BY <2>4, <2>8, SubsetSize
  <2> QED
    BY <1>3, <2>2, <2>3, <2>5, <2>6, <2>9
<1>4. LimitsOK'
  BY <1>1, <1>3 DEF LimitsOK, TopKnown, IsAhead, IsKnown, IsDated, isFullSync
<1> QED
  BY <1>1, <1>2, <1>4, CallStep

\* A limit is used up in two parts; a count of all the dialogs is enough.
LEMMA SubtractTwice ==
    ASSUME NEW limit \in Int, limit <= NumDialogs, NEW a \in Nat, NEW b \in Nat
    PROVE  /\ subtractLimit(limit, a) \in Int
           /\ subtractLimit(subtractLimit(limit, a), b) =
                 subtractLimit(limit, Smaller(a + b, NumDialogs))
  BY Constants DEF subtractLimit, Larger, Smaller

LEMMA AdvanceInv ==
    ASSUME Inv, Advance
    PROVE  Inv'
<1> DEFINE n == Cardinality(page)
<1> DEFINE cursor == Last(page).dialog
<1>1. /\ pc = "advance" /\ update' = subtractLimit(update, n)
      /\ create' = subtractLimit(create, n)
      /\ UNCHANGED <<config, date, stored, page, checked, origin, crawls, holder>>
  BY DEF Advance, process, portals
<1>2. /\ TypeOK /\ DatesOK(date) /\ PositionOK(config, date, checked, meta)
      /\ config \in Configs /\ meta \in Metas /\ page \in SUBSET Entries
      /\ update \in Int /\ create \in Int /\ crawls \in Nat /\ meta.crawl <= crawls
  BY DEF Inv, TypeOK, CrawlsOK
<1>3. PageOK(config, date, checked, meta, page, update, FALSE)
  <2>1. (pc = "handle") = FALSE
    BY <1>1
  <2> QED
    BY <1>1, <2>1 DEF Inv
<1>4. n \in Nat /\ meta.count \in Nat
  BY <1>2, <1>3, ListedSize DEF PageOK, ListOK, Metas
<1>5. update' \in Int /\ create' \in Int
  BY <1>1, <1>2, <1>4 DEF subtractLimit, Larger
<1>6. IsDated(config) /\ config.silent # {} => Unlimited(update)
  BY <1>1, FullLimit
<1>7. CASE meta.cursor = cursor
  <2>1. pc' = "finish" /\ meta' = meta
    BY <1>7 DEF Advance
  <2>2. IsDated(config) => TopKnown(config, date, checked, meta)
    <3> SUFFICES ASSUME IsDated(config) PROVE TopKnown(config, date, checked, meta)
      OBVIOUS
    <3>1. \A d \in Dialogs : IsKnown(checked, meta, d)
      BY <1>2, <1>3, <1>6, <1>7, SameIsLast
    <3> QED
      BY <3>1 DEF TopKnown
  <2>3. LimitsOK'
    BY <1>1, <2>1, <2>2 DEF LimitsOK, TopKnown, IsAhead, IsKnown, IsDated
  <2> HIDE DEF n
  <2> QED
    BY <1>1, <1>2, <1>5, <2>1, <2>3, CallStep
<1>8. CASE meta.cursor # cursor
  <2>1. /\ pc' = "save"
        /\ meta' = [meta EXCEPT !.cursor = cursor, !.offset = getDialogOffset(page),
                                !.count = Smaller(meta.count + n, NumDialogs)]
    BY <1>8 DEF Advance
  <2>2. /\ meta' \in Metas /\ meta'.crawl = meta.crawl
        /\ PositionOK(config, date, checked, meta')
    BY <1>2, <1>3, <1>6, <2>1, NewPosition
  <2>3. meta'.count = Smaller(meta.count + n, NumDialogs)
    BY <1>2, <2>1 DEF Metas
  <2>4. /\ create = subtractLimit(config.create, meta.count)
        /\ isFullSync(holder) => update = subtractLimit(config.update, meta.count)
    BY <1>1 DEF Inv, LimitsOK
  <2>5. /\ config.create \in Int /\ config.create <= NumDialogs
        /\ config.update \in Int /\ config.update <= NumDialogs
    BY <1>2, Constants
  <2>6. create' = subtractLimit(config.create, meta'.count)
    BY <1>1, <1>4, <2>3, <2>4, <2>5, SubtractTwice
  <2>7. isFullSync(holder) => update' = subtractLimit(config.update, meta'.count)
    BY <1>1, <1>4, <2>3, <2>4, <2>5, SubtractTwice
  <2>8. LimitsOK'
    BY <1>1, <2>1, <2>6, <2>7 DEF LimitsOK, isFullSync
  <2> HIDE DEF n
  <2> QED
    BY <1>1, <1>2, <1>5, <2>1, <2>2, <2>8, CallStep
<1> QED
  BY <1>7, <1>8

LEMMA FinishInv ==
    ASSUME Inv, Finish
    PROVE  Inv'
<1>1. /\ pc = "finish" /\ Return
      /\ UNCHANGED <<config, date, checked, origin, crawls>>
  BY DEF Finish, portals
<1>2. /\ meta \in Metas /\ crawls \in Nat /\ meta.crawl <= crawls
  BY DEF Inv, TypeOK, CrawlsOK
<1>3. CASE UNCHANGED <<meta, stored>>
  BY <1>1, <1>2, <1>3, ReturnFacts, CallStep
<1>4. CASE isFullSync(holder) /\ meta' = Completed /\ stored' \in {stored, meta'}
  <2>1. /\ meta' \in Metas /\ meta'.crawl = meta.crawl /\ meta'.offset = 0 /\ meta'.count = 0
        /\ meta'.cursor = NoDialog
    <3>1. 0 \in 0..NumDialogs /\ NumDialogs \in Nat
      BY Constants
    <3> QED
      BY <1>2, <1>4, <3>1 DEF Completed, Metas, NoDialog
  <2>2. IsDated(config) => TopKnown(config, date, checked, meta')
    BY <1>1, <1>4, <2>1 DEF Inv, LimitsOK, TopKnown, IsKnown
  <2>3. PositionOK(config, date, checked, meta')
    BY <2>1, <2>2 DEF PositionOK
  <2> QED
    BY <1>1, <1>2, <1>4, <2>1, <2>3, ReturnFacts, CallStep
<1> QED
  BY <1>3, <1>4 DEF Finish

LEMMA AcquireInv ==
    ASSUME Inv, NEW c \in Callers, Acquire(c)
    PROVE  Inv'
<1> DEFINE m == IF c = "command" THEN Restarted(crawls + 1) ELSE meta
<1>1. holder = Nobody /\ UNCHANGED <<config, date, stored, checked, origin>>
  BY DEF Acquire, portals
<1>2. /\ config \in Configs /\ meta \in Metas /\ crawls \in Nat /\ meta.crawl <= crawls
      /\ update \in Int /\ create \in Int /\ page \in SUBSET Entries
      /\ PositionOK(config, date, checked, meta)
  BY DEF Inv, TypeOK, CrawlsOK
<1>3. CASE m.complete
  <2>1. UNCHANGED <<meta, holder, pc, update, create, page, crawls>>
    BY <1>3 DEF Acquire, locals
  <2>2. LimitsOK'
    BY <1>1, <2>1 DEF Inv, LimitsOK, isFullSync, TopKnown, IsAhead, IsKnown, IsDated
  <2>3. pc' \in {"handle", "advance"} =>
            PageOK(config, date, checked, meta', page', update', pc' = "handle")
    BY <2>1 DEF Inv
  <2> QED
    BY <1>1, <1>2, <2>1, <2>2, <2>3, CallStep
<1>4. CASE ~m.complete
  <2>1. /\ meta' = m /\ crawls' = Larger(crawls, m.crawl)
        /\ holder' = c /\ pc' = "loop" /\ page' = {}
        /\ update' = IF isFullSync(c) THEN subtractLimit(config.update, m.count)
                     ELSE config.login
        /\ create' = subtractLimit(config.create, m.count)
    BY <1>4 DEF Acquire
  <2>2. /\ m \in Metas /\ crawls' \in Nat /\ crawls <= crawls' /\ m.crawl <= crawls'
        /\ PositionOK(config, date, checked, m)
    <3>1. CASE c = "command"
      <4>1. m = Restarted(crawls + 1)
        BY <3>1
      <4>2. /\ m \in Metas /\ m.crawl = crawls + 1 /\ m.offset = 0 /\ m.count = 0
            /\ m.cursor = NoDialog
        BY <1>2, <4>1, Constants DEF Restarted, Metas, NoDialog
      <4>3. PositionOK(config, date, checked, m)
        BY <1>4, <4>2 DEF PositionOK
      <4> HIDE DEF m
      <4> QED
        BY <1>2, <2>1, <4>2, <4>3 DEF Larger
    <3>2. CASE c # "command"
      <4>1. m = meta /\ meta.crawl \in Nat
        BY <1>2, <3>2 DEF Metas
      <4> HIDE DEF m
      <4> QED
        BY <1>2, <2>1, <4>1 DEF Larger
    <3> QED
      BY <3>1, <3>2
  <2>3. m.count \in Nat /\ config.update \in Int /\ config.create \in Int /\ config.login \in Int
    BY <1>2, <2>2, Constants DEF Metas
  <2> HIDE DEF m
  <2>4. update' \in Int /\ create' \in Int
    BY <2>1, <2>3 DEF subtractLimit, Larger
  <2>5. LimitsOK'
    BY <1>1, <2>1 DEF LimitsOK, isFullSync
  <2> QED
    BY <1>1, <1>2, <2>1, <2>2, <2>4, <2>5, CallStep
<1> QED
  BY <1>3, <1>4

\* The rest leaves the call where it is, or ends it.
LEMMA QuietStep ==
    ASSUME Inv, UNCHANGED <<config, date, meta, checked, origin, crawls, holder, pc, update,
                            create, page>>, stored' \in {stored, meta}
    PROVE  Inv'
<1>1. LimitsOK'
  BY DEF Inv, LimitsOK, isFullSync, TopKnown, IsAhead, IsKnown, IsDated
<1>2. pc' \in {"handle", "advance"} =>
          PageOK(config, date, checked, meta', page', update', pc' = "handle")
  BY DEF Inv
<1>3. update' \in Int /\ create' \in Int /\ page' \in SUBSET Entries /\ crawls \in Nat
  BY DEF Inv, TypeOK
<1> QED
  BY <1>1, <1>2, <1>3, CallStep

LEMMA SavePageInv ==
    ASSUME Inv, SavePage
    PROVE  Inv'
<1>1. /\ pc = "save" /\ pc' = "loop" /\ page' = {} /\ stored' = meta
      /\ UNCHANGED <<config, date, meta, update, create, checked, origin, crawls, holder>>
  BY DEF SavePage, process, portals
<1>2. update \in Int /\ create \in Int /\ crawls \in Nat
  BY DEF Inv, TypeOK
<1>3. LimitsOK'
  BY <1>1 DEF Inv, LimitsOK, isFullSync
<1> QED
  BY <1>1, <1>2, <1>3, CallStep

LEMMA CrashInv ==
    ASSUME Inv, Crash
    PROVE  Inv'
<1>1. /\ meta' = stored /\ Return
      /\ UNCHANGED <<config, date, stored, checked, origin, crawls>>
  BY DEF Crash, portals
<1>2. crawls \in Nat
  BY DEF Inv, TypeOK
<1> QED
  BY <1>1, <1>2, ReturnFacts, CallStep

LEMMA InvInductive == Inv /\ [Next]_vars => Inv'
<1> SUFFICES ASSUME Inv, [Next]_vars PROVE Inv'
  OBVIOUS
<1>1. ASSUME NEW d \in Dialogs, NewMessage(d) PROVE Inv'
  BY <1>1, NewMessageInv
<1>2. ASSUME NEW c \in Callers, Call(c) PROVE Inv'
  BY <1>2, QuietStep DEF Call, locals, portals
<1>3. ASSUME NEW c \in Callers, Acquire(c) PROVE Inv'
  BY <1>3, AcquireInv
<1>4. CASE TakeoutReturns
  BY <1>4, QuietStep DEF TakeoutReturns, locals, portals
<1>5. CASE Loop
  BY <1>5, FetchInv, LimitReachedInv, HandleDialogsInv, AdvanceInv, SavePageInv, FinishInv
     DEF Loop
<1>6. CASE Fail
  BY <1>6, FailInv
<1>7. CASE Save
  BY <1>7, QuietStep DEF Save, process, locals, portals
<1>8. CASE Crash
  BY <1>8, CrashInv
<1>9. CASE UNCHANGED vars
  BY <1>9, QuietStep DEF vars, process, locals, portals
<1> QED
  BY <1>1, <1>2, <1>3, <1>4, <1>5, <1>6, <1>7, <1>8, <1>9 DEF Next

LEMMA InvHolds == Spec => []Inv
  BY InitInv, InvInductive, PTL DEF Spec

-----------------------------------------------------------------------------
(* What the crawl promises                                                    *)

\* The saved position and the one in memory are never past a dialog that the
\* crawl has not checked: syncChats writes DialogSyncCursor only after
\* handleDialogs has returned without an error, so neither an error nor a crash
\* nor a message that changes the order makes it skip a dialog.
THEOREM PositionIsBehind == Spec => []NothingSkipped
<1>1. Inv => NothingSkipped
  <2> SUFFICES ASSUME Inv, NEW m \in {meta, stored}, m.offset > 0,
                      NEW d \in Dialogs, date[d] >= m.offset
               PROVE  Known(m, d)
    BY DEF NothingSkipped
  <2>1. PositionOK(config, date, checked, m)
    BY DEF Inv
  <2> QED
    BY <2>1 DEF PositionOK, Above, IsKnown, Known
<1> QED
  BY <1>1, InvHolds, PTL

\* A crawl that is marked as complete (DialogSyncComplete) has checked the
\* update_limit most recently active dialogs, however many calls, restarts and
\* messages there were on the way, if every page has a dated dialog.
THEOREM CompleteCrawls == Spec => []CompleteIsTrue
<1>1. Inv => CompleteIsTrue
  <2> SUFFICES ASSUME Inv, NEW m \in {meta, stored}, m.complete, Dated
               PROVE  \A d \in Dialogs :
                        (Unlimited(config.update) \/ Cardinality(Ahead(d)) < config.update)
                        => Known(m, d)
    BY DEF CompleteIsTrue
  <2>1. PositionOK(config, date, checked, m)
    BY DEF Inv
  <2>2. TopKnown(config, date, checked, m)
    BY <2>1 DEF PositionOK, IsDated, Dated
  <2> QED
    BY <2>2 DEF TopKnown, IsAhead, Ahead, IsKnown, Known
<1> QED
  BY <1>1, InvHolds, PTL

\* No crawl creates more portals than create_limit, for dialogs that got no
\* message in the meantime: handleDialogs stops creating when the limit that
\* subtractLimit has reduced page by page is used up, and DialogSyncCount
\* carries the rest of it over to the next call.
THEOREM CreationIsLimited == Spec => []CreateLimitKept
<1>1. Inv => CreateLimitKept
  <2> SUFFICES ASSUME Inv, NEW n \in 1..crawls, ~Unlimited(config.create)
               PROVE  Cardinality({d \in Dialogs : origin[d] = n /\ date[d] = d})
                        <= config.create
    BY DEF CreateLimitKept
  <2> DEFINE S == {d \in Dialogs : origin[d] = n /\ date[d] = d}
  <2>1. config.create \in Int /\ config.create >= 0 /\ n > 0
    BY Constants DEF Inv, TypeOK, Unlimited
  <2>2. CASE S = {}
    BY <2>1, <2>2, FS_EmptySet
  <2>3. CASE S # {}
    <3>1. S \in SUBSET Nat
      BY DEF Dialogs
    <3>2. PICK d \in S : \A e \in S : d <= e
      BY <2>3, <3>1, MinFacts
    <3>3. d \in Dialogs /\ Cardinality(Before(date, d)) < config.create
      BY <2>1, <3>2 DEF Inv, CreateOK
    <3>4. /\ S \in SUBSET (Before(date, d) \cup {d}) /\ d \notin Before(date, d)
          /\ Before(date, d) \cup {d} \in SUBSET Dialogs /\ Before(date, d) \in SUBSET Dialogs
      BY <3>1, <3>2, <3>3 DEF Before, Dialogs
    <3>5. Cardinality(S) <= Cardinality(Before(date, d) \cup {d}) /\ Cardinality(S) \in Nat
      BY <3>4, SubsetSize
    <3>6. IsFiniteSet(Before(date, d)) /\ Cardinality(Before(date, d)) \in Nat
      BY <3>4, SubsetSize
    <3>7. Cardinality(Before(date, d) \cup {d}) = Cardinality(Before(date, d)) + 1
      BY <3>4, <3>6, FS_AddElement
    <3> HIDE DEF S
    <3>8. Cardinality(S) <= config.create
      BY <2>1, <3>3, <3>5, <3>6, <3>7
    <3> QED
      BY <3>8 DEF S
  <2> QED
    BY <2>2, <2>3
<1> QED
  BY <1>1, InvHolds, PTL

=============================================================================
