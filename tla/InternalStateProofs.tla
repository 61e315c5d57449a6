------------------------- MODULE InternalStateProofs -------------------------
(* Proofs about InternalState, for every log of the server and every bound.   *)
EXTENDS InternalState, FiniteSetTheorems, WellFoundedInduction, TLAPS

-----------------------------------------------------------------------------
(* The server                                                                 *)

\* A finite set has an element of the largest weight.
LEMMA Heaviest ==
    ASSUME NEW T, IsFiniteSet(T), T # {}, NEW w \in [T -> Nat]
    PROVE  \E x \in T : \A y \in T : w[y] <= w[x]
<1> DEFINE Above(x) == {y \in T : w[y] > w[x]}
           sizes == {Cardinality(Above(x)) : x \in T}
           R == OpToRel(<, Nat)
<1>1. \A x \in T : IsFiniteSet(Above(x)) /\ Cardinality(Above(x)) \in Nat
  BY FS_Subset, FS_CardinalityType
<1>2. sizes \subseteq Nat /\ sizes # {}
  BY <1>1
<1>3. \A m, n \in Nat : <<m, n>> \in R <=> m < n
  BY DEF OpToRel
<1>4. IsWellFoundedOn(R, Nat)
  BY NatLessThanWellFounded
<1> HIDE DEF R
<1>5. PICK n \in sizes : \A m \in sizes : ~(<<m, n>> \in R)
  BY <1>2, <1>4, WFMin
<1>6. PICK x \in T : n = Cardinality(Above(x))
  BY <1>5
<1>7. ASSUME NEW y \in T, ~(w[y] <= w[x]) PROVE FALSE
  <2>1. w[y] \in Nat /\ w[x] \in Nat /\ w[y] > w[x]
    BY <1>7
  <2>2. Above(y) \in SUBSET Above(x)
    BY <2>1
  <2>3. y \in Above(x) /\ y \notin Above(y)
    BY <2>1
  <2>4. Above(y) # Above(x)
    BY <2>3
  <2> HIDE DEF Above
  <2>5. /\ Cardinality(Above(y)) <= Cardinality(Above(x))
        /\ Cardinality(Above(x)) # Cardinality(Above(y))
    BY <1>1, <2>2, <2>4, FS_Subset
  <2>6. Cardinality(Above(y)) < n
    BY <1>1, <1>6, <2>5
  <2>7. Cardinality(Above(y)) \in sizes
    OBVIOUS
  <2> QED
    BY <1>2, <1>3, <1>5, <2>6, <2>7
<1> QED
  BY <1>7

\* Last is the largest of finitely many numbers.
LEMMA LastFacts ==
    ASSUME NEW T, IsFiniteSet(T), NEW w \in [T -> Nat],
           NEW S, \A x \in T : w[x] \in S, \A s \in S : \E x \in T : s = w[x]
    PROVE  /\ Last(S) \in Nat
           /\ Last(S) = 0 \/ \E x \in T : Last(S) = w[x]
           /\ \A x \in T : w[x] <= Last(S)
<1> DEFINE A == {0} \cup S
<1>1. A \subseteq Nat /\ A # {}
  OBVIOUS
<1>2. \E m \in A : \A y \in A : m >= y
  <2>1. CASE T = {}
    BY <2>1
  <2>2. CASE T # {}
    <3>1. PICK x \in T : \A y \in T : w[y] <= w[x]
      BY <2>2, Heaviest
    <3>2. w[x] \in A /\ \A y \in A : w[x] >= y
      BY <3>1
    <3> QED
      BY <3>2
  <2> QED
    BY <2>1, <2>2
<1>3. Max(A) \in A /\ \A y \in A : Max(A) >= y
  BY <1>2 DEF Max
<1>4. Last(S) = Max(A)
  BY DEF Last
<1> HIDE DEF A
<1>5. Max(A) \in Nat /\ \A y \in A : y \in Nat
  BY <1>1, <1>3
<1>6. \A x \in T : w[x] \in A
  BY DEF A
<1>7. Max(A) = 0 \/ \E x \in T : Max(A) = w[x]
  BY <1>3 DEF A
<1> QED
  BY <1>3, <1>4, <1>5, <1>6, <1>7

\* An item with a place among the numbers ends after 0; all those of pts have one.
LEMMA ItemFacts ==
    /\ PtsItems \subseteq Numbered /\ QtsItems \subseteq Numbered
    /\ Counted \subseteq Numbered /\ Numbered \subseteq Items
    /\ PtsItems \subseteq Placed /\ Counted \subseteq Placed
    /\ PtsItems \cap QtsItems = {}
    /\ \A x \in Items : x.start \in Int /\ x.end \in Nat
    /\ \A x \in Numbered : x.start <= x.end /\ (x \in Placed <=> x.end > 0)
    /\ \A x \in Placed : x.start \in Nat
    /\ \A x \in Counted : x.start < x.end /\ x \in PtsItems \cup QtsItems
<1>1. /\ PtsItems \subseteq Items /\ QtsItems \subseteq Items /\ PtsItems \cap QtsItems = {}
      /\ \A x \in Items : x.start \in Int /\ x.end \in Nat
  BY InternalConstants DEF PtsItems, QtsItems
<1>2. Placed \subseteq Numbered /\ Counted \subseteq Placed /\ Numbered \subseteq Items
  BY <1>1 DEF Placed, Counted, Numbered
<1>3. \A x \in Placed : x.start \in Nat /\ x.start <= x.end
  BY <1>1, <1>2, ServerNumbering
<1>4. \A x \in Numbered : x.start <= x.end /\ (x \in Placed <=> x.end > 0)
  BY <1>3, ServerNumbering DEF Numbered, Placed
<1> QED
  BY <1>1, <1>2, <1>3, <1>4, ServerNumbering DEF Numbered, Counted

\* The first j containers are containers, and their items are items.
LEMMA SentFacts ==
    /\ Len(Sent) \in Nat
    /\ \A j \in 0..Len(Sent) :
          /\ SentItems(j) \subseteq Items
          /\ 1..j \subseteq Containers
          /\ \A i \in 1..j : Sent[i].items \subseteq SentItems(j)
    /\ \A i \in Containers : Sent[i].items \subseteq Items
<1>1. Len(Sent) \in Nat
  BY InternalConstants
<1>2. \A j \in 0..Len(Sent) : 1..j \subseteq Containers
  BY <1>1 DEF Containers
<1> QED
  BY <1>1, <1>2 DEF SentItems, Items

\* An item that ends by the last one of the first j containers is in them.
LEMMA EndsIn ==
    ASSUME NEW j \in 0..Len(Sent), NEW N, NumberedInOrder(N), N \subseteq Numbered,
           NEW p \in Nat, p = 0 \/ \E x \in SentItems(j) \cap N : p = x.end
    PROVE  \A x \in N \cap Counted : x.end <= p => x \in SentItems(j)
<1>1. ASSUME NEW y \in N \cap Counted, y.end <= p PROVE y \in SentItems(j)
  <2>1. y.end \in Nat /\ y.start \in Nat /\ y.start < y.end
    BY ItemFacts
  <2>2. PICK x \in SentItems(j) \cap N : p = x.end
    BY <1>1, <2>1
  <2>3. PICK i \in 1..j : x \in Sent[i].items
    BY DEF SentItems
  <2>4. PICK k \in Containers : y \in Sent[k].items
    BY ItemFacts DEF Items
  <2>5. CASE k <= j
    <3>1. k \in 1..j
      BY <2>5, SentFacts DEF Containers
    <3> QED
      BY <2>4, <3>1 DEF SentItems
  <2>6. CASE ~(k <= j)
    <3>1. i \in Containers /\ i < k
      BY <2>6, SentFacts DEF Containers
    <3>2. x = y \/ x.end <= y.start
      BY <2>3, <2>4, <3>1 DEF NumberedInOrder
    <3>3. x \in SentItems(j) /\ x.end \in Nat
      BY ItemFacts
    <3> QED
      BY <1>1, <2>1, <2>2, <3>2, <3>3
  <2> QED
    BY <2>5, <2>6
<1> QED
  BY <1>1

\* The last end among the items of some kind.
LEMMA LastEnd ==
    ASSUME NEW T \in SUBSET Items
    PROVE  LET p == Last({item.end : item \in T})
           IN p \in Nat /\ (p = 0 \/ \E x \in T : p = x.end)
<1> DEFINE w == [x \in T |-> x.end]
           S == {item.end : item \in T}
<1>1. IsFiniteSet(T)
  BY InternalConstants, FS_Subset
<1>2. w \in [T -> Nat]
  BY ItemFacts
<1>3. (\A x \in T : w[x] \in S) /\ \A s \in S : \E x \in T : s = w[x]
  OBVIOUS
<1>4. \A x \in T : w[x] = x.end
  OBVIOUS
<1> HIDE DEF w, S
<1>5. /\ Last(S) \in Nat
      /\ Last(S) = 0 \/ \E x \in T : Last(S) = w[x]
  BY <1>1, <1>2, <1>3, LastFacts
<1>6. Last(S) \in Nat /\ (Last(S) = 0 \/ \E x \in T : Last(S) = x.end)
  BY <1>4, <1>5
<1> QED
  BY <1>6 DEF S

\* A numbered container covers the numbers after those of the earlier ones.
LEMMA SeqFacts ==
    /\ \A i \in Containers :
          /\ Sent[i].seq \in Nat /\ Sent[i].seqStart \in Nat
          /\ SeqRange(i).start = Sent[i].seqStart - 1 /\ SeqRange(i).end = Sent[i].seq
          /\ Sent[i].seq > 0 =>
                /\ SeqRange(i) \in SeqRanges
                /\ SeqRange(i).start \in Nat /\ SeqRange(i).start < Sent[i].seq
    /\ \A i, j \in Containers : i < j /\ Sent[i].seq > 0 /\ Sent[j].seq > 0 =>
          Sent[i].seq < Sent[j].seq /\ Sent[i].seq <= SeqRange(j).start
    /\ \A r \in SeqRanges : \E i \in Containers : Sent[i].seq > 0 /\ r = SeqRange(i)
<1>1. \A i \in Containers :
          /\ Sent[i].seq \in Nat /\ Sent[i].seqStart \in Nat
          /\ SeqRange(i).start = Sent[i].seqStart - 1 /\ SeqRange(i).end = Sent[i].seq
  BY InternalConstants DEF SeqRange
<1>2. \A i \in Containers : Sent[i].seq > 0 =>
          1 <= Sent[i].seqStart /\ Sent[i].seqStart <= Sent[i].seq
  BY ServerNumbering
<1>3. \A i, j \in Containers : i < j /\ Sent[i].seq > 0 /\ Sent[j].seq > 0 =>
          Sent[i].seq < Sent[j].seqStart
  BY ServerNumbering
<1>4. /\ \A i \in Containers : Sent[i].seq > 0 => SeqRange(i) \in SeqRanges
      /\ \A r \in SeqRanges : \E i \in Containers : Sent[i].seq > 0 /\ r = SeqRange(i)
  BY DEF SeqRanges
<1>5. \A i, j \in Containers : i < j /\ Sent[i].seq > 0 /\ Sent[j].seq > 0 =>
          Sent[i].seq < Sent[j].seq /\ Sent[i].seq <= SeqRange(j).start
  BY <1>1, <1>2, <1>3
<1> QED
  BY <1>1, <1>2, <1>4, <1>5

\* What the server's State after j containers says of its log.
LEMMA ServerFacts ==
    ASSUME NEW j \in 0..Len(Sent)
    PROVE  /\ ServerState(j) \in State
           /\ \A x \in PtsItems \cap Counted :
                 x.end <= ServerState(j).pts => x \in SentItems(j)
           /\ \A x \in QtsItems \cap Counted :
                 x.end <= ServerState(j).qts => x \in SentItems(j)
           /\ \A i \in Containers :
                 0 < Sent[i].seq /\ Sent[i].seq <= ServerState(j).seq => i \in 1..j
           /\ \A i \in 1..j : Sent[i].seq <= ServerState(j).seq
           /\ ServerState(j).seq = 0 \/ \E i \in 1..j : ServerState(j).seq = Sent[i].seq
<1> DEFINE P == {item.end : item \in SentItems(j) \cap PtsItems}
           Q == {item.end : item \in SentItems(j) \cap QtsItems}
           N == {Sent[i].seq : i \in 1..j}
           w == [i \in 1..j |-> Sent[i].seq]
<1>1. /\ ServerState(j).pts = Last(P) /\ ServerState(j).qts = Last(Q)
      /\ ServerState(j).seq = Last(N)
      /\ ServerState(j).date = IF j = 0 THEN 0 ELSE Sent[j].date
      /\ ServerState(j) = [pts |-> Last(P), qts |-> Last(Q), seq |-> Last(N),
                           date |-> IF j = 0 THEN 0 ELSE Sent[j].date]
  BY DEF ServerState
<1>2. /\ Last(P) \in Nat
      /\ \A x \in PtsItems \cap Counted : x.end <= Last(P) => x \in SentItems(j)
  <2>1. PtsItems \subseteq Numbered /\ NumberedInOrder(PtsItems)
    BY ItemFacts, ServerNumbering
  <2>2. SentItems(j) \cap PtsItems \in SUBSET Items
    BY SentFacts
  <2>3. /\ Last(P) \in Nat
        /\ Last(P) = 0 \/ \E x \in SentItems(j) \cap PtsItems : Last(P) = x.end
    BY <2>2, LastEnd
  <2> HIDE DEF P, Q, N, w
  <2> QED
    BY <2>1, <2>3, EndsIn
<1>3. /\ Last(Q) \in Nat
      /\ \A x \in QtsItems \cap Counted : x.end <= Last(Q) => x \in SentItems(j)
  <2>1. QtsItems \cap Placed \subseteq Numbered /\ NumberedInOrder(QtsItems \cap Placed)
    BY ItemFacts, ServerNumbering
  <2>2. SentItems(j) \cap QtsItems \in SUBSET Items
    BY SentFacts
  <2>3. /\ Last(Q) \in Nat
        /\ Last(Q) = 0 \/ \E x \in SentItems(j) \cap QtsItems : Last(Q) = x.end
    BY <2>2, LastEnd
  <2> HIDE DEF P, Q, N, w
  <2>4. Last(Q) = 0 \/ \E x \in SentItems(j) \cap (QtsItems \cap Placed) : Last(Q) = x.end
    BY <2>3, ItemFacts
  <2>5. \A x \in (QtsItems \cap Placed) \cap Counted : x.end <= Last(Q) => x \in SentItems(j)
    BY <2>1, <2>3, <2>4, EndsIn
  <2> QED
    BY <2>3, <2>5, ItemFacts
<1>4. /\ Last(N) \in Nat
      /\ Last(N) = 0 \/ \E i \in 1..j : Last(N) = w[i]
      /\ \A i \in 1..j : w[i] <= Last(N)
  <2>1. IsFiniteSet(1..j)
    BY FS_Interval, SentFacts
  <2>2. w \in [1..j -> Nat]
    BY SentFacts, InternalConstants
  <2>3. (\A i \in 1..j : w[i] \in N) /\ \A s \in N : \E i \in 1..j : s = w[i]
    OBVIOUS
  <2> HIDE DEF N, w
  <2> QED
    BY <2>1, <2>2, <2>3, LastFacts
<1>5. \A i \in 1..j : w[i] = Sent[i].seq
  OBVIOUS
<1> HIDE DEF P, Q, N, w
<1>6. ServerState(j) \in State
  <2>1. j = 0 \/ j \in Containers
    BY SentFacts DEF Containers
  <2>2. (IF j = 0 THEN 0 ELSE Sent[j].date) \in Nat
    BY <2>1, InternalConstants
  <2> QED
    BY <1>1, <1>2, <1>3, <1>4, <2>2 DEF State
<1>7. ASSUME NEW i \in Containers, 0 < Sent[i].seq, Sent[i].seq <= Last(N)
      PROVE  i \in 1..j
  <2>1. \A k \in Containers : Sent[k].seq \in Nat /\ k \in Nat /\ 1 <= k
    BY InternalConstants, SentFacts DEF Containers
  <2>2. PICK k \in 1..j : Last(N) = Sent[k].seq
    BY <1>4, <1>5, <1>7, <2>1
  <2>3. k \in Containers
    BY SentFacts
  <2>4. /\ Sent[k].seq \in Nat /\ Sent[i].seq \in Nat
        /\ k \in Nat /\ i \in Nat /\ 1 <= i /\ k <= j /\ j \in Nat
    BY <2>1, <2>3, SentFacts
  <2>5. Sent[k].seq > 0 /\ ~(Sent[k].seq < Sent[i].seq)
    BY <1>7, <2>2, <2>4
  <2>6. ~(k < i)
    BY <1>7, <2>3, <2>4, <2>5, SeqFacts
  <2> QED
    BY <2>6, <2>4
<1>8. \A i \in 1..j : Sent[i].seq <= Last(N)
  BY <1>4, <1>5
<1> QED
  BY <1>1, <1>2, <1>3, <1>4, <1>5, <1>6, <1>7, <1>8

\* The server's seq never falls.
LEMMA SeqGrows ==
    ASSUME NEW j \in 0..Len(Sent), NEW k \in 0..Len(Sent), j <= k
    PROVE  ServerState(j).seq <= ServerState(k).seq
<1>1. ServerState(j).seq = 0 \/ \E i \in 1..j : ServerState(j).seq = Sent[i].seq
  BY ServerFacts
<1>2. 1..j \subseteq 1..k
  BY SentFacts
<1>3. ServerState(k).seq \in Nat /\ \A i \in 1..k : Sent[i].seq <= ServerState(k).seq
  BY ServerFacts DEF State
<1> QED
  BY <1>1, <1>2, <1>3

-----------------------------------------------------------------------------
(* Ranges                                                                     *)

\* What the three boxes are handed: ranges that never overlap if they end after 0.
RangesOK(U) ==
    /\ \A r \in U : r.start \in Int /\ r.end \in Nat /\ r.start <= r.end
    /\ \A r \in U : r.end > 0 => r.start \in Nat
    /\ \A r, u \in U : r.end > 0 /\ u.end > 0 =>
          r = u \/ r.end <= u.start \/ u.end <= r.start

\* The ranges of pts, of qts and of seq are such, and only qts has some that end at 0.
LEMMA RangeFacts ==
    /\ RangesOK(PtsRanges) /\ RangesOK(QtsRanges) /\ RangesOK(SeqRanges)
    /\ \A r \in PtsRanges \cup SeqRanges : r.end > 0
<1>1. ASSUME NEW N \in SUBSET Numbered, NumberedInOrder(N \cap Placed)
      PROVE  RangesOK({Span(x) : x \in N})
  <2>1. \A x \in N : /\ Span(x).start = x.start /\ Span(x).end = x.end
                     /\ x.start \in Int /\ x.end \in Nat /\ x.start <= x.end
                     /\ x.end > 0 => x \in Placed /\ x.start \in Nat
    BY ItemFacts DEF Span
  <2>2. \A x, y \in N : x.end > 0 /\ y.end > 0 => x = y \/ x.end <= y.start \/ y.end <= x.start
    BY <1>1, <2>1 DEF NumberedInOrder, Apart
  <2> QED
    BY <2>1, <2>2 DEF RangesOK
<1>2. RangesOK(PtsRanges) /\ \A r \in PtsRanges : r.end > 0
  <2>1. PtsItems \cap Placed = PtsItems /\ \A x \in PtsItems : x.end > 0
    BY ItemFacts
  <2> QED
    BY <1>1, <2>1, ItemFacts, ServerNumbering DEF PtsRanges, Span
<1>3. RangesOK(QtsRanges)
  BY <1>1, ItemFacts, ServerNumbering DEF QtsRanges
<1>4. RangesOK(SeqRanges) /\ \A r \in SeqRanges : r.end > 0
  <2>1. \A i, j \in Containers : Sent[i].seq > 0 /\ Sent[j].seq > 0 =>
          i = j \/ SeqRange(i).end <= SeqRange(j).start \/ SeqRange(j).end <= SeqRange(i).start
    <3>1. \A i, j \in Containers : i = j \/ i < j \/ j < i
      BY SentFacts DEF Containers
    <3> QED
      BY <3>1, SeqFacts
  <2>2. ASSUME NEW r \in SeqRanges
        PROVE  r.start \in Nat /\ r.end \in Nat /\ r.start <= r.end /\ r.end > 0
    BY SeqFacts
  <2>3. ASSUME NEW r \in SeqRanges, NEW u \in SeqRanges
        PROVE  r = u \/ r.end <= u.start \/ u.end <= r.start
    BY <2>1, SeqFacts
  <2> QED
    BY <2>2, <2>3 DEF RangesOK
<1> QED
  BY <1>2, <1>3, <1>4

-----------------------------------------------------------------------------
(* The inductive invariant                                                    *)

CombinedFrames ==
    [op : {"combined"}, stage : {"loop", "save", "date"}, todo : SUBSET Items,
     items : SUBSET Items, seq : Nat, date : Nat, changed : BOOLEAN]

DiffFrames ==
    [op : {"diff"}, stage : {"request", "others", "messages", "store"},
     kind : {"none", "difference", "slice", "empty", "tooLong"},
     upto : 0..Len(Sent), missing : SUBSET Items]

ApplySeqFrames ==
    [op : {"applySeq"}, stage : {"loop", "recovered"},
     todo : Seq(SeqRanges), recover : BOOLEAN]

Frames == CombinedFrames \cup DiffFrames \cup ApplySeqFrames

Phases == {"idle", "scan", "apply"}

Typed ==
    /\ pts \in Nat /\ ptsPhase \in Phases /\ ptsNext \in Nat /\ ptsAccepted \in Seq(PtsRanges)
    /\ qts \in Nat /\ qtsPhase \in Phases /\ qtsNext \in Nat /\ qtsAccepted \in Seq(QtsRanges)
    /\ seq \in Nat /\ seqPhase \in Phases /\ seqNext \in Nat /\ seqAccepted \in Seq(SeqRanges)
    /\ seqPending \in [SeqRanges -> Nat]
    /\ date \in Nat
    /\ up \in BOOLEAN
    /\ origin \in {"queue", "timer"}
    /\ stack \in Seq(Frames)
    /\ stored \in State \cup {NoneStored}
    /\ sent \in 0..Len(Sent)
    /\ unsaved \in BOOLEAN

OthersOnly(items) == \A x \in items : x.kind \in Others

\* How the calls nest.  applySeq is at the bottom; getDifference runs on its own
\* or at the end of applySeq; applyCombined runs for a container, for a part
\* of applySeq's batch, or for the other updates of a difference.
Nested(s, ph) ==
    /\ \A k \in 1..Len(s) :
          /\ s[k].op = "combined" => k = 1
          /\ s[k].op = "diff" =>
                k = 1 \/ (k = 2 /\ s[2].stage = "messages" /\ s[1].op = "combined")
          /\ s[k].op = "applySeq" =>
                /\ k = Len(s)
                /\ s[k].stage = "loop" => k = 1 \/ (k = 2 /\ s[1].op = "combined")
    /\ s # << >> => /\ ph # "scan"
                    /\ ph = "apply" <=> s[Len(s)].op = "applySeq"
    /\ s # << >> /\ s[1].op = "combined" =>
          IF s[1].seq > 0
          THEN Len(s) = 2 /\ s[2].op = "applySeq" /\ s[2].stage = "loop"
          ELSE \/ Len(s) = 1
               \/ /\ s[2].op = "diff" /\ ~s[1].changed
                  /\ OthersOnly(s[1].items)

\* All counted items up to a position are in S.
CoveredPts(S, p) == \A x \in PtsItems \cap Counted : x.end <= p => x \in S
CoveredQts(S, p) == \A x \in QtsItems \cap Counted : x.end <= p => x \in S
CoveredSeq(S, n) ==
    \A i \in Containers : 0 < Sent[i].seq /\ Sent[i].seq <= n =>
        \A x \in Sent[i].items \cap Counted : x \in S

\* While a box is busy, what ends by its next position ends by the current one
\* or is in the batch.
BatchOK(U, s, ph, nx, ac) ==
    ph # "idle" =>
        /\ ac = << >> => nx = s /\ ph = "scan"
        /\ ac # << >> => nx > 0 \/ \E k \in 1..Len(ac) : ac[k].end = 0
        /\ \A r \in U : r.end > 0 /\ r.start < r.end /\ r.end <= nx =>
              r.end <= s \/ \E k \in 1..Len(ac) : ac[k] = r

\* The pts and the qts box are busy only in the loop of applyCombined.
InLoop ==
    /\ stack # << >>
    /\ stack[1].op = "combined"
    /\ stack[1].stage \in {"loop", "save"}

Busy ==
    /\ BatchOK(PtsRanges, pts, ptsPhase, ptsNext, ptsAccepted)
    /\ BatchOK(QtsRanges, qts, qtsPhase, qtsNext, qtsAccepted)
    /\ ptsPhase # "idle" => InLoop /\ qtsPhase = "idle"
    /\ qtsPhase # "idle" => InLoop
    /\ (ptsPhase = "scan" \/ qtsPhase = "scan") => stack[1].stage = "loop"

\* The ranges of a batch follow each other from one position to another.
Chain(s, from, to) ==
    IF s = << >> THEN from = to
    ELSE /\ s[1].start = from
         /\ s[Len(s)].end = to
         /\ \A i \in 2..Len(s) : s[i].start = s[i-1].end

\* Where the loop of applySeq stands.
Cursor(todo, nx) == IF todo = << >> THEN nx ELSE todo[1].start

\* The seq box: its batch is a chain, of containers that the server has sent.
SeqBatch ==
    /\ \A r \in SeqRanges : seqPending[r] > 0 => r.end <= ServerState(sent).seq
    /\ seqPhase # "idle" =>
          /\ up /\ origin = "queue"
          /\ seqPhase = "apply" => seqAccepted # << >>
          /\ seqAccepted # << >> => seqNext <= ServerState(sent).seq
          /\ stack = << >> => Chain(seqAccepted, seq, seqNext)

\* applySeq: everything up to its cursor is settled, and seq is there.
SeqLoop ==
    \A k \in 1..Len(stack) : stack[k].op = "applySeq" =>
        /\ Chain(stack[k].todo, Cursor(stack[k].todo, seqNext), seqNext)
        /\ k = 1 /\ stack[k].stage = "loop" =>
              /\ CoveredSeq(settled, Cursor(stack[k].todo, seqNext))
              /\ seq = Cursor(stack[k].todo, seqNext)
        /\ stack[k].stage = "recovered" =>
              /\ CoveredSeq(settled, seqNext)
              /\ k = 1 /\ ~unsaved => seqNext <= stored.seq

\* An update with a qts of 0 has been handled.
Rewound(S) == (S \cap QtsItems) \ Placed # {}

\* applyCombined: the handler has the batch when the position is saved, and
\* the container when its seq is.
CombinedLoop ==
    stack # << >> /\ stack[1].op = "combined" =>
        /\ stack[1].todo \subseteq stack[1].items
        /\ stack[1].stage = "save" =>
              /\ ptsPhase = "apply" \/ qtsPhase = "apply"
              /\ ptsPhase = "apply" => CoveredPts(settled, ptsNext)
              /\ qtsPhase = "apply" =>
                    CoveredQts(settled, qtsNext) /\ (qtsNext = 0 => Rewound(settled))
        /\ stack[1].stage = "date" => stack[1].items \subseteq settled
        /\ stack[1].seq > 0 =>
              /\ \A i \in Containers : Sent[i].seq = stack[1].seq =>
                    Sent[i].items \cap Counted \subseteq stack[1].items
              /\ \E r \in SeqRanges : r.start = seq /\ r.end = stack[1].seq
              /\ Cursor(stack[2].todo, seqNext) = stack[1].seq

\* getDifference: which part of the answer is settled.
Answered(d, running, S, now) ==
    LET answer == SentItems(d.upto) \cap Counted
    IN /\ d.stage \in {"others", "messages"} => d.kind \in {"difference", "slice"}
       /\ d.stage = "store" => d.kind # "none"
       /\ d.stage # "request" /\ d.kind # "slice" => d.upto = now
       /\ d.stage = "others" => \A x \in answer : x \in S \/ x \in d.missing
       /\ d.stage = "messages" =>
             \A x \in answer : \/ x \in S \/ x \in running
                               \/ x \in d.missing /\ x.kind \notin Others
       /\ d.stage = "store" /\ d.kind # "tooLong" => \A x \in answer : x \in S
       /\ d.stage = "store" /\ d.kind = "tooLong" =>
             \A x \in answer \cap PtsItems : x \in S \/ x \in d.missing

Differences ==
    \A k \in 1..Len(stack) : stack[k].op = "diff" =>
        Answered(stack[k], IF k = 2 THEN stack[1].items ELSE {}, settled, sent)

\* Nothing runs in a worker that is down.
Down ==
    ~up => stack = << >> /\ ptsPhase = "idle" /\ qtsPhase = "idle" /\ seqPhase = "idle"

\* The storage has this qts, unless such an update took the memory back to 0.
QtsKept(storedQts, q, S) == storedQts = q \/ (q = 0 /\ Rewound(S))

\* The storage follows the memory.
Synced ==
    up => /\ stored \in State
          /\ ~unsaved => /\ stored.pts = pts
                         /\ QtsKept(stored.qts, qts, settled)
                         /\ stored.date = date /\ seq <= stored.seq

\* No counter has passed an item that is not settled.
Covered ==
    /\ CoveredPts(settled, pts) /\ CoveredQts(settled, qts) /\ CoveredSeq(settled, seq)
    /\ CoveredPts(settled, stored.pts) /\ CoveredQts(settled, stored.qts)
    /\ CoveredSeq(settled, stored.seq)

Inv ==
    /\ Typed
    /\ Nested(stack, seqPhase)
    /\ Busy
    /\ SeqBatch
    /\ SeqLoop
    /\ CombinedLoop
    /\ Differences
    /\ Down
    /\ Synced
    /\ Covered

-----------------------------------------------------------------------------
(* The boxes                                                                  *)

\* What a step of Handle or applyPending does to a box at position s.
Moved(U, s, ph, nx, ac, ph2, nx2, ac2) ==
    \/ ph2 = ph /\ nx2 = nx /\ ac2 = ac
    \/ ph2 = "idle" /\ nx2 \in Nat /\ ac2 = ac
    \/ ph = "idle" /\ ph2 = "scan" /\ nx2 = s /\ ac2 = << >>
    \/ \E u \in U : /\ ph = "idle" /\ ph2 = "apply"
                    /\ u.start = s \/ u.end = 0
                    /\ nx2 = u.end /\ ac2 = <<u>>
    \/ \E u \in U : /\ ph = "scan" /\ ph2 = "scan"
                    /\ u.start = nx \/ u.end = 0
                    /\ nx2 = u.end /\ ac2 = Append(ac, u)
    \/ ph = "scan" /\ ph2 = "apply" /\ ac # << >> /\ nx2 = nx /\ ac2 = ac

\* A sequence with one more element.
LEMMA AppendFacts ==
    ASSUME NEW U, NEW s \in Seq(U), NEW u \in U, NEW t, t = Append(s, u)
    PROVE  /\ t \in Seq(U) /\ t # << >>
           /\ Len(s) \in Nat /\ Len(t) = Len(s) + 1
           /\ t[Len(s) + 1] = u /\ \A i \in 1..Len(s) : t[i] = s[i]
           /\ s = << >> <=> Len(s) = 0
<1>1. t \in Seq(U) /\ Len(s) \in Nat /\ Len(t) = Len(s) + 1
  OBVIOUS
<1>2. t[Len(s) + 1] = u /\ \A i \in 1..Len(s) : t[i] = s[i]
  OBVIOUS
<1>3. s = << >> <=> Len(s) = 0
  OBVIOUS
<1>4. t # << >>
  <2>1. Len(t) # 0 /\ Len(<< >>) = 0
    BY <1>1
  <2> QED
    BY <2>1
<1> QED
  BY <1>1, <1>2, <1>3, <1>4

\* The types of a box and its batch are kept.
LEMMA MovedBatch ==
    ASSUME NEW U, RangesOK(U), NEW s \in Nat,
           NEW ph \in Phases, NEW nx \in Nat, NEW ac \in Seq(U),
           NEW ph2, NEW nx2, NEW ac2,
           BatchOK(U, s, ph, nx, ac),
           Moved(U, s, ph, nx, ac, ph2, nx2, ac2)
    PROVE  /\ ph2 \in Phases /\ nx2 \in Nat /\ ac2 \in Seq(U)
           /\ BatchOK(U, s, ph2, nx2, ac2)
<1>1. \A r \in U : r.start \in Int /\ r.end \in Nat /\ r.start <= r.end
  BY DEF RangesOK
<1>2. \A r, u \in U : r.end > 0 /\ r.start < r.end /\ r.end <= u.end =>
          r = u \/ (r.end <= u.start /\ u.end # 0)
  BY <1>1 DEF RangesOK
<1>3. CASE ph2 = ph /\ nx2 = nx /\ ac2 = ac
  BY <1>3
<1>4. CASE ph2 = "idle" /\ nx2 \in Nat /\ ac2 = ac
  BY <1>4 DEF BatchOK, Phases
<1>5. CASE ph = "idle" /\ ph2 = "scan" /\ nx2 = s /\ ac2 = << >>
  <2>1. << >> \in Seq(U)
    OBVIOUS
  <2> QED
    BY <1>1, <1>5, <2>1 DEF BatchOK, Phases
<1>6. CASE \E u \in U : /\ ph = "idle" /\ ph2 = "apply"
                        /\ u.start = s \/ u.end = 0
                        /\ nx2 = u.end /\ ac2 = <<u>>
  <2>1. PICK u \in U : /\ ph2 = "apply" /\ (u.start = s \/ u.end = 0)
                       /\ nx2 = u.end /\ ac2 = <<u>>
    BY <1>6
  <2>2. ac2 \in Seq(U) /\ Len(ac2) = 1 /\ ac2[1] = u /\ ac2 # << >>
    BY <2>1
  <2>3. 1 \in 1..Len(ac2)
    BY <2>2
  <2> QED
    BY <1>1, <1>2, <2>1, <2>2, <2>3 DEF BatchOK, Phases
<1>7. CASE \E u \in U : /\ ph = "scan" /\ ph2 = "scan"
                        /\ u.start = nx \/ u.end = 0
                        /\ nx2 = u.end /\ ac2 = Append(ac, u)
  <2>1. PICK u \in U : /\ ph = "scan" /\ ph2 = "scan"
                       /\ u.start = nx \/ u.end = 0
                       /\ nx2 = u.end /\ ac2 = Append(ac, u)
    BY <1>7
  <2>2. /\ ac2 \in Seq(U) /\ ac2 # << >>
        /\ Len(ac) \in Nat /\ Len(ac2) = Len(ac) + 1
        /\ ac2[Len(ac) + 1] = u /\ \A i \in 1..Len(ac) : ac2[i] = ac[i]
    BY <2>1, AppendFacts
  <2>3. ASSUME NEW r \in U, r.end > 0, r.start < r.end, r.end <= nx2
        PROVE  r.end <= s \/ \E k \in 1..Len(ac2) : ac2[k] = r
    <3>1. r = u \/ r.end <= nx
      BY <1>2, <2>1, <2>3
    <3>2. r.end <= nx => r.end <= s \/ \E k \in 1..Len(ac) : ac[k] = r
      BY <2>1, <2>3 DEF BatchOK
    <3>3. \A k \in 1..Len(ac) : k \in 1..Len(ac2)
      BY <2>2
    <3>4. Len(ac) + 1 \in 1..Len(ac2)
      BY <2>2
    <3> QED
      BY <2>2, <3>1, <3>2, <3>3, <3>4
  <2>4. nx2 > 0 \/ \E k \in 1..Len(ac2) : ac2[k].end = 0
    <3>1. Len(ac) + 1 \in 1..Len(ac2)
      BY <2>2
    <3> QED
      BY <1>1, <2>1, <2>2, <3>1
  <2> QED
    BY <1>1, <2>1, <2>2, <2>3, <2>4 DEF BatchOK, Phases
<1>8. CASE ph = "scan" /\ ph2 = "apply" /\ ac # << >> /\ nx2 = nx /\ ac2 = ac
  BY <1>8 DEF BatchOK, Phases
<1> QED
  BY <1>3, <1>4, <1>5, <1>6, <1>7, <1>8 DEF Moved

\* A batch stays a chain.
LEMMA MovedChain ==
    ASSUME NEW U, RangesOK(U), \A r \in U : r.end > 0, NEW s \in Nat,
           NEW ph \in Phases, NEW nx \in Nat, NEW ac \in Seq(U),
           NEW ph2, NEW nx2, NEW ac2,
           ph # "idle" => Chain(ac, s, nx) /\ (ph = "apply" => ac # << >>),
           Moved(U, s, ph, nx, ac, ph2, nx2, ac2)
    PROVE  /\ ph2 \in Phases /\ nx2 \in Nat /\ ac2 \in Seq(U)
           /\ ph2 # "idle" => Chain(ac2, s, nx2) /\ (ph2 = "apply" => ac2 # << >>)
<1>1. \A r \in U : r.start \in Nat /\ r.end \in Nat /\ r.end # 0
  BY DEF RangesOK
<1>2. CASE \/ ph2 = ph /\ nx2 = nx /\ ac2 = ac
           \/ ph2 = "idle" /\ nx2 \in Nat /\ ac2 = ac
           \/ ph = "scan" /\ ph2 = "apply" /\ ac # << >> /\ nx2 = nx /\ ac2 = ac
  BY <1>2 DEF Phases
<1>3. CASE ph = "idle" /\ ph2 = "scan" /\ nx2 = s /\ ac2 = << >>
  <2>1. << >> \in Seq(U)
    OBVIOUS
  <2> QED
    BY <1>3, <2>1 DEF Chain, Phases
<1>4. CASE \E u \in U : /\ ph = "idle" /\ ph2 = "apply"
                        /\ u.start = s \/ u.end = 0
                        /\ nx2 = u.end /\ ac2 = <<u>>
  <2>1. PICK u \in U : ph2 = "apply" /\ u.start = s /\ nx2 = u.end /\ ac2 = <<u>>
    BY <1>1, <1>4
  <2>2. ac2 \in Seq(U) /\ Len(ac2) = 1 /\ ac2[1] = u /\ ac2 # << >>
    BY <2>1
  <2> QED
    BY <1>1, <2>1, <2>2 DEF Chain, Phases
<1>5. CASE \E u \in U : /\ ph = "scan" /\ ph2 = "scan"
                        /\ u.start = nx \/ u.end = 0
                        /\ nx2 = u.end /\ ac2 = Append(ac, u)
  <2>1. PICK u \in U : /\ ph = "scan" /\ ph2 = "scan"
                       /\ u.start = nx /\ nx2 = u.end /\ ac2 = Append(ac, u)
    BY <1>1, <1>5
  <2>2. /\ ac2 \in Seq(U) /\ ac2 # << >>
        /\ Len(ac) \in Nat /\ Len(ac2) = Len(ac) + 1
        /\ ac2[Len(ac) + 1] = u /\ \A i \in 1..Len(ac) : ac2[i] = ac[i]
        /\ ac = << >> <=> Len(ac) = 0
    BY <2>1, AppendFacts
  <2>3. ac2[1].start = s
    BY <2>1, <2>2 DEF Chain
  <2>4. ASSUME NEW i \in 2..Len(ac2) PROVE ac2[i].start = ac2[i-1].end
    <3>1. CASE i = Len(ac) + 1
      <4>1. Len(ac) # 0 /\ i - 1 = Len(ac) /\ ac2[i-1] = ac[Len(ac)]
        BY <2>2, <3>1
      <4>2. ac2[i] = u
        BY <2>2, <3>1
      <4>3. Chain(ac, s, nx) /\ ac # << >>
        BY <2>1, <2>2, <4>1
      <4>4. ac[Len(ac)].end = nx
        BY <4>3 DEF Chain
      <4> QED
        BY <2>1, <4>1, <4>2, <4>4
    <3>2. CASE i # Len(ac) + 1
      <4>1. /\ i \in 2..Len(ac) /\ i \in 1..Len(ac) /\ i - 1 \in 1..Len(ac)
            /\ ac # << >>
        BY <2>2, <3>2
      <4> QED
        BY <2>1, <2>2, <4>1 DEF Chain
    <3> QED
      BY <3>1, <3>2
  <2> QED
    BY <1>1, <2>1, <2>2, <2>3, <2>4 DEF Chain, Phases
<1> QED
  BY <1>2, <1>3, <1>4, <1>5 DEF Moved

\* The steps of the three boxes are such moves, and leave the counter alone.
LEMMA PtsHandled ==
    ASSUME pts \in Nat, NEW u \in PtsRanges, Pts!Handle(u)
    PROVE  /\ ptsPhase = "idle" /\ pts' = pts
           /\ Moved(PtsRanges, pts, ptsPhase, ptsNext, ptsAccepted,
                    ptsPhase', ptsNext', ptsAccepted')
<1>1. u.start \in Int /\ u.end \in Nat
  BY RangeFacts DEF RangesOK
<1>2. ptsPhase = "idle"
  BY DEF Pts!Handle
<1>3. CASE Pts!HandleIgnore(u)
  BY <1>2, <1>3 DEF Pts!HandleIgnore, Pts!NoApply, Moved
<1>4. CASE Pts!HandleInGap(u)
  BY <1>2, <1>4 DEF Pts!HandleInGap, Pts!NoApply, Pts!BeginApplyPending, Moved
<1>5. CASE Pts!HandleApply(u)
  <2>1. u.start = pts \/ u.end = 0
    BY <1>1, <1>5 DEF Pts!HandleApply, Pts!CheckGap, Pts!Count
  <2> QED
    BY <1>2, <1>5, <2>1 DEF Pts!HandleApply, Pts!BeginApplyPending, Moved
<1>6. CASE Pts!HandleRefetch(u)
  BY <1>2, <1>6 DEF Pts!HandleRefetch, Pts!NoApply, Pts!BeginApplyPending, Moved
<1> QED
  BY <1>2, <1>3, <1>4, <1>5, <1>6 DEF Pts!Handle

\* The scan of applyPending in the pts box.
LEMMA PtsScanned ==
    ASSUME ptsNext \in Nat, Pts!ScanNext \/ Pts!ScanEnd
    PROVE  /\ ptsPhase = "scan" /\ pts' = pts
           /\ Moved(PtsRanges, pts, ptsPhase, ptsNext, ptsAccepted,
                    ptsPhase', ptsNext', ptsAccepted')
<1>1. CASE Pts!ScanNext
  <2>1. PICK u \in Pts!Earliest :
          \/ /\ Pts!CheckGap(ptsNext, u) = "apply"
             /\ ptsAccepted' = Append(ptsAccepted, u)
             /\ ptsNext' = u.end
          \/ UNCHANGED <<ptsNext, ptsAccepted>>
    BY <1>1 DEF Pts!ScanNext
  <2>2. u \in PtsRanges
    BY DEF Pts!Earliest, Pts!Held
  <2>3. u.start \in Int /\ u.end \in Nat
    BY <2>2, RangeFacts DEF RangesOK
  <2>4. ptsPhase = "scan" /\ ptsPhase' = "scan" /\ pts' = pts
    BY <1>1 DEF Pts!ScanNext
  <2>5. CASE UNCHANGED <<ptsNext, ptsAccepted>>
    BY <2>4, <2>5 DEF Moved
  <2>6. CASE /\ Pts!CheckGap(ptsNext, u) = "apply"
             /\ ptsAccepted' = Append(ptsAccepted, u)
             /\ ptsNext' = u.end
    <3>1. u.start = ptsNext \/ u.end = 0
      BY <2>3, <2>6 DEF Pts!CheckGap, Pts!Count
    <3> QED
      BY <2>2, <2>4, <2>6, <3>1 DEF Moved
  <2> QED
    BY <2>1, <2>5, <2>6
<1>2. CASE Pts!ScanEnd
  BY <1>2 DEF Pts!ScanEnd, Moved
<1> QED
  BY <1>1, <1>2

\* Handle of the qts box.
LEMMA QtsHandled ==
    ASSUME qts \in Nat, NEW u \in QtsRanges, Qts!Handle(u)
    PROVE  /\ qtsPhase = "idle" /\ qts' = qts
           /\ Moved(QtsRanges, qts, qtsPhase, qtsNext, qtsAccepted,
                    qtsPhase', qtsNext', qtsAccepted')
<1>1. u.start \in Int /\ u.end \in Nat
  BY RangeFacts DEF RangesOK
<1>2. qtsPhase = "idle"
  BY DEF Qts!Handle
<1>3. CASE Qts!HandleIgnore(u)
  BY <1>2, <1>3 DEF Qts!HandleIgnore, Qts!NoApply, Moved
<1>4. CASE Qts!HandleInGap(u)
  BY <1>2, <1>4 DEF Qts!HandleInGap, Qts!NoApply, Qts!BeginApplyPending, Moved
<1>5. CASE Qts!HandleApply(u)
  <2>1. u.start = qts \/ u.end = 0
    BY <1>1, <1>5 DEF Qts!HandleApply, Qts!CheckGap, Qts!Count
  <2> QED
    BY <1>2, <1>5, <2>1 DEF Qts!HandleApply, Qts!BeginApplyPending, Moved
<1>6. CASE Qts!HandleRefetch(u)
  BY <1>2, <1>6 DEF Qts!HandleRefetch, Qts!NoApply, Qts!BeginApplyPending, Moved
<1> QED
  BY <1>2, <1>3, <1>4, <1>5, <1>6 DEF Qts!Handle

\* The scan of applyPending in the qts box.
LEMMA QtsScanned ==
    ASSUME qtsNext \in Nat, Qts!ScanNext \/ Qts!ScanEnd
    PROVE  /\ qtsPhase = "scan" /\ qts' = qts
           /\ Moved(QtsRanges, qts, qtsPhase, qtsNext, qtsAccepted,
                    qtsPhase', qtsNext', qtsAccepted')
<1>1. CASE Qts!ScanNext
  <2>1. PICK u \in Qts!Earliest :
          \/ /\ Qts!CheckGap(qtsNext, u) = "apply"
             /\ qtsAccepted' = Append(qtsAccepted, u)
             /\ qtsNext' = u.end
          \/ UNCHANGED <<qtsNext, qtsAccepted>>
    BY <1>1 DEF Qts!ScanNext
  <2>2. u \in QtsRanges
    BY DEF Qts!Earliest, Qts!Held
  <2>3. u.start \in Int /\ u.end \in Nat
    BY <2>2, RangeFacts DEF RangesOK
  <2>4. qtsPhase = "scan" /\ qtsPhase' = "scan" /\ qts' = qts
    BY <1>1 DEF Qts!ScanNext
  <2>5. CASE UNCHANGED <<qtsNext, qtsAccepted>>
    BY <2>4, <2>5 DEF Moved
  <2>6. CASE /\ Qts!CheckGap(qtsNext, u) = "apply"
             /\ qtsAccepted' = Append(qtsAccepted, u)
             /\ qtsNext' = u.end
    <3>1. u.start = qtsNext \/ u.end = 0
      BY <2>3, <2>6 DEF Qts!CheckGap, Qts!Count
    <3> QED
      BY <2>2, <2>4, <2>6, <3>1 DEF Moved
  <2> QED
    BY <2>1, <2>5, <2>6
<1>2. CASE Qts!ScanEnd
  BY <1>2 DEF Qts!ScanEnd, Moved
<1> QED
  BY <1>1, <1>2

\* Handle of the seq box.
LEMMA SeqBoxHandled ==
    ASSUME seq \in Nat, NEW u \in SeqRanges, SeqBox!Handle(u)
    PROVE  /\ seqPhase = "idle" /\ seq' = seq
           /\ Moved(SeqRanges, seq, seqPhase, seqNext, seqAccepted,
                    seqPhase', seqNext', seqAccepted')
<1>1. u.start \in Int /\ u.end \in Nat
  BY RangeFacts DEF RangesOK
<1>2. seqPhase = "idle"
  BY DEF SeqBox!Handle
<1>3. CASE SeqBox!HandleIgnore(u)
  BY <1>2, <1>3 DEF SeqBox!HandleIgnore, SeqBox!NoApply, Moved
<1>4. CASE SeqBox!HandleInGap(u)
  BY <1>2, <1>4 DEF SeqBox!HandleInGap, SeqBox!NoApply, SeqBox!BeginApplyPending, Moved
<1>5. CASE SeqBox!HandleApply(u)
  <2>1. u.start = seq \/ u.end = 0
    BY <1>1, <1>5 DEF SeqBox!HandleApply, SeqBox!CheckGap, SeqBox!Count
  <2> QED
    BY <1>2, <1>5, <2>1 DEF SeqBox!HandleApply, SeqBox!BeginApplyPending, Moved
<1>6. CASE SeqBox!HandleRefetch(u)
  BY <1>2, <1>6 DEF SeqBox!HandleRefetch, SeqBox!NoApply, SeqBox!BeginApplyPending, Moved
<1> QED
  BY <1>2, <1>3, <1>4, <1>5, <1>6 DEF SeqBox!Handle

\* The scan of applyPending in the seq box.
LEMMA SeqBoxScanned ==
    ASSUME seqNext \in Nat, SeqBox!ScanNext \/ SeqBox!ScanEnd
    PROVE  /\ seqPhase = "scan" /\ seq' = seq
           /\ Moved(SeqRanges, seq, seqPhase, seqNext, seqAccepted,
                    seqPhase', seqNext', seqAccepted')
<1>1. CASE SeqBox!ScanNext
  <2>1. PICK u \in SeqBox!Earliest :
          \/ /\ SeqBox!CheckGap(seqNext, u) = "apply"
             /\ seqAccepted' = Append(seqAccepted, u)
             /\ seqNext' = u.end
          \/ UNCHANGED <<seqNext, seqAccepted>>
    BY <1>1 DEF SeqBox!ScanNext
  <2>2. u \in SeqRanges
    BY DEF SeqBox!Earliest, SeqBox!Held
  <2>3. u.start \in Int /\ u.end \in Nat
    BY <2>2, RangeFacts DEF RangesOK
  <2>4. seqPhase = "scan" /\ seqPhase' = "scan" /\ seq' = seq
    BY <1>1 DEF SeqBox!ScanNext
  <2>5. CASE UNCHANGED <<seqNext, seqAccepted>>
    BY <2>4, <2>5 DEF Moved
  <2>6. CASE /\ SeqBox!CheckGap(seqNext, u) = "apply"
             /\ seqAccepted' = Append(seqAccepted, u)
             /\ seqNext' = u.end
    <3>1. u.start = seqNext \/ u.end = 0
      BY <2>3, <2>6 DEF SeqBox!CheckGap, SeqBox!Count
    <3> QED
      BY <2>2, <2>4, <2>6, <3>1 DEF Moved
  <2> QED
    BY <2>1, <2>5, <2>6
<1>2. CASE SeqBox!ScanEnd
  BY <1>2 DEF SeqBox!ScanEnd, Moved
<1> QED
  BY <1>1, <1>2

\* What the seq box holds back is what it has been handed.
LEMMA SeqHeld ==
    ASSUME seqPending \in [SeqRanges -> Nat]
    PROVE  /\ \A u \in SeqRanges : SeqBox!Handle(u) =>
                 /\ seqPending' \in [SeqRanges -> Nat]
                 /\ \A r \in SeqRanges : seqPending'[r] > 0 => seqPending[r] > 0 \/ r = u
                 /\ seqPhase' = "idle" \/ seqAccepted' = << >> \/ seqNext' = u.end
           /\ SeqBox!ScanNext \/ SeqBox!ScanEnd =>
                 /\ seqPending' \in [SeqRanges -> Nat]
                 /\ \A r \in SeqRanges : seqPending'[r] > 0 => seqPending[r] > 0
                 /\ \/ seqAccepted' = seqAccepted /\ seqNext' \in {0, seqNext}
                    \/ \E u \in SeqRanges : seqPending[u] > 0 /\ seqNext' = u.end
           /\ \A p : LET held == SeqBox!TrimStale(p, seqPending)
                    IN /\ held \in [SeqRanges -> Nat]
                       /\ \A r \in SeqRanges : held[r] > 0 => seqPending[r] > 0
           /\ /\ SeqBox!NothingPending \in [SeqRanges -> Nat]
              /\ \A r \in SeqRanges : ~(SeqBox!NothingPending[r] > 0)
<1>1. ASSUME NEW p
      PROVE  LET held == SeqBox!TrimStale(p, seqPending)
             IN /\ held \in [SeqRanges -> Nat]
                /\ \A r \in SeqRanges : held[r] > 0 => seqPending[r] > 0
  BY DEF SeqBox!TrimStale
<1>2. ASSUME NEW u \in SeqRanges
      PROVE  LET held == SeqBox!Hold(seqPending, u)
             IN /\ held \in [SeqRanges -> Nat]
                /\ \A r \in SeqRanges : held[r] > 0 => seqPending[r] > 0 \/ r = u
  BY DEF SeqBox!Hold
<1>3. ASSUME NEW u \in SeqRanges, SeqBox!Handle(u)
      PROVE  /\ seqPending' \in [SeqRanges -> Nat]
             /\ \A r \in SeqRanges : seqPending'[r] > 0 => seqPending[r] > 0 \/ r = u
             /\ seqPhase' = "idle" \/ seqAccepted' = << >> \/ seqNext' = u.end
  <2>1. seqPhase = "idle"
    BY <1>3 DEF SeqBox!Handle
  <2>2. CASE SeqBox!HandleIgnore(u)
    BY <1>1, <2>2, <2>1 DEF SeqBox!HandleIgnore, SeqBox!NoApply
  <2>3. CASE SeqBox!HandleInGap(u)
    BY <1>2, <2>3, <2>1 DEF SeqBox!HandleInGap, SeqBox!NoApply, SeqBox!BeginApplyPending
  <2>4. CASE SeqBox!HandleApply(u)
    BY <1>2, <2>4 DEF SeqBox!HandleApply, SeqBox!BeginApplyPending
  <2>5. CASE SeqBox!HandleRefetch(u)
    BY <1>2, <2>5, <2>1 DEF SeqBox!HandleRefetch, SeqBox!NoApply, SeqBox!BeginApplyPending
  <2> QED
    BY <1>3, <2>2, <2>3, <2>4, <2>5 DEF SeqBox!Handle
<1>4. ASSUME SeqBox!ScanNext
      PROVE  /\ seqPending' \in [SeqRanges -> Nat]
             /\ \A r \in SeqRanges : seqPending'[r] > 0 => seqPending[r] > 0
             /\ \/ seqAccepted' = seqAccepted /\ seqNext' \in {0, seqNext}
                \/ \E u \in SeqRanges : seqPending[u] > 0 /\ seqNext' = u.end
  <2>1. PICK u \in SeqBox!Earliest :
          /\ seqPending' = SeqBox!Drop(seqPending, u)
          /\ \/ seqNext' = u.end
             \/ UNCHANGED <<seqNext, seqAccepted>>
    BY <1>4 DEF SeqBox!ScanNext
  <2>2. u \in SeqRanges /\ seqPending[u] > 0
    BY DEF SeqBox!Earliest, SeqBox!Held
  <2>3. /\ seqPending' \in [SeqRanges -> Nat]
        /\ \A r \in SeqRanges : seqPending'[r] > 0 => seqPending[r] > 0
    BY <2>1, <2>2 DEF SeqBox!Drop
  <2> QED
    BY <2>1, <2>2, <2>3
<1>5. ASSUME SeqBox!ScanEnd
      PROVE  seqPending' = seqPending /\ seqAccepted' = seqAccepted /\ seqNext' \in {0, seqNext}
  BY <1>5 DEF SeqBox!ScanEnd
<1>6. /\ SeqBox!NothingPending \in [SeqRanges -> Nat]
      /\ \A r \in SeqRanges : ~(SeqBox!NothingPending[r] > 0)
  BY DEF SeqBox!NothingPending
<1> QED
  BY <1>1, <1>3, <1>4, <1>5, <1>6

-----------------------------------------------------------------------------
(* The stack                                                                  *)

\* The innermost call and the calls below it.
LEMMA StackTop ==
    ASSUME NEW s \in Seq(Frames), s # << >>
    PROVE  /\ Head(s) = s[1] /\ s[1] \in Frames
           /\ Len(s) \in Nat /\ Len(s) >= 1
           /\ \A k \in 1..Len(s) : s[k] \in Frames
           /\ Tail(s) \in Seq(Frames) /\ Len(Tail(s)) = Len(s) - 1
           /\ \A k \in 1..(Len(s) - 1) : Tail(s)[k] = s[k+1]
           /\ Tail(s) = << >> <=> Len(s) = 1
<1>1. Len(s) \in Nat /\ Len(s) >= 1
  OBVIOUS
<1>2. Head(s) = s[1] /\ \A k \in 1..Len(s) : s[k] \in Frames
  BY <1>1
<1>3. Tail(s) \in Seq(Frames) /\ Len(Tail(s)) = Len(s) - 1
  BY <1>1
<1>4. \A k \in 1..(Len(s) - 1) : Tail(s)[k] = s[k+1]
  BY <1>1
<1>5. Tail(s) = << >> <=> Len(s) = 1
  <2>1. \A t \in Seq(Frames) : t = << >> <=> Len(t) = 0
    OBVIOUS
  <2> DEFINE t == Tail(s)
  <2>2. t \in Seq(Frames) /\ Len(t) = Len(s) - 1
    BY <1>3
  <2> HIDE DEF t
  <2>3. t = << >> <=> Len(s) = 1
    BY <1>1, <2>1, <2>2
  <2> QED
    BY <2>3 DEF t
<1>6. s[1] \in Frames
  BY <1>1, <1>2
<1> QED
  BY <1>1, <1>2, <1>3, <1>4, <1>5, <1>6

\* The innermost call goes on, or is replaced by another.
LEMMA Replaced ==
    ASSUME NEW s \in Seq(Frames), s # << >>, NEW f \in Frames,
           NEW t, t = <<f>> \o Tail(s)
    PROVE  /\ t \in Seq(Frames) /\ t # << >> /\ Len(t) = Len(s)
           /\ t[1] = f /\ \A k \in 2..Len(s) : t[k] = s[k]
<1>1. /\ Len(s) \in Nat /\ Len(s) >= 1
      /\ Tail(s) \in Seq(Frames) /\ Len(Tail(s)) = Len(s) - 1
      /\ \A k \in 1..(Len(s) - 1) : Tail(s)[k] = s[k+1]
  BY StackTop
<1>2. <<f>> \in Seq(Frames) /\ Len(<<f>>) = 1 /\ <<f>>[1] = f
  OBVIOUS
<1>3. t \in Seq(Frames) /\ Len(t) = Len(s)
  BY <1>1, <1>2
<1>4. t[1] = f
  BY <1>1, <1>2
<1>5. ASSUME NEW k \in 2..Len(s) PROVE t[k] = s[k]
  <2>1. t[k] = Tail(s)[k - 1]
    BY <1>1, <1>2
  <2>2. k - 1 \in 1..(Len(s) - 1) /\ (k - 1) + 1 = k
    BY <1>1
  <2> QED
    BY <1>1, <2>1, <2>2
<1>6. t # << >>
  BY <1>1, <1>3
<1> QED
  BY <1>3, <1>4, <1>5, <1>6

\* The innermost call goes on as g and calls f.
LEMMA Pushed ==
    ASSUME NEW s \in Seq(Frames), s # << >>, NEW f \in Frames, NEW g \in Frames,
           NEW t, t = <<f, g>> \o Tail(s)
    PROVE  /\ t \in Seq(Frames) /\ t # << >> /\ Len(t) = Len(s) + 1
           /\ t[1] = f /\ t[2] = g /\ \A k \in 3..Len(t) : t[k] = s[k-1]
<1>1. /\ Len(s) \in Nat /\ Len(s) >= 1
      /\ Tail(s) \in Seq(Frames) /\ Len(Tail(s)) = Len(s) - 1
      /\ \A k \in 1..(Len(s) - 1) : Tail(s)[k] = s[k+1]
  BY StackTop
<1>2. /\ <<f, g>> \in Seq(Frames) /\ Len(<<f, g>>) = 2
      /\ <<f, g>>[1] = f /\ <<f, g>>[2] = g
  OBVIOUS
<1>3. t \in Seq(Frames) /\ Len(t) = Len(s) + 1
  BY <1>1, <1>2
<1>4. t[1] = f /\ t[2] = g
  BY <1>1, <1>2
<1>5. ASSUME NEW k \in 3..Len(t) PROVE t[k] = s[k-1]
  <2>1. t[k] = Tail(s)[k - 2]
    BY <1>1, <1>2, <1>3
  <2>2. k - 2 \in 1..(Len(s) - 1) /\ (k - 2) + 1 = k - 1
    BY <1>1, <1>3
  <2> QED
    BY <1>1, <2>1, <2>2
<1>6. t # << >>
  BY <1>1, <1>3
<1> QED
  BY <1>3, <1>4, <1>5, <1>6

\* A stack of one call ...
LEMMA OneFrame ==
    ASSUME NEW f \in Frames
    PROVE  <<f>> \in Seq(Frames) /\ <<f>> # << >> /\ Len(<<f>>) = 1 /\ <<f>>[1] = f
OBVIOUS

\* ... and of two.
LEMMA TwoFrames ==
    ASSUME NEW f \in Frames, NEW g \in Frames
    PROVE  /\ <<f, g>> \in Seq(Frames) /\ <<f, g>> # << >> /\ Len(<<f, g>>) = 2
           /\ <<f, g>>[1] = f /\ <<f, g>>[2] = g
OBVIOUS

\* The kinds of frames.
LEMMA FrameKinds ==
    ASSUME NEW f \in Frames
    PROVE  /\ f.op \in {"combined", "diff", "applySeq"}
           /\ f.op = "combined" <=> f \in CombinedFrames
           /\ f.op = "diff" <=> f \in DiffFrames
           /\ f.op = "applySeq" <=> f \in ApplySeqFrames
<1>1. f \in CombinedFrames => f.op = "combined"
  BY DEF CombinedFrames
<1>2. f \in DiffFrames => f.op = "diff"
  BY DEF DiffFrames
<1>3. f \in ApplySeqFrames => f.op = "applySeq"
  BY DEF ApplySeqFrames
<1> QED
  BY <1>1, <1>2, <1>3 DEF Frames

\* What is below the innermost call.
LEMMA Below ==
    ASSUME NEW s \in Seq(Frames), s # << >>, NEW ph, Nested(s, ph)
    PROVE  /\ s[1].op = "diff" =>
                 /\ Len(s) \in {1, 2}
                 /\ Len(s) = 2 => s[2].op = "applySeq" /\ s[2].stage = "recovered"
           /\ s[1].op = "applySeq" => Len(s) = 1
           /\ s[1].op = "combined" =>
                 /\ Len(s) \in {1, 2, 3}
                 /\ s[1].seq = 0 /\ Len(s) > 1 =>
                      /\ s[2].op = "diff" /\ s[2].stage = "messages"
                      /\ ~s[1].changed /\ OthersOnly(s[1].items)
                 /\ Len(s) = 3 => s[3].op = "applySeq" /\ s[3].stage = "recovered"
<1>1. /\ Len(s) \in Nat /\ Len(s) >= 1
      /\ \A k \in 1..Len(s) : s[k] \in Frames /\ s[k].op \in {"combined", "diff", "applySeq"}
  BY StackTop, FrameKinds
<1>2. \A k \in 1..Len(s) : s[k].op = "applySeq" => s[k].stage \in {"loop", "recovered"}
  <2>1. \A f \in ApplySeqFrames : f.stage \in {"loop", "recovered"}
    BY DEF ApplySeqFrames
  <2> QED
    BY <1>1, <2>1, FrameKinds
<1>3. \A k \in 3..Len(s) : k \in 1..Len(s) /\ k # 1 /\ k # 2
  BY <1>1
<1>4. \A k \in 3..Len(s) : s[k].op = "applySeq" /\ k = Len(s) /\ s[k].stage = "recovered"
  BY <1>1, <1>2, <1>3 DEF Nested
<1>5. Len(s) >= 2 => 2 \in 1..Len(s)
  BY <1>1
<1>6. Len(s) >= 2 => s[2].op # "combined"
  BY <1>5 DEF Nested
<1>7. Len(s) >= 3 => 3 \in 3..Len(s)
  BY <1>1
<1>8. Len(s) <= 3
  BY <1>1, <1>4, <1>7
<1>9. CASE s[1].op = "diff"
  <2>1. Len(s) >= 2 => s[2].op = "applySeq"
    BY <1>1, <1>5, <1>6, <1>9 DEF Nested
  <2>2. Len(s) >= 2 => Len(s) = 2 /\ s[2].stage = "recovered"
    BY <1>1, <1>2, <1>5, <1>9, <2>1 DEF Nested
  <2>3. Len(s) \in {1, 2}
    <3>1. \A n \in Nat : n >= 1 /\ (n >= 2 => n = 2) => n \in {1, 2}
      OBVIOUS
    <3> QED
      BY <1>1, <2>2, <3>1
  <2> QED
    BY <1>9, <2>1, <2>2, <2>3
<1>10. CASE s[1].op = "applySeq"
  <2>1. 1 \in 1..Len(s)
    BY <1>1
  <2> QED
    BY <1>10, <2>1 DEF Nested
<1>11. CASE s[1].op = "combined"
  <2>1. Len(s) \in {1, 2, 3}
    <3>1. \A n \in Nat : n >= 1 /\ n <= 3 => n \in {1, 2, 3}
      OBVIOUS
    <3> QED
      BY <1>1, <1>8, <3>1
  <2>2. Len(s) = 3 => s[3].op = "applySeq" /\ s[3].stage = "recovered"
    BY <1>4, <1>7
  <2>3. s[1].seq = 0 /\ Len(s) > 1 =>
          s[2].op = "diff" /\ ~s[1].changed /\ OthersOnly(s[1].items)
    BY <1>1, <1>11 DEF Nested
  <2>4. s[1].seq = 0 /\ Len(s) > 1 => s[2].stage = "messages"
    BY <1>1, <1>5, <2>3 DEF Nested
  <2> QED
    BY <1>11, <2>1, <2>2, <2>3, <2>4
<1> QED
  BY <1>1, <1>9, <1>10, <1>11, StackTop

\* The innermost call goes on, as a call of the same kind.
LEMMA NestedReplaced ==
    ASSUME NEW s \in Seq(Frames), s # << >>, NEW ph, Nested(s, ph),
           NEW f \in Frames, f.op = s[1].op,
           f.op = "combined" =>
               /\ f.seq = s[1].seq
               /\ \/ Len(s) = 1 \/ f.seq > 0
                  \/ ~f.changed /\ OthersOnly(f.items),
           NEW t, t = <<f>> \o Tail(s)
    PROVE  Nested(t, ph)
<1>1. /\ Len(s) \in Nat /\ Len(s) >= 1
      /\ t # << >> /\ Len(t) = Len(s)
      /\ t[1] = f /\ \A k \in 2..Len(s) : t[k] = s[k]
  BY Replaced, StackTop
<1>2. \A k \in 1..Len(s) : k = 1 \/ k \in 2..Len(s)
  BY <1>1
<1>3. \A k \in 1..Len(s) : t[k].op = s[k].op /\ (k # 1 => t[k] = s[k])
  BY <1>1, <1>2
<1>4. Len(s) \in 1..Len(s) /\ 1 \in 1..Len(s) /\ (Len(s) > 1 => 2 \in 1..Len(s))
  BY <1>1
<1>5. Len(s) = 1 \/ t[2] = s[2]
  BY <1>1, <1>3, <1>4
<1>6. \A k \in 1..Len(t) :
          /\ t[k].op = "combined" => k = 1
          /\ t[k].op = "diff" =>
                k = 1 \/ (k = 2 /\ t[2].stage = "messages" /\ t[1].op = "combined")
          /\ t[k].op = "applySeq" =>
                /\ k = Len(t)
                /\ t[k].stage = "loop" => k = 1 \/ (k = 2 /\ t[1].op = "combined")
  <2> SUFFICES ASSUME NEW k \in 1..Len(s), k # 1
               PROVE  /\ t[k].op # "combined"
                      /\ t[k].op = "diff" =>
                            k = 2 /\ t[2].stage = "messages" /\ t[1].op = "combined"
                      /\ t[k].op = "applySeq" =>
                            /\ k = Len(s)
                            /\ t[k].stage = "loop" => k = 2 /\ t[1].op = "combined"
    <3>1. t[1].op = "applySeq" => 1 = Len(s)
      BY <1>1, <1>4 DEF Nested
    <3> QED
      BY <1>1, <3>1
  <2>1. t[k] = s[k] /\ t[1].op = s[1].op
    BY <1>1, <1>3
  <2>2. /\ s[k].op # "combined"
        /\ s[k].op = "diff" =>
              k = 2 /\ s[2].stage = "messages" /\ s[1].op = "combined"
        /\ s[k].op = "applySeq" =>
              /\ k = Len(s)
              /\ s[k].stage = "loop" => k = 2 /\ s[1].op = "combined"
    BY DEF Nested
  <2> QED
    BY <2>1, <2>2
<1>7. ph # "scan" /\ (ph = "apply" <=> t[Len(t)].op = "applySeq")
  BY <1>1, <1>3, <1>4 DEF Nested
<1>8. t[1].op = "combined" =>
          IF t[1].seq > 0
          THEN Len(t) = 2 /\ t[2].op = "applySeq" /\ t[2].stage = "loop"
          ELSE \/ Len(t) = 1
               \/ /\ t[2].op = "diff" /\ ~t[1].changed
                  /\ OthersOnly(t[1].items)
  BY <1>1, <1>5 DEF Nested
<1> QED
  BY <1>6, <1>7, <1>8 DEF Nested

\* A frame alone on the stack.
LEMMA NestedOne ==
    ASSUME NEW f \in Frames, NEW ph \in Phases,
           f.op = "combined" => f.seq = 0,
           IF f.op = "applySeq" THEN ph = "apply" ELSE ph = "idle",
           NEW t, Len(t) = 1, t[1] = f
    PROVE  Nested(t, ph)
<1>1. \A k \in 1..Len(t) : k = 1
  OBVIOUS
<1>2. f.op \in {"combined", "diff", "applySeq"}
  BY FrameKinds
<1> QED
  BY <1>1, <1>2 DEF Nested, Phases

\* No call runs.
LEMMA NestedEmpty == \A ph : Nested(<< >>, ph)
<1>1. \A k \in 1..Len(<< >>) : FALSE
  OBVIOUS
<1> QED
  BY <1>1 DEF Nested

\* applySeq calls applyCombined for a container.
LEMMA NestedPair ==
    ASSUME NEW c \in CombinedFrames, NEW q \in ApplySeqFrames,
           c.seq > 0, q.stage = "loop",
           NEW t, t = <<c, q>>
    PROVE  Nested(t, "apply")
<1>1. c \in Frames /\ q \in Frames /\ c.op = "combined" /\ q.op = "applySeq"
  BY DEF Frames, CombinedFrames, ApplySeqFrames
<1>2. t # << >> /\ Len(t) = 2 /\ t[1] = c /\ t[2] = q
  BY <1>1, TwoFrames
<1>3. \A k \in 1..Len(t) : k = 1 \/ k = 2
  BY <1>2
<1> QED
  BY <1>1, <1>2, <1>3 DEF Nested

\* applySeq calls getDifference at its end.
LEMMA NestedRecover ==
    ASSUME NEW d \in DiffFrames, NEW q \in ApplySeqFrames,
           q.stage = "recovered",
           NEW t, t = <<d, q>>
    PROVE  Nested(t, "apply")
<1>1. d \in Frames /\ q \in Frames /\ d.op = "diff" /\ q.op = "applySeq"
  BY DEF Frames, DiffFrames, ApplySeqFrames
<1>2. t # << >> /\ Len(t) = 2 /\ t[1] = d /\ t[2] = q
  BY <1>1, TwoFrames
<1>3. \A k \in 1..Len(t) : k = 1 \/ k = 2
  BY <1>2
<1> QED
  BY <1>1, <1>2, <1>3 DEF Nested

\* getDifference calls applyCombined for the other updates of its answer.
LEMMA NestedPushed ==
    ASSUME NEW s \in Seq(Frames), s # << >>, NEW ph, Nested(s, ph), s[1].op = "diff",
           NEW c \in CombinedFrames, NEW d \in DiffFrames, d.stage = "messages",
           c.seq = 0, ~c.changed, OthersOnly(c.items),
           NEW t, t = <<c, d>> \o Tail(s)
    PROVE  Nested(t, ph)
<1>1. c \in Frames /\ d \in Frames /\ c.op = "combined" /\ d.op = "diff"
  BY DEF Frames, CombinedFrames, DiffFrames
<1>2. /\ t # << >> /\ Len(t) = Len(s) + 1
      /\ t[1] = c /\ t[2] = d /\ \A k \in 3..Len(t) : t[k] = s[k-1]
  BY <1>1, Pushed
<1>3. /\ Len(s) \in {1, 2}
      /\ Len(s) = 2 => s[2].op = "applySeq" /\ s[2].stage = "recovered"
  BY Below
<1>4. CASE Len(s) = 1
  <2>1. Len(t) = 2 /\ \A k \in 1..Len(t) : k = 1 \/ k = 2
    BY <1>2, <1>4
  <2>2. ph # "scan" /\ ph # "apply"
    BY <1>4 DEF Nested
  <2> QED
    BY <1>1, <1>2, <2>1, <2>2 DEF Nested
<1>5. CASE Len(s) = 2
  <2>1. Len(t) = 3 /\ \A k \in 1..Len(t) : k = 1 \/ k = 2 \/ k = 3
    BY <1>2, <1>5
  <2>2. 3 \in 3..Len(t) /\ 3 - 1 = 2
    BY <2>1
  <2>3. t[3] = s[2]
    BY <1>2, <2>2
  <2>4. ph = "apply"
    BY <1>3, <1>5 DEF Nested
  <2> QED
    BY <1>1, <1>2, <1>3, <1>5, <2>1, <2>3, <2>4 DEF Nested
<1> QED
  BY <1>3, <1>4, <1>5

\* getDifference, or applyCombined without a seq, returns.
LEMMA NestedPopped ==
    ASSUME NEW s \in Seq(Frames), s # << >>, NEW ph, Nested(s, ph),
           s[1].op = "diff" \/ (s[1].op = "combined" /\ s[1].seq = 0),
           NEW t, t = Tail(s)
    PROVE  Nested(t, ph)
<1>1. /\ Len(s) \in Nat /\ Len(s) >= 1
      /\ t \in Seq(Frames) /\ Len(t) = Len(s) - 1
      /\ \A k \in 1..(Len(s) - 1) : t[k] = s[k+1]
      /\ t = << >> <=> Len(s) = 1
  BY StackTop
<1>2. CASE Len(s) = 1
  <2>1. t = << >>
    BY <1>1, <1>2
  <2> QED
    BY <2>1, NestedEmpty
<1>3. CASE s[1].op = "diff" /\ Len(s) # 1
  <2>1. Len(s) = 2 /\ s[2].op = "applySeq" /\ s[2].stage = "recovered"
    BY <1>3, Below
  <2>2. Len(t) = 1 /\ t[1] = s[2] /\ \A k \in 1..Len(t) : k = 1
    BY <1>1, <2>1
  <2>3. ph = "apply"
    BY <2>1 DEF Nested
  <2>4. Nested(t, ph)
    BY <2>1, <2>2, <2>3 DEF Nested
  <2> QED
    BY <2>4
<1>4. CASE s[1].op = "combined" /\ Len(s) = 2
  <2>1. Len(s) > 1 /\ s[1].seq = 0
    BY <1>4
  <2>2. s[2].op = "diff" /\ s[2].stage = "messages"
    BY <1>4, <2>1, Below
  <2>3. Len(t) = 1 /\ t[1] = s[2] /\ \A k \in 1..Len(t) : k = 1
    BY <1>1, <1>4
  <2>4. ph # "apply" /\ ph # "scan"
    BY <1>4, <2>2 DEF Nested
  <2>5. Nested(t, ph)
    BY <2>2, <2>3, <2>4 DEF Nested
  <2> QED
    BY <2>5
<1>5. CASE s[1].op = "combined" /\ Len(s) = 3
  <2>1. Len(s) > 1 /\ s[1].seq = 0
    BY <1>5
  <2>2. /\ s[2].op = "diff" /\ s[2].stage = "messages"
        /\ s[3].op = "applySeq" /\ s[3].stage = "recovered"
    BY <1>5, <2>1, Below
  <2>3. Len(t) = 2 /\ 1 \in 1..(Len(s) - 1) /\ 2 \in 1..(Len(s) - 1) /\ 1 + 1 = 2 /\ 2 + 1 = 3
    BY <1>1, <1>5
  <2>4. Len(t) = 2 /\ t[1] = s[2] /\ t[2] = s[3] /\ \A k \in 1..Len(t) : k = 1 \/ k = 2
    BY <1>1, <2>3
  <2>5. ph = "apply"
    BY <1>5, <2>2 DEF Nested
  <2>6. Nested(t, ph)
    BY <2>2, <2>4, <2>5 DEF Nested
  <2> QED
    BY <2>6
<1> QED
  BY <1>2, <1>3, <1>4, <1>5, Below

-----------------------------------------------------------------------------
(* Steps of one call                                                          *)

PtsSame == UNCHANGED <<pts, ptsPhase, ptsNext, ptsAccepted>>
QtsSame == UNCHANGED <<qts, qtsPhase, qtsNext, qtsAccepted>>
SeqSame == UNCHANGED <<seq, seqPending, seqPhase, seqNext, seqAccepted>>

\* What is settled stays settled.
LEMMA CoverGrows ==
    ASSUME NEW S, NEW T, S \subseteq T
    PROVE  /\ \A p : CoveredPts(S, p) => CoveredPts(T, p)
           /\ \A p : CoveredQts(S, p) => CoveredQts(T, p)
           /\ \A n : CoveredSeq(S, n) => CoveredSeq(T, n)
BY DEF CoveredPts, CoveredQts, CoveredSeq

\* What is settled, or runs, may grow under an answer.
LEMMA AnsweredGrows ==
    ASSUME NEW d, NEW R, NEW R2, NEW S, NEW T, NEW n, S \subseteq T,
           R \cap Counted \subseteq R2 \cup T,
           Answered(d, R, S, n)
    PROVE  Answered(d, R2, T, n)
BY DEF Answered

\* The frames below the innermost one keep what the invariant says of them.
LEMMA BelowKept ==
    ASSUME Inv, stack # << >>, settled \subseteq settled',
           UNCHANGED <<seqNext, sent>>,
           NEW k \in 2..Len(stack)
    PROVE  /\ stack[k].op = "applySeq" =>
                 /\ Chain(stack[k].todo, Cursor(stack[k].todo, seqNext'), seqNext')
                 /\ stack[k].stage = "recovered" => CoveredSeq(settled', seqNext')
           /\ stack[k].op = "diff" =>
                 k = 2 /\ Answered(stack[k], stack[1].items, settled', sent')
           /\ stack[k].op # "combined"
<1>1. k \in 1..Len(stack) /\ k # 1
  BY StackTop DEF Inv, Typed
<1>2. CASE stack[k].op = "applySeq"
  BY <1>1, <1>2, CoverGrows DEF Inv, SeqLoop
<1>3. CASE stack[k].op = "diff"
  <2>1. k = 2
    BY <1>1, <1>3 DEF Inv, Nested
  <2>2. Answered(stack[k], stack[1].items, settled, sent)
    BY <1>1, <1>3, <2>1 DEF Inv, Differences
  <2>3. Answered(stack[k], stack[1].items, settled', sent)
    BY <2>2, AnsweredGrows
  <2> QED
    BY <1>3, <2>1, <2>3
<1>4. stack[k].op # "combined"
  BY <1>1 DEF Inv, Nested
<1> QED
  BY <1>2, <1>3, <1>4

\* What is handled stays so: the storage keeps its excuse.
LEMMA QtsKeptGrows ==
    ASSUME NEW q, NEW p, NEW S, NEW T, S \subseteq T, QtsKept(q, p, S)
    PROVE  QtsKept(q, p, T)
BY DEF QtsKept, Rewound

\* Nothing but the innermost applyCombined changes.
LEMMA CombinedStep ==
    ASSUME Inv, stack # << >>, stack[1].op = "combined",
           NEW f \in CombinedFrames, stack' = <<f>> \o Tail(stack),
           f.seq = stack[1].seq, f.items \subseteq stack[1].items,
           stack[1].items \cap Counted \subseteq f.items,
           f.changed = stack[1].changed \/ \E x \in stack[1].items : x.kind = "changed",
           settled \subseteq settled', SeqSame, UNCHANGED <<up, origin, sent, unsaved>>
    PROVE  /\ stack' \in Seq(Frames) /\ stack' # << >> /\ stack'[1] = f /\ f.op = "combined"
           /\ Nested(stack, seqPhase)' /\ SeqBatch' /\ SeqLoop' /\ Differences' /\ Down' /\ up
           /\ f.seq > 0 =>
                /\ \A i \in Containers : Sent[i].seq = f.seq =>
                      Sent[i].items \cap Counted \subseteq f.items
                /\ \E r \in SeqRanges : r.start = seq' /\ r.end = f.seq
                /\ Cursor(stack'[2].todo, seqNext') = f.seq
<1>1. stack \in Seq(Frames) /\ Nested(stack, seqPhase) /\ f \in Frames /\ f.op = "combined"
  BY DEF Inv, Typed, Frames, CombinedFrames
<1>2. /\ stack' \in Seq(Frames) /\ stack' # << >> /\ Len(stack') = Len(stack)
      /\ stack'[1] = f /\ \A k \in 2..Len(stack) : stack'[k] = stack[k]
  BY <1>1, Replaced
<1>3. /\ Len(stack) \in Nat /\ Len(stack) >= 1
      /\ \A k \in 1..Len(stack) : k = 1 \/ k \in 2..Len(stack)
  BY <1>1, StackTop
<1>4. Nested(stack', seqPhase')
  <2>1. \/ Len(stack) = 1 \/ f.seq > 0
        \/ ~f.changed /\ OthersOnly(f.items)
    <3>1. f.seq \in Nat /\ f.changed \in BOOLEAN
      BY DEF CombinedFrames
    <3>2. Len(stack) # 1 => Len(stack) > 1
      BY <1>3
    <3>3. f.seq = 0 \/ f.seq > 0
      BY <3>1
    <3>4. Len(stack) # 1 /\ f.seq = 0 =>
             ~stack[1].changed /\ OthersOnly(stack[1].items)
      BY <1>1, <3>2, Below
    <3>5. OthersOnly(stack[1].items) => OthersOnly(f.items)
      BY DEF OthersOnly
    <3>6. OthersOnly(stack[1].items) => \A x \in stack[1].items : x.kind # "changed"
      BY DEF OthersOnly, Others
    <3> QED
      BY <3>1, <3>3, <3>4, <3>5, <3>6
  <2>2. seqPhase' = seqPhase
    BY DEF SeqSame
  <2> QED
    BY <1>1, <2>1, <2>2, NestedReplaced
<1>5. up
  BY DEF Inv, Down
<1>6. SeqBatch'
  BY <1>2 DEF Inv, SeqBatch, SeqSame
<1>7. SeqLoop'
  <2> SUFFICES ASSUME NEW k \in 2..Len(stack), stack[k].op = "applySeq"
               PROVE  /\ Chain(stack[k].todo, Cursor(stack[k].todo, seqNext'), seqNext')
                      /\ stack[k].stage = "recovered" => CoveredSeq(settled', seqNext')
    BY <1>1, <1>2, <1>3 DEF SeqLoop
  <2> QED
    BY BelowKept DEF SeqSame
<1>8. Differences'
  <2> SUFFICES ASSUME NEW k \in 2..Len(stack), stack[k].op = "diff"
               PROVE  k = 2 /\ Answered(stack[k], f.items, settled', sent')
    BY <1>1, <1>2, <1>3 DEF Differences
  <2>1. k = 2 /\ Answered(stack[k], stack[1].items, settled', sent')
    BY BelowKept DEF SeqSame
  <2>2. stack[1].items \cap Counted \subseteq f.items \cup settled'
    OBVIOUS
  <2> QED
    BY <2>1, <2>2, AnsweredGrows
<1>9. f.seq > 0 =>
        /\ \A i \in Containers : Sent[i].seq = f.seq =>
              Sent[i].items \cap Counted \subseteq f.items
        /\ \E r \in SeqRanges : r.start = seq' /\ r.end = f.seq
        /\ Cursor(stack'[2].todo, seqNext') = f.seq
  <2> SUFFICES ASSUME f.seq > 0
               PROVE  /\ \A i \in Containers : Sent[i].seq = f.seq =>
                            Sent[i].items \cap Counted \subseteq f.items
                      /\ \E r \in SeqRanges : r.start = seq' /\ r.end = f.seq
                      /\ Cursor(stack'[2].todo, seqNext') = f.seq
    OBVIOUS
  <2>1. Len(stack) = 2
    BY <1>1 DEF Nested
  <2>2. stack'[2] = stack[2]
    BY <1>2, <2>1
  <2>3. /\ \A i \in Containers : Sent[i].seq = f.seq =>
              Sent[i].items \cap Counted \subseteq stack[1].items
        /\ \E r \in SeqRanges : r.start = seq /\ r.end = f.seq
        /\ Cursor(stack[2].todo, seqNext) = f.seq
    BY DEF Inv, CombinedLoop
  <2>4. \A i \in Containers : Sent[i].seq = f.seq =>
            Sent[i].items \cap Counted \subseteq f.items
    BY <2>3
  <2> QED
    BY <2>2, <2>3, <2>4 DEF SeqSame
<1> QED
  BY <1>1, <1>2, <1>4, <1>5, <1>6, <1>7, <1>8, <1>9 DEF Down

\* Nothing but the innermost getDifference changes, apart from the counters.
LEMMA DiffStep ==
    ASSUME Inv, stack # << >>, stack[1].op = "diff",
           NEW f \in DiffFrames, stack' = <<f>> \o Tail(stack),
           settled \subseteq settled', Answered(f, {}, settled', sent),
           \A r \in SeqRanges : seqPending'[r] > 0 => seqPending[r] > 0,
           UNCHANGED <<ptsPhase, qtsPhase, seqPhase, seqNext, seqAccepted,
                       up, origin, sent>>
    PROVE  /\ stack' \in Seq(Frames)
           /\ Nested(stack, seqPhase)' /\ Busy' /\ SeqBatch' /\ SeqLoop'
           /\ CombinedLoop' /\ Differences' /\ Down' /\ up
<1>1. stack \in Seq(Frames) /\ Nested(stack, seqPhase) /\ f \in Frames /\ f.op = "diff"
  BY DEF Inv, Typed, Frames, DiffFrames
<1>2. /\ stack' \in Seq(Frames) /\ stack' # << >> /\ Len(stack') = Len(stack)
      /\ stack'[1] = f /\ \A k \in 2..Len(stack) : stack'[k] = stack[k]
  BY <1>1, Replaced
<1>3. /\ Len(stack) \in Nat /\ Len(stack) >= 1
      /\ \A k \in 1..Len(stack) : k = 1 \/ k \in 2..Len(stack)
  BY <1>1, StackTop
<1>4. Nested(stack', seqPhase')
  BY <1>1, NestedReplaced
<1>5. up /\ ptsPhase = "idle" /\ qtsPhase = "idle"
  BY DEF Inv, Down, Busy, InLoop
<1>6. SeqBatch'
  BY <1>2 DEF Inv, SeqBatch
<1>7. SeqLoop'
  <2> SUFFICES ASSUME NEW k \in 2..Len(stack), stack[k].op = "applySeq"
               PROVE  /\ Chain(stack[k].todo, Cursor(stack[k].todo, seqNext'), seqNext')
                      /\ stack[k].stage = "recovered" => CoveredSeq(settled', seqNext')
    BY <1>1, <1>2, <1>3 DEF SeqLoop
  <2> QED
    BY BelowKept
<1>8. Differences'
  <2>1. \A k \in 2..Len(stack) : stack[k].op # "diff"
    BY <1>1, <1>3 DEF Nested
  <2> QED
    BY <1>2, <1>3, <2>1 DEF Differences
<1>9. CombinedLoop' /\ Busy'
  BY <1>1, <1>2, <1>5 DEF CombinedLoop, Busy, BatchOK
<1> QED
  BY <1>2, <1>4, <1>5, <1>6, <1>7, <1>8, <1>9 DEF Down

\* getDifference returns.
LEMMA DiffReturn ==
    ASSUME Inv, stack # << >>, stack[1].op = "diff", stack' = Tail(stack),
           settled \subseteq settled',
           ~unsaved' => stored' \in State /\ ServerState(sent).seq <= stored'.seq,
           \A r \in SeqRanges : seqPending'[r] > 0 => seqPending[r] > 0,
           UNCHANGED <<ptsPhase, qtsPhase, seqPhase, seqNext, seqAccepted,
                       up, origin, sent>>
    PROVE  /\ stack' \in Seq(Frames)
           /\ Nested(stack, seqPhase)' /\ Busy' /\ SeqBatch' /\ SeqLoop'
           /\ CombinedLoop' /\ Differences' /\ Down' /\ up
<1>1. /\ stack \in Seq(Frames) /\ Nested(stack, seqPhase)
      /\ stack[1].op = "diff" \/ (stack[1].op = "combined" /\ stack[1].seq = 0)
  BY DEF Inv, Typed
<1>2. Nested(stack', seqPhase)
  BY <1>1, NestedPopped
<1>3. /\ stack' \in Seq(Frames) /\ Len(stack') = Len(stack) - 1
      /\ stack' = << >> <=> Len(stack) = 1
      /\ \A k \in 1..(Len(stack) - 1) : stack'[k] = stack[k+1]
  BY <1>1, StackTop
<1>4. /\ Len(stack) \in {1, 2}
      /\ Len(stack) = 2 => stack[2].op = "applySeq" /\ stack[2].stage = "recovered"
  BY <1>1, Below
<1>5. up /\ ptsPhase = "idle" /\ qtsPhase = "idle"
  BY DEF Inv, Down, Busy, InLoop
<1>6. CASE Len(stack) = 1
  <2>1. stack' = << >> /\ \A k \in 1..Len(stack') : FALSE
    BY <1>3, <1>6
  <2>2. seqPhase = "idle"
    <3>1. stack[1].op # "applySeq"
      OBVIOUS
    <3> QED
      BY <1>1, <1>6, <3>1 DEF Nested, Inv, Typed, Phases
  <2> QED
    BY <1>3, <1>5, <1>2, <2>1, <2>2
    DEF Inv, Busy, BatchOK, SeqBatch, SeqLoop, CombinedLoop, Differences, Down
<1>7. CASE Len(stack) = 2
  <2>1. /\ Len(stack') = 1 /\ stack' # << >> /\ stack'[1] = stack[2]
        /\ \A k \in 1..Len(stack') : k = 1
    BY <1>3, <1>7
  <2>2. 2 \in 2..Len(stack)
    BY <1>7
  <2>3. /\ Chain(stack[2].todo, Cursor(stack[2].todo, seqNext'), seqNext')
        /\ CoveredSeq(settled', seqNext')
    BY <1>4, <1>7, <2>2, BelowKept
  <2>4. seqPhase = "apply"
    BY <1>1, <1>4, <1>7 DEF Nested
  <2>5. seqNext <= ServerState(sent).seq /\ seqNext \in Nat /\ ServerState(sent).seq \in Nat
    BY <2>4, ServerFacts DEF Inv, SeqBatch, Typed, State
  <2>6. ~unsaved' => seqNext' <= stored'.seq
    BY <2>5 DEF State
  <2>7. SeqLoop'
    BY <1>4, <1>7, <2>1, <2>3, <2>6 DEF SeqLoop
  <2>8. SeqBatch'
    BY <2>1 DEF Inv, SeqBatch
  <2>9. Busy' /\ CombinedLoop' /\ Differences' /\ Down'
    BY <1>4, <1>5, <1>7, <2>1 DEF Busy, BatchOK, CombinedLoop, Differences, Down
  <2> QED
    BY <1>3, <1>5, <1>2, <2>7, <2>8, <2>9
<1> QED
  BY <1>4, <1>6, <1>7

-----------------------------------------------------------------------------
(* The server, the start and the end of the worker                            *)

\* A step that changes nothing.
LEMMA StutterInv ==
    ASSUME Inv, UNCHANGED vars
    PROVE  Inv'
<1>1. /\ PtsSame /\ QtsSame /\ SeqSame
      /\ UNCHANGED <<date, up, origin, stack, stored, sent, unsaved, settled>>
  BY DEF vars, boxes, ptsBox, qtsBox, seqBox, worker, network, history,
         PtsSame, QtsSame, SeqSame
<1>2. Typed' /\ Nested(stack, seqPhase)'
  BY <1>1 DEF Inv, Typed, PtsSame, QtsSame, SeqSame
<1>3. Busy'
  BY <1>1 DEF Inv, Busy, InLoop, PtsSame, QtsSame
<1>4. SeqBatch' /\ SeqLoop'
  BY <1>1 DEF Inv, SeqBatch, SeqLoop, SeqSame
<1>5. CombinedLoop'
  BY <1>1 DEF Inv, CombinedLoop, PtsSame, QtsSame, SeqSame
<1>6. Differences' /\ Down' /\ Synced' /\ Covered'
  BY <1>1 DEF Inv, Differences, Down, Synced, Covered, PtsSame, QtsSame, SeqSame
<1> QED
  BY <1>2, <1>3, <1>4, <1>5, <1>6 DEF Inv

\* The server sends a container: its seq does not fall, and no answer is being
\* processed.
LEMMA ServerSendInv ==
    ASSUME Inv, ServerSend
    PROVE  Inv'
<1>1. /\ PtsSame /\ QtsSame /\ SeqSame
      /\ UNCHANGED <<date, up, origin, stack, stored, unsaved, settled>>
      /\ sent < Len(Sent) /\ sent' = sent + 1
      /\ stack # << >> => Head(stack).stage = "request"
  BY DEF ServerSend, boxes, ptsBox, qtsBox, seqBox, worker, network, history,
         PtsSame, QtsSame, SeqSame
<1>2. sent \in 0..Len(Sent) /\ sent' \in 0..Len(Sent) /\ sent <= sent'
  BY <1>1, SentFacts DEF Inv, Typed
<1>3. /\ ServerState(sent).seq <= ServerState(sent').seq
      /\ ServerState(sent).seq \in Nat /\ ServerState(sent').seq \in Nat
  BY <1>2, SeqGrows, ServerFacts DEF State
<1>4. Typed' /\ Nested(stack, seqPhase)'
  BY <1>1, <1>2 DEF Inv, Typed, PtsSame, QtsSame, SeqSame
<1>5. Busy'
  BY <1>1 DEF Inv, Busy, InLoop, PtsSame, QtsSame
<1>6. SeqBatch'
  <2>1. \A r \in SeqRanges : r.end \in Nat
    BY RangeFacts DEF RangesOK
  <2>2. \A r \in SeqRanges : seqPending'[r] > 0 => r.end <= ServerState(sent').seq
    BY <1>1, <1>3, <2>1 DEF Inv, SeqBatch, SeqSame
  <2>3. seqNext \in Nat
    BY DEF Inv, Typed
  <2> QED
    BY <1>1, <1>3, <2>2, <2>3 DEF Inv, SeqBatch, SeqSame
<1>7. SeqLoop' /\ CombinedLoop'
  BY <1>1 DEF Inv, SeqLoop, CombinedLoop, PtsSame, QtsSame, SeqSame
<1>8. Differences'
  <2> SUFFICES ASSUME NEW k \in 1..Len(stack), stack[k].op = "diff"
               PROVE  Answered(stack[k], IF k = 2 THEN stack[1].items ELSE {}, settled, sent')
    BY <1>1 DEF Differences
  <2>1. stack # << >>
    OBVIOUS
  <2>2. stack[1].stage = "request" /\ stack[1] \in Frames
    BY <1>1, <2>1, StackTop DEF Inv, Typed
  <2>3. stack[1].op # "combined"
    <3>1. \A c \in CombinedFrames : c.stage # "request"
      BY DEF CombinedFrames
    <3> QED
      BY <2>2, <3>1, FrameKinds
  <2>4. k = 1
    BY <2>3 DEF Inv, Nested
  <2>5. Answered(stack[1], {}, settled, sent)
    BY <2>4 DEF Inv, Differences
  <2>6. Answered(stack[1], {}, settled, sent')
    BY <2>2, <2>5 DEF Answered
  <2> QED
    BY <2>4, <2>6
<1>9. Down' /\ Synced' /\ Covered'
  BY <1>1 DEF Inv, Down, Synced, Covered, PtsSame, QtsSame, SeqSame
<1> QED
  BY <1>4, <1>5, <1>6, <1>7, <1>8, <1>9 DEF Inv

\* Nothing ends by 0.
LEMMA ZeroCovered == \A S : CoveredPts(S, 0) /\ CoveredQts(S, 0) /\ CoveredSeq(S, 0)
<1>1. \A x \in Counted : x.end \in Nat /\ x.end > 0
  BY ItemFacts
<1>2. \A i \in Containers : Sent[i].seq \in Nat
  BY InternalConstants
<1> QED
  BY <1>1, <1>2 DEF CoveredPts, CoveredQts, CoveredSeq

\* An empty batch.
LEMMA EmptyAccepted ==
    << >> \in Seq(PtsRanges) /\ << >> \in Seq(QtsRanges) /\ << >> \in Seq(SeqRanges)
OBVIOUS

\* A getDifference that has not asked yet owes nothing.
LEMMA NewDifference ==
    /\ GetDifference \in DiffFrames /\ GetDifference \in Frames
    /\ GetDifference.op = "diff" /\ GetDifference.stage = "request"
    /\ \A S, n : Answered(GetDifference, {}, S, n)
<1>1. /\ GetDifference \in DiffFrames /\ GetDifference \in Frames
      /\ GetDifference.op = "diff" /\ GetDifference.stage = "request"
  BY SentFacts DEF GetDifference, DiffFrame, DiffFrames, Frames
<1> QED
  BY <1>1 DEF Answered

\* New boxes, and a worker with at most one call that is about to begin.
LEMMA RenewedInv ==
    ASSUME NEW p \in Nat, NEW q \in Nat, NEW n \in Nat,
           Pts!RenewBox(p), Qts!RenewBox(q), SeqBox!RenewBox(n),
           date' \in Nat, up' \in BOOLEAN, origin' \in {"queue", "timer"},
           stored' \in State \cup {NoneStored}, sent' \in 0..Len(Sent), unsaved' \in BOOLEAN,
           stack' = << >> \/ (up' /\ stack' = <<GetDifference>>),
           seqPending \in [SeqRanges -> Nat]
    PROVE  /\ Typed' /\ Nested(stack, seqPhase)' /\ Busy' /\ SeqBatch' /\ SeqLoop'
           /\ CombinedLoop' /\ Differences' /\ Down'
           /\ pts' = p /\ qts' = q /\ seq' = n
<1>1. /\ pts' = p /\ ptsPhase' = "idle" /\ ptsNext' = 0 /\ ptsAccepted' = << >>
      /\ qts' = q /\ qtsPhase' = "idle" /\ qtsNext' = 0 /\ qtsAccepted' = << >>
      /\ seq' = n /\ seqPhase' = "idle" /\ seqNext' = 0 /\ seqAccepted' = << >>
      /\ seqPending' = SeqBox!NothingPending
  BY DEF Pts!RenewBox, Qts!RenewBox, SeqBox!RenewBox
<1>2. /\ SeqBox!NothingPending \in [SeqRanges -> Nat]
      /\ \A r \in SeqRanges : ~(SeqBox!NothingPending[r] > 0)
  BY SeqHeld
<1>3. /\ GetDifference \in DiffFrames /\ GetDifference \in Frames
      /\ GetDifference.op = "diff" /\ GetDifference.stage = "request"
  BY NewDifference
<1>4. stack' \in Seq(Frames)
  <2>1. << >> \in Seq(Frames) /\ <<GetDifference>> \in Seq(Frames)
    BY <1>3, OneFrame
  <2> QED
    BY <2>1
<1>5. Typed'
  BY <1>1, <1>2, <1>4, EmptyAccepted DEF Typed, Phases
<1>6. Busy' /\ SeqBatch' /\ Down'
  BY <1>1, <1>2 DEF Busy, BatchOK, SeqBatch, Down
<1>7. CASE stack' = << >>
  <2>1. \A k \in 1..Len(stack') : FALSE
    BY <1>7
  <2> QED
    BY <1>1, <1>5, <1>6, <1>7, <2>1, NestedEmpty DEF SeqLoop, CombinedLoop, Differences
<1>8. CASE stack' = <<GetDifference>>
  <2>1. Len(stack') = 1 /\ stack'[1] = GetDifference /\ stack' # << >>
    BY <1>3, <1>8, OneFrame
  <2>2. \A k \in 1..Len(stack') : k = 1
    BY <2>1
  <2>3. Nested(stack', seqPhase')
    BY <1>1, <1>3, <2>1, NestedOne DEF Phases
  <2>4. Answered(GetDifference, {}, settled', sent')
    BY NewDifference
  <2> QED
    BY <1>1, <1>3, <1>5, <1>6, <2>1, <2>2, <2>3, <2>4 DEF SeqLoop, CombinedLoop, Differences
<1> QED
  BY <1>7, <1>8

\* Run ends: what is stored stays covered, and there is no memory to cover.
LEMMA DieInv ==
    ASSUME Inv, Die, UNCHANGED <<stored, sent, unsaved, settled>>
    PROVE  Inv'
<1>1. /\ Pts!RenewBox(0) /\ Qts!RenewBox(0) /\ SeqBox!RenewBox(0)
      /\ date' = 0 /\ up' = FALSE /\ origin' = "timer" /\ stack' = << >>
  BY DEF Die
<1>2. /\ stored' \in State \cup {NoneStored} /\ sent' \in 0..Len(Sent)
      /\ unsaved' \in BOOLEAN /\ seqPending \in [SeqRanges -> Nat]
  BY DEF Inv, Typed
<1>3. /\ Typed' /\ Nested(stack, seqPhase)' /\ Busy' /\ SeqBatch' /\ SeqLoop'
      /\ CombinedLoop' /\ Differences' /\ Down'
      /\ pts' = 0 /\ qts' = 0 /\ seq' = 0
  BY <1>1, <1>2, RenewedInv
<1>4. Synced' /\ Covered'
  BY <1>1, <1>3, ZeroCovered DEF Inv, Synced, Covered
<1> QED
  BY <1>3, <1>4 DEF Inv

\* A start takes the stored State, which is covered; a first start takes the
\* server's, and settles what lies before it.
LEMMA StartInv ==
    ASSUME Inv, Start
    PROVE  Inv'
<1> DEFINE fresh == stored = NoneStored
           to == IF fresh THEN ServerState(sent) ELSE stored
<1>1. /\ Pts!RenewBox(to.pts) /\ Qts!RenewBox(to.qts) /\ SeqBox!RenewBox(to.seq)
      /\ date' = to.date /\ stored' = to
      /\ settled' = settled \cup (IF fresh THEN SentItems(sent) \cap Numbered ELSE {})
      /\ up' = TRUE /\ origin' = "timer" /\ stack' = <<GetDifference>>
      /\ unsaved' = FALSE /\ sent' = sent
  BY DEF Start, network
<1>2. sent \in 0..Len(Sent) /\ stored \in State \cup {NoneStored}
  BY DEF Inv, Typed
<1>3. to \in State
  BY <1>2, ServerFacts
<1>4. to.pts \in Nat /\ to.qts \in Nat /\ to.seq \in Nat /\ to.date \in Nat
  BY <1>3 DEF State
<1>5. CoveredPts(settled', to.pts) /\ CoveredQts(settled', to.qts) /\ CoveredSeq(settled', to.seq)
  <2>1. CASE fresh
    <3>1. SentItems(sent) \cap Numbered \subseteq settled' /\ to = ServerState(sent)
      BY <1>1, <2>1
    <3>2. \A i \in 1..sent : Sent[i].items \subseteq SentItems(sent)
      BY <1>2, SentFacts
    <3>3. CoveredPts(settled', to.pts) /\ CoveredQts(settled', to.qts)
      BY <1>2, <3>1, ServerFacts, ItemFacts DEF CoveredPts, CoveredQts
    <3>4. CoveredSeq(settled', to.seq)
      BY <1>2, <3>1, <3>2, ServerFacts, ItemFacts DEF CoveredSeq
    <3> QED
      BY <3>3, <3>4
  <2>2. CASE ~fresh
    BY <1>1, <2>2 DEF Inv, Covered
  <2> QED
    BY <2>1, <2>2
<1> HIDE DEF to
<1>6. /\ date' \in Nat /\ up' \in BOOLEAN /\ origin' \in {"queue", "timer"}
      /\ stored' \in State \cup {NoneStored} /\ sent' \in 0..Len(Sent)
      /\ unsaved' \in BOOLEAN /\ seqPending \in [SeqRanges -> Nat]
      /\ up' /\ stack' = <<GetDifference>>
  BY <1>1, <1>2, <1>3, <1>4 DEF Inv, Typed
<1>7. /\ Typed' /\ Nested(stack, seqPhase)' /\ Busy' /\ SeqBatch' /\ SeqLoop'
      /\ CombinedLoop' /\ Differences' /\ Down'
      /\ pts' = to.pts /\ qts' = to.qts /\ seq' = to.seq
  BY <1>1, <1>4, <1>6, RenewedInv
<1>8. Synced' /\ Covered'
  BY <1>1, <1>3, <1>4, <1>5, <1>7 DEF Synced, Covered, QtsKept
<1> QED
  BY <1>7, <1>8 DEF Inv

\* An error ends the call of the worker.
LEMMA FailInv ==
    ASSUME Inv, Fail, ptsPhase # "scan", qtsPhase # "scan", stack # << >>,
           UNCHANGED <<stored, sent, unsaved, settled>>
    PROVE  Inv'
<1>1. CASE origin = "queue" /\ Die
  BY <1>1, DieInv
<1>2. CASE /\ origin = "timer"
           /\ stack' = << >>
           /\ IF ptsPhase = "apply" THEN Pts!ApplyError ELSE UNCHANGED ptsBox
           /\ IF qtsPhase = "apply" THEN Qts!ApplyError ELSE UNCHANGED qtsBox
           /\ UNCHANGED <<seqBox, date, up, origin>>
  <2>1. /\ pts' = pts /\ ptsPhase' = "idle" /\ ptsNext' \in Nat /\ ptsAccepted' \in Seq(PtsRanges)
    <3>1. ptsPhase \in Phases /\ ptsNext \in Nat /\ ptsAccepted \in Seq(PtsRanges)
      BY DEF Inv, Typed
    <3>2. CASE ptsPhase = "apply"
      BY <1>2, <3>2, EmptyAccepted DEF Pts!ApplyError
    <3>3. CASE ptsPhase # "apply"
      BY <1>2, <3>1, <3>3 DEF Phases, ptsBox
    <3> QED
      BY <3>2, <3>3
  <2>2. /\ qts' = qts /\ qtsPhase' = "idle" /\ qtsNext' \in Nat /\ qtsAccepted' \in Seq(QtsRanges)
    <3>1. qtsPhase \in Phases /\ qtsNext \in Nat /\ qtsAccepted \in Seq(QtsRanges)
      BY DEF Inv, Typed
    <3>2. CASE qtsPhase = "apply"
      BY <1>2, <3>2, EmptyAccepted DEF Qts!ApplyError
    <3>3. CASE qtsPhase # "apply"
      BY <1>2, <3>1, <3>3 DEF Phases, qtsBox
    <3> QED
      BY <3>2, <3>3
  <2>3. SeqSame /\ UNCHANGED <<date, up, origin>> /\ stack' = << >> /\ seqPhase = "idle"
    BY <1>2 DEF Inv, SeqBatch, SeqSame, seqBox
  <2>4. Typed'
    <3>1. << >> \in Seq(Frames)
      OBVIOUS
    <3> QED
      BY <2>1, <2>2, <2>3, <3>1 DEF Inv, Typed, SeqSame, Phases
  <2>5. \A k \in 1..Len(stack') : FALSE
    BY <2>3
  <2>6. Nested(stack', seqPhase')
    BY <2>3, NestedEmpty
  <2>7. Busy' /\ SeqBatch' /\ SeqLoop' /\ CombinedLoop' /\ Differences' /\ Down'
    BY <2>1, <2>2, <2>3, <2>5
    DEF Inv, Busy, BatchOK, SeqBatch, SeqLoop, CombinedLoop, Differences, Down, SeqSame
  <2>8. Synced' /\ Covered'
    BY <2>1, <2>2, <2>3 DEF Inv, Synced, Covered, SeqSame
  <2> QED
    BY <2>4, <2>6, <2>7, <2>8 DEF Inv
<1> QED
  BY <1>1, <1>2 DEF Fail

-----------------------------------------------------------------------------
(* The select of Run                                                          *)

\* A call begins in a worker that waits.
LEMMA CalledInv ==
    ASSUME Inv, Waiting, NEW f \in Frames, stack' = <<f>>,
           \/ f = GetDifference
           \/ /\ f.op = "combined" /\ f.seq = 0 /\ f.stage = "loop"
              /\ f.todo \subseteq f.items,
           PtsSame, QtsSame, SeqSame, origin' \in {"queue", "timer"},
           UNCHANGED <<date, up, stored, sent, unsaved, settled>>
    PROVE  Inv'
<1>1. /\ Len(stack') = 1 /\ stack'[1] = f /\ stack' # << >> /\ stack' \in Seq(Frames)
      /\ \A k \in 1..Len(stack') : k = 1
  BY OneFrame
<1>2. /\ up /\ stack = << >> /\ seqPhase = "idle" /\ seqPhase' = "idle"
      /\ ptsPhase = "idle" /\ qtsPhase = "idle"
  BY DEF Waiting, Inv, Busy, InLoop, SeqSame
<1>3. /\ f.op # "applySeq" /\ (f.op = "combined" => f.seq = 0)
      /\ f.op \in {"combined", "diff"}
  BY NewDifference
<1>4. Typed'
  BY <1>1 DEF Inv, Typed, PtsSame, QtsSame, SeqSame
<1>5. Nested(stack', seqPhase')
  BY <1>1, <1>2, <1>3, NestedOne DEF Phases
<1>6. Busy' /\ Down'
  BY <1>2 DEF Busy, BatchOK, Down, PtsSame, QtsSame
<1>7. SeqBatch'
  BY <1>2 DEF Inv, SeqBatch, SeqSame
<1>8. SeqLoop'
  BY <1>1, <1>3 DEF SeqLoop
<1>9. CombinedLoop'
  <2>1. f.op = "combined" => f.seq = 0 /\ f.stage = "loop" /\ f.todo \subseteq f.items
    BY NewDifference
  <2> QED
    BY <1>1, <2>1 DEF CombinedLoop
<1>10. Differences'
  <2>1. f.op = "diff" => Answered(f, {}, settled', sent')
    BY NewDifference
  <2> QED
    BY <1>1, <2>1 DEF Differences
<1>11. Synced' /\ Covered'
  BY DEF Inv, Synced, Covered, PtsSame, QtsSame, SeqSame
<1> QED
  BY <1>4, <1>5, <1>6, <1>7, <1>8, <1>9, <1>10, <1>11 DEF Inv

\* A container without a seq calls applyCombined.
LEMMA ReceiveUnnumberedInv ==
    ASSUME Inv, NEW i \in 1..sent, ReceiveUnnumbered(i)
    PROVE  Inv'
<1>1. /\ Waiting /\ stack' = <<Combined(Sent[i].items, 0, Sent[i].date)>>
      /\ PtsSame /\ QtsSame /\ SeqSame /\ origin' = "queue"
      /\ UNCHANGED <<date, up, stored, sent, unsaved, settled>>
  BY DEF ReceiveUnnumbered, boxes, ptsBox, qtsBox, seqBox, history,
         PtsSame, QtsSame, SeqSame
<1>2. /\ i \in Containers /\ Sent[i].items \in SUBSET Items /\ Sent[i].date \in Nat
      /\ 0 \in Nat
  BY SentFacts, InternalConstants DEF Inv, Typed
<1>3. PICK f : f = Combined(Sent[i].items, 0, Sent[i].date)
  OBVIOUS
<1>4. /\ f \in Frames /\ f.op = "combined" /\ f.seq = 0 /\ f.stage = "loop"
      /\ f.todo \subseteq f.items
  BY <1>2, <1>3 DEF Combined, CombinedFrames, Frames
<1>5. stack' = <<f>>
  BY <1>1, <1>3
<1> QED
  BY <1>1, <1>4, <1>5, CalledInv

\* A difference is asked for by a message or by a timer.
LEMMA AskInv ==
    ASSUME Inv, ReceiveTooLong \/ GapTimeout \/ IdleTimeout
    PROVE  Inv'
<1>1. /\ Waiting /\ stack' = <<GetDifference>> /\ origin' \in {"queue", "timer"}
      /\ UNCHANGED <<date, up, stored, sent, unsaved, settled>>
  BY DEF ReceiveTooLong, GapTimeout, IdleTimeout, TimerDifference, network, history
<1>2. PtsSame /\ QtsSame /\ SeqSame
  <2>1. CASE ReceiveTooLong
    BY <2>1 DEF ReceiveTooLong, boxes, ptsBox, qtsBox, seqBox, PtsSame, QtsSame, SeqSame
  <2>2. CASE GapTimeout
    BY <2>2 DEF GapTimeout, ptsBox, qtsBox, seqBox, PtsSame, QtsSame, SeqSame
  <2>3. CASE IdleTimeout
    BY <2>3 DEF IdleTimeout, boxes, ptsBox, qtsBox, seqBox, PtsSame, QtsSame, SeqSame
  <2> QED
    BY <2>1, <2>2, <2>3
<1> QED
  BY <1>1, <1>2, NewDifference, CalledInv

\* A step of the seq box, while no call runs.
LEMMA SeqMovedInv ==
    ASSUME Inv, up, stack = << >>, stack' = << >>, seq' = seq,
           Moved(SeqRanges, seq, seqPhase, seqNext, seqAccepted,
                 seqPhase', seqNext', seqAccepted'),
           seqPending' \in [SeqRanges -> Nat],
           \A r \in SeqRanges : seqPending'[r] > 0 => r.end <= ServerState(sent).seq,
           seqPhase' # "idle" /\ seqAccepted' # << >> => seqNext' <= ServerState(sent).seq,
           origin' = "queue", PtsSame, QtsSame,
           UNCHANGED <<date, up, stored, sent, unsaved, settled>>
    PROVE  Inv'
<1>1. /\ seq \in Nat /\ seqPhase \in Phases /\ seqNext \in Nat /\ seqAccepted \in Seq(SeqRanges)
      /\ seqPhase # "idle" =>
           Chain(seqAccepted, seq, seqNext) /\ (seqPhase = "apply" => seqAccepted # << >>)
  BY DEF Inv, Typed, SeqBatch
<1>2. /\ seqPhase' \in Phases /\ seqNext' \in Nat /\ seqAccepted' \in Seq(SeqRanges)
      /\ seqPhase' # "idle" =>
           Chain(seqAccepted', seq, seqNext') /\ (seqPhase' = "apply" => seqAccepted' # << >>)
  BY <1>1, RangeFacts, MovedChain
<1>3. Typed'
  BY <1>2 DEF Inv, Typed, PtsSame, QtsSame
<1>4. \A k \in 1..Len(stack') : FALSE
  OBVIOUS
<1>5. Nested(stack', seqPhase')
  BY NestedEmpty
<1>6. Busy' /\ Down'
  BY DEF Inv, Busy, InLoop, Down, PtsSame, QtsSame
<1>7. SeqBatch'
  BY <1>2 DEF SeqBatch
<1>8. SeqLoop' /\ CombinedLoop' /\ Differences'
  BY <1>4 DEF SeqLoop, CombinedLoop, Differences
<1>9. Synced' /\ Covered'
  BY DEF Inv, Synced, Covered, PtsSame, QtsSame
<1> QED
  BY <1>3, <1>5, <1>6, <1>7, <1>8, <1>9 DEF Inv

\* A container with a seq has been sent, so its number is not beyond the
\* server's.
LEMMA ReceiveNumberedInv ==
    ASSUME Inv, NEW i \in 1..sent, ReceiveNumbered(i)
    PROVE  Inv'
<1> DEFINE u == SeqRange(i)
<1>1. /\ up /\ stack = << >> /\ stack' = << >> /\ SeqBox!Handle(u) /\ Sent[i].seq > 0
      /\ PtsSame /\ QtsSame /\ origin' = "queue"
      /\ UNCHANGED <<date, up, stored, sent, unsaved, settled>>
  BY DEF ReceiveNumbered, Waiting, ptsBox, qtsBox, history, PtsSame, QtsSame
<1>2. sent \in 0..Len(Sent) /\ i \in Containers /\ Sent[i].seq \in Nat
  BY SentFacts, InternalConstants DEF Inv, Typed
<1>3. u \in SeqRanges /\ u.end = Sent[i].seq
  BY <1>1, <1>2 DEF SeqRanges, SeqRange
<1>4. u.end <= ServerState(sent).seq
  BY <1>2, <1>3, ServerFacts
<1> HIDE DEF u
<1>5. seq \in Nat /\ seqPending \in [SeqRanges -> Nat]
  BY DEF Inv, Typed
<1>6. /\ seq' = seq
      /\ Moved(SeqRanges, seq, seqPhase, seqNext, seqAccepted,
               seqPhase', seqNext', seqAccepted')
  BY <1>1, <1>3, <1>5, SeqBoxHandled
<1>7. /\ seqPending' \in [SeqRanges -> Nat]
      /\ \A r \in SeqRanges : seqPending'[r] > 0 => seqPending[r] > 0 \/ r = u
      /\ seqPhase' = "idle" \/ seqAccepted' = << >> \/ seqNext' = u.end
  BY <1>1, <1>3, <1>5, SeqHeld
<1>8. \A r \in SeqRanges : seqPending'[r] > 0 => r.end <= ServerState(sent).seq
  BY <1>4, <1>7 DEF Inv, SeqBatch
<1>9. seqPhase' # "idle" /\ seqAccepted' # << >> => seqNext' <= ServerState(sent).seq
  BY <1>4, <1>7
<1> QED
  BY <1>1, <1>6, <1>7, <1>8, <1>9, SeqMovedInv

\* A scan of the seq box takes only what was held back.
LEMMA SeqScanInv ==
    ASSUME Inv, SeqScan
    PROVE  Inv'
<1>1. /\ SeqBox!ScanNext \/ SeqBox!ScanEnd
      /\ PtsSame /\ QtsSame
      /\ UNCHANGED <<date, up, origin, stack, stored, sent, unsaved, settled>>
  BY DEF SeqScan, ptsBox, qtsBox, worker, network, history, PtsSame, QtsSame
<1>2. seqNext \in Nat /\ seqPending \in [SeqRanges -> Nat]
  BY DEF Inv, Typed
<1>3. /\ seqPhase = "scan" /\ seq' = seq
      /\ Moved(SeqRanges, seq, seqPhase, seqNext, seqAccepted,
               seqPhase', seqNext', seqAccepted')
  BY <1>1, <1>2, SeqBoxScanned
<1>4. stack = << >> /\ up /\ origin = "queue"
  BY <1>3 DEF Inv, Nested, SeqBatch
<1>5. /\ seqPending' \in [SeqRanges -> Nat]
      /\ \A r \in SeqRanges : seqPending'[r] > 0 => seqPending[r] > 0
      /\ \/ seqAccepted' = seqAccepted /\ seqNext' \in {0, seqNext}
         \/ \E u \in SeqRanges : seqPending[u] > 0 /\ seqNext' = u.end
  BY <1>1, <1>2, SeqHeld
<1>6. \A r \in SeqRanges : seqPending'[r] > 0 => r.end <= ServerState(sent).seq
  BY <1>5 DEF Inv, SeqBatch
<1>7. ServerState(sent).seq \in Nat
  BY ServerFacts DEF Inv, Typed, State
<1>8. seqPhase' # "idle" /\ seqAccepted' # << >> => seqNext' <= ServerState(sent).seq
  BY <1>2, <1>3, <1>5, <1>7 DEF Inv, SeqBatch
<1> QED
  BY <1>1, <1>3, <1>4, <1>5, <1>6, <1>8, SeqMovedInv

-----------------------------------------------------------------------------
(* applySeq                                                                   *)

\* What a chain leaves behind its first range.
LEMMA ChainTail ==
    ASSUME NEW U, NEW s \in Seq(U), s # << >>, NEW from, NEW to, Chain(s, from, to)
    PROVE  /\ Head(s) = s[1] /\ s[1] \in U /\ s[1].start = from
           /\ Tail(s) \in Seq(U)
           /\ Cursor(Tail(s), to) = s[1].end
           /\ Chain(Tail(s), s[1].end, to)
<1>1. Len(s) \in Nat /\ Len(s) >= 1 /\ Head(s) = s[1] /\ s[1] \in U
  OBVIOUS
<1>2. PICK t \in Seq(U) : t = Tail(s)
  <2>1. Tail(s) \in Seq(U)
    BY <1>1
  <2> QED
    BY <2>1
<1>3. Len(t) = Len(s) - 1
  BY <1>1, <1>2
<1>4. \A k \in 1..(Len(s) - 1) : t[k] = s[k+1]
  BY <1>1, <1>2
<1>5. /\ s[1].start = from /\ s[Len(s)].end = to
      /\ \A i \in 2..Len(s) : s[i].start = s[i-1].end
  BY DEF Chain
<1>6. CASE Len(s) = 1
  <2>1. t = << >>
    BY <1>3, <1>6
  <2>2. s[1].end = to
    BY <1>5, <1>6
  <2>3. Cursor(t, to) = s[1].end /\ Chain(t, s[1].end, to)
    BY <2>1, <2>2 DEF Cursor, Chain
  <2> QED
    BY <1>1, <1>2, <1>5, <2>3
<1>7. CASE Len(s) # 1
  <2>1. t # << >> /\ Len(t) >= 1 /\ Len(t) \in Nat
    BY <1>1, <1>3, <1>7
  <2>2. /\ 1 \in 1..(Len(s) - 1) /\ 2 \in 2..Len(s)
        /\ Len(t) \in 1..(Len(s) - 1) /\ Len(t) + 1 = Len(s)
    BY <1>1, <1>3, <1>7
  <2>3. t[1] = s[2] /\ s[2].start = s[1].end
    BY <1>4, <1>5, <2>2
  <2>4. t[Len(t)].end = to
    BY <1>4, <1>5, <2>2
  <2>5. ASSUME NEW i \in 2..Len(t) PROVE t[i].start = t[i-1].end
    <3>1. /\ i \in 1..(Len(s) - 1) /\ i - 1 \in 1..(Len(s) - 1)
          /\ (i - 1) + 1 = i /\ i + 1 \in 2..Len(s) /\ (i + 1) - 1 = i
      BY <1>1, <1>3
    <3>2. t[i] = s[i+1] /\ t[i-1] = s[i]
      BY <1>4, <3>1
    <3>3. s[i+1].start = s[i].end
      BY <1>5, <3>1
    <3> QED
      BY <3>2, <3>3
  <2>6. Cursor(t, to) = s[1].end /\ Chain(t, s[1].end, to)
    BY <2>1, <2>3, <2>4, <2>5 DEF Cursor, Chain
  <2> QED
    BY <1>1, <1>2, <1>5, <2>6
<1> QED
  BY <1>6, <1>7

\* applySeq begins at seq, with the chain that its box accepted.
LEMMA ApplySeqInv ==
    ASSUME Inv, ApplySeq
    PROVE  Inv'
<1>1. /\ stack = << >> /\ seqPhase = "apply" /\ stack' = <<ApplySeqFrame(seqAccepted)>>
      /\ PtsSame /\ QtsSame /\ SeqSame
      /\ UNCHANGED <<date, up, origin, stored, sent, unsaved, settled>>
  BY DEF ApplySeq, boxes, ptsBox, qtsBox, seqBox, network, history,
         PtsSame, QtsSame, SeqSame
<1>2. seqAccepted \in Seq(SeqRanges) /\ seqAccepted # << >> /\ Chain(seqAccepted, seq, seqNext)
  BY <1>1 DEF Inv, Typed, SeqBatch
<1>3. PICK f : f = ApplySeqFrame(seqAccepted)
  OBVIOUS
<1>4. /\ f \in Frames /\ f.op = "applySeq" /\ f.stage = "loop" /\ f.todo = seqAccepted
  BY <1>2, <1>3 DEF ApplySeqFrame, ApplySeqFrames, Frames
<1>5. /\ stack' \in Seq(Frames) /\ stack' # << >> /\ Len(stack') = 1 /\ stack'[1] = f
      /\ \A k \in 1..Len(stack') : k = 1
  BY <1>1, <1>3, <1>4, OneFrame
<1>6. Cursor(seqAccepted, seqNext) = seq
  BY <1>2 DEF Cursor, Chain
<1>7. ptsPhase = "idle" /\ qtsPhase = "idle" /\ up
  BY <1>1 DEF Inv, Busy, InLoop, SeqBatch
<1>8. Typed'
  BY <1>1, <1>5 DEF Inv, Typed, PtsSame, QtsSame, SeqSame
<1>9. Nested(stack', seqPhase')
  <2>1. seqPhase' = "apply"
    BY <1>1 DEF SeqSame
  <2> QED
    BY <1>4, <1>5, <2>1, NestedOne DEF Phases
<1>10. Busy' /\ Down'
  BY <1>1, <1>7 DEF Busy, BatchOK, Down, PtsSame, QtsSame
<1>11. SeqBatch'
  BY <1>1, <1>5 DEF Inv, SeqBatch, SeqSame
<1>12. SeqLoop'
  <2>1. CoveredSeq(settled, seq)
    BY DEF Inv, Covered
  <2> QED
    BY <1>1, <1>2, <1>4, <1>5, <1>6, <2>1 DEF SeqLoop, SeqSame
<1>13. CombinedLoop' /\ Differences'
  BY <1>4, <1>5 DEF CombinedLoop, Differences
<1>14. Synced' /\ Covered'
  BY <1>1 DEF Inv, Synced, Covered, PtsSame, QtsSame, SeqSame
<1> QED
  BY <1>8, <1>9, <1>10, <1>11, <1>12, <1>13, <1>14 DEF Inv

\* applySeq is innermost: it is alone.
LEMMA InApplySeq ==
    ASSUME Inv, NEW stage, In("applySeq", stage)
    PROVE  /\ stack \in Seq(Frames) /\ stack # << >> /\ Len(stack) = 1
           /\ Top = stack[1] /\ stack[1] \in ApplySeqFrames
           /\ stack[1].op = "applySeq" /\ stack[1].stage = stage
           /\ Tail(stack) = << >> /\ \A k \in 1..Len(stack) : k = 1
           /\ ptsPhase = "idle" /\ qtsPhase = "idle" /\ seqPhase = "apply" /\ up
           /\ stored \in State
<1>1. stack \in Seq(Frames) /\ stack # << >> /\ Nested(stack, seqPhase)
  BY DEF Inv, Typed, In
<1>2. /\ Top = stack[1] /\ stack[1] \in Frames
      /\ Tail(stack) = << >> <=> Len(stack) = 1
  BY <1>1, StackTop DEF Top
<1>3. stack[1].op = "applySeq" /\ stack[1].stage = stage
  BY <1>2 DEF In
<1>4. Len(stack) = 1 /\ stack[1] \in ApplySeqFrames
  BY <1>1, <1>2, <1>3, Below, FrameKinds
<1>5. \A k \in 1..Len(stack) : k = 1
  BY <1>4
<1>6. seqPhase = "apply"
  BY <1>1, <1>3, <1>4 DEF Nested
<1>7. up
  BY <1>1 DEF Inv, Down
<1>8. stored \in State
  BY <1>7 DEF Inv, Synced
<1> QED
  BY <1>1, <1>2, <1>3, <1>4, <1>5, <1>6, <1>7, <1>8 DEF In

\* The next container of the batch is the one after the cursor.
LEMMA ApplySeqNextInv ==
    ASSUME Inv, ApplySeqNext
    PROVE  Inv'
<1> DEFINE i == CHOOSE j \in Containers : SeqRange(j) = Head(Top.todo)
<1>1. /\ In("applySeq", "loop") /\ Top.todo # << >>
      /\ stack' = <<Combined(Sent[i].items, Sent[i].seq, Sent[i].date),
                    [Top EXCEPT !.todo = Tail(@)]>>
      /\ PtsSame /\ QtsSame /\ SeqSame
      /\ UNCHANGED <<date, up, origin, stored, sent, unsaved, settled>>
  BY DEF ApplySeqNext, boxes, ptsBox, qtsBox, seqBox, network, history,
         PtsSame, QtsSame, SeqSame
<1>2. /\ stack \in Seq(Frames) /\ Len(stack) = 1 /\ Top = stack[1]
      /\ stack[1] \in ApplySeqFrames /\ stack[1].op = "applySeq" /\ stack[1].stage = "loop"
      /\ ptsPhase = "idle" /\ qtsPhase = "idle" /\ seqPhase = "apply" /\ up
  BY <1>1, InApplySeq
<1>3. stack[1].todo \in Seq(SeqRanges) /\ stack[1].todo # << >>
  BY <1>1, <1>2 DEF ApplySeqFrames
<1>4. PICK todo \in Seq(SeqRanges) : todo = stack[1].todo
  BY <1>3
<1>5. /\ Chain(todo, Cursor(todo, seqNext), seqNext)
      /\ CoveredSeq(settled, Cursor(todo, seqNext)) /\ seq = Cursor(todo, seqNext)
  <2>1. 1 \in 1..Len(stack)
    BY <1>2
  <2> QED
    BY <1>2, <1>4, <2>1 DEF Inv, SeqLoop
<1>6. todo # << >> /\ Cursor(todo, seqNext) = todo[1].start
  BY <1>3, <1>4 DEF Cursor
<1>7. PICK rest \in Seq(SeqRanges) : rest = Tail(todo)
  BY <1>5, <1>6, ChainTail
<1>8. /\ Head(todo) = todo[1] /\ todo[1] \in SeqRanges
      /\ Cursor(rest, seqNext) = todo[1].end
      /\ Chain(rest, todo[1].end, seqNext)
  BY <1>5, <1>6, <1>7, ChainTail
<1>9. PICK c \in Containers : c = i /\ SeqRange(c) = todo[1]
  <2>1. \E j \in Containers : SeqRange(j) = todo[1]
    BY <1>8 DEF SeqRanges
  <2>2. Head(Top.todo) = todo[1]
    BY <1>2, <1>4, <1>8
  <2> QED
    BY <2>1, <2>2
<1> HIDE DEF i
<1>10. /\ Sent[c].seq \in Nat /\ Sent[c].date \in Nat /\ Sent[c].items \in SUBSET Items
       /\ todo[1].end = Sent[c].seq
  BY <1>9, InternalConstants, SentFacts DEF SeqRange
<1>11. Sent[c].seq > 0
  BY <1>8, <1>10, RangeFacts
<1>12. PICK f : f = Combined(Sent[c].items, Sent[c].seq, Sent[c].date)
  OBVIOUS
<1>13. /\ f \in CombinedFrames /\ f \in Frames /\ f.op = "combined"
       /\ f.stage = "loop" /\ f.seq = Sent[c].seq /\ f.items = Sent[c].items
       /\ f.todo = Sent[c].items
  BY <1>10, <1>12 DEF Combined, CombinedFrames, Frames
<1>14. PICK q : q = [Top EXCEPT !.todo = Tail(@)]
  OBVIOUS
<1>15. /\ q \in ApplySeqFrames /\ q \in Frames /\ q.op = "applySeq" /\ q.stage = "loop"
       /\ q.todo = rest
  BY <1>2, <1>4, <1>7, <1>14 DEF ApplySeqFrames, Frames
<1>16. stack' = <<f, q>>
  BY <1>1, <1>9, <1>12, <1>14
<1>17. /\ stack' \in Seq(Frames) /\ stack' # << >> /\ Len(stack') = 2
       /\ stack'[1] = f /\ stack'[2] = q
  BY <1>13, <1>15, <1>16, TwoFrames
<1>18. \A k \in 1..Len(stack') : k = 1 \/ k = 2
  BY <1>17
<1>19. Typed'
  BY <1>1, <1>17 DEF Inv, Typed, PtsSame, QtsSame, SeqSame
<1>20. Nested(stack', seqPhase')
  <2>1. seqPhase' = "apply"
    BY <1>1, <1>2 DEF SeqSame
  <2> QED
    BY <1>11, <1>13, <1>15, <1>16, <2>1, NestedPair
<1>21. Busy' /\ Down'
  BY <1>1, <1>2 DEF Busy, BatchOK, Down, PtsSame, QtsSame
<1>22. SeqBatch'
  BY <1>1, <1>17 DEF Inv, SeqBatch, SeqSame
<1>23. SeqLoop'
  BY <1>1, <1>8, <1>13, <1>15, <1>17, <1>18 DEF SeqLoop, SeqSame
<1>24. CombinedLoop'
  <2>1. \A j \in Containers : Sent[j].seq = Sent[c].seq => j = c
    <3>1. \A j \in Containers : Sent[j].seq \in Nat /\ j \in Nat
      BY InternalConstants, SentFacts DEF Containers
    <3>2. \A j \in Containers : Sent[j].seq = Sent[c].seq => ~(j < c) /\ ~(c < j)
      BY <1>10, <1>11, <3>1, SeqFacts
    <3> QED
      BY <3>1, <3>2
  <2>2. \A j \in Containers : Sent[j].seq = f.seq => Sent[j].items \cap Counted \subseteq f.items
    BY <1>13, <2>1
  <2>3. todo[1] \in SeqRanges /\ todo[1].start = seq /\ todo[1].end = f.seq
    BY <1>5, <1>6, <1>8, <1>10, <1>13
  <2>4. Cursor(stack'[2].todo, seqNext') = f.seq
    BY <1>1, <1>8, <1>10, <1>13, <1>15, <1>17 DEF SeqSame
  <2>5. \E r \in SeqRanges : r.start = seq' /\ r.end = stack'[1].seq
    BY <1>1, <1>17, <2>3 DEF SeqSame
  <2> QED
    BY <1>13, <1>17, <2>2, <2>4, <2>5 DEF CombinedLoop
<1>25. Differences'
  BY <1>13, <1>15, <1>17, <1>18 DEF Differences
<1>26. Synced' /\ Covered'
  BY <1>1 DEF Inv, Synced, Covered, PtsSame, QtsSame, SeqSame
<1> QED
  BY <1>19, <1>20, <1>21, <1>22, <1>23, <1>24, <1>25, <1>26 DEF Inv

\* applySeq returns: the box takes over the position of the batch.
LEMMA SeqReturnInv ==
    ASSUME Inv, up, stack' = << >>, ptsPhase = "idle", qtsPhase = "idle", SeqBox!ApplyOk,
           PtsSame, QtsSame, UNCHANGED <<date, up, origin, sent, unsaved, settled>>,
           stored' \in State,
           stored'.pts = stored.pts, stored'.qts = stored.qts, stored'.date = stored.date,
           CoveredSeq(settled, seqNext), CoveredSeq(settled, stored'.seq),
           ~unsaved => seqNext <= stored'.seq
    PROVE  Inv'
<1>1. /\ seq' = seqNext /\ seqPending' = SeqBox!TrimStale(seqNext, seqPending)
      /\ seqPhase' = "idle" /\ seqNext' = 0 /\ seqAccepted' = << >>
  BY DEF SeqBox!ApplyOk
<1>2. seqNext \in Nat /\ seqPending \in [SeqRanges -> Nat]
  BY DEF Inv, Typed
<1>3. /\ seqPending' \in [SeqRanges -> Nat]
      /\ \A r \in SeqRanges : seqPending'[r] > 0 => seqPending[r] > 0
  BY <1>1, <1>2, SeqHeld
<1>4. << >> \in Seq(Frames) /\ \A k \in 1..Len(stack') : FALSE
  OBVIOUS
<1>5. Typed'
  BY <1>1, <1>2, <1>3, <1>4, EmptyAccepted DEF Inv, Typed, PtsSame, QtsSame, Phases
<1>6. Nested(stack', seqPhase')
  BY NestedEmpty
<1>7. Busy' /\ Down'
  BY <1>1 DEF Busy, BatchOK, Down, PtsSame, QtsSame
<1>8. SeqBatch'
  BY <1>1, <1>3 DEF Inv, SeqBatch
<1>9. SeqLoop' /\ CombinedLoop' /\ Differences'
  BY <1>4 DEF SeqLoop, CombinedLoop, Differences
<1>10. Synced'
  BY <1>1 DEF Inv, Synced, PtsSame, QtsSame
<1>11. Covered'
  BY <1>1 DEF Inv, Covered, PtsSame, QtsSame
<1> QED
  BY <1>5, <1>6, <1>7, <1>8, <1>9, <1>10, <1>11 DEF Inv

\* The batch is done: seq is stored, and a difference may follow.
LEMMA ApplySeqSaveInv ==
    ASSUME Inv, ApplySeqSave
    PROVE  Inv'
<1>1. /\ In("applySeq", "loop") /\ Top.todo = << >>
      /\ stored' = [stored EXCEPT !.seq = seqNext]
      /\ PtsSame /\ QtsSame
      /\ UNCHANGED <<date, up, origin, sent, unsaved, settled>>
  BY DEF ApplySeqSave, ptsBox, qtsBox, network, history, PtsSame, QtsSame
<1>2. /\ stack \in Seq(Frames) /\ Len(stack) = 1 /\ Top = stack[1]
      /\ stack[1] \in ApplySeqFrames /\ stack[1].op = "applySeq" /\ stack[1].stage = "loop"
      /\ ptsPhase = "idle" /\ qtsPhase = "idle" /\ seqPhase = "apply" /\ up
      /\ stored \in State /\ Tail(stack) = << >>
  BY <1>1, InApplySeq
<1>3. /\ seqNext \in Nat /\ stored' \in State /\ stored'.seq = seqNext
      /\ stored'.pts = stored.pts /\ stored'.qts = stored.qts /\ stored'.date = stored.date
  BY <1>1, <1>2 DEF Inv, Typed, State
<1>4. CoveredSeq(settled, seqNext) /\ seq = seqNext
  <2>1. 1 \in 1..Len(stack)
    BY <1>2
  <2>2. Cursor(stack[1].todo, seqNext) = seqNext
    BY <1>1, <1>2 DEF Cursor
  <2> QED
    BY <1>2, <2>1, <2>2 DEF Inv, SeqLoop
<1>5. CASE SeqBox!ApplyOk /\ Return
  <2>1. stack' = << >>
    BY <1>2, <1>5 DEF Return
  <2>2. CoveredSeq(settled, stored'.seq) /\ seqNext <= stored'.seq
    BY <1>3, <1>4
  <2> QED
    BY <1>1, <1>2, <1>3, <1>4, <1>5, <2>1, <2>2, SeqReturnInv
<1>6. CASE /\ stack' = <<GetDifference, [Top EXCEPT !.stage = "recovered"]>>
           /\ UNCHANGED seqBox
  <2>1. PICK q : q = [Top EXCEPT !.stage = "recovered"]
    OBVIOUS
  <2>2. /\ q \in ApplySeqFrames /\ q \in Frames /\ q.op = "applySeq"
        /\ q.stage = "recovered" /\ q.todo = << >>
    BY <1>1, <1>2, <2>1 DEF ApplySeqFrames, Frames
  <2>3. /\ GetDifference \in DiffFrames /\ GetDifference \in Frames
        /\ GetDifference.op = "diff" /\ GetDifference.stage = "request"
    BY NewDifference
  <2>4. stack' = <<GetDifference, q>> /\ SeqSame
    BY <1>6, <2>1 DEF seqBox, SeqSame
  <2>5. /\ stack' \in Seq(Frames) /\ stack' # << >> /\ Len(stack') = 2
        /\ stack'[1] = GetDifference /\ stack'[2] = q
    BY <2>2, <2>3, <2>4, TwoFrames
  <2>6. \A k \in 1..Len(stack') : k = 1 \/ k = 2
    BY <2>5
  <2>7. Typed'
    BY <1>1, <1>3, <2>4, <2>5 DEF Inv, Typed, PtsSame, QtsSame, SeqSame
  <2>8. Nested(stack', seqPhase')
    <3>1. seqPhase' = "apply"
      BY <1>2, <2>4 DEF SeqSame
    <3> QED
      BY <2>2, <2>3, <2>4, <3>1, NestedRecover
  <2>9. Busy' /\ Down'
    BY <1>1, <1>2 DEF Busy, BatchOK, Down, PtsSame, QtsSame
  <2>10. SeqBatch'
    BY <1>1, <2>4, <2>5 DEF Inv, SeqBatch, SeqSame
  <2>11. SeqLoop'
    <3>1. Chain(<< >>, seqNext, seqNext) /\ Cursor(<< >>, seqNext) = seqNext
      BY DEF Chain, Cursor
    <3> QED
      BY <1>1, <1>4, <2>2, <2>3, <2>4, <2>5, <2>6, <3>1 DEF SeqLoop, SeqSame
  <2>12. CombinedLoop'
    BY <2>3, <2>5 DEF CombinedLoop
  <2>13. Differences'
    <3>1. Answered(GetDifference, {}, settled', sent')
      BY NewDifference
    <3> QED
      BY <2>2, <2>5, <2>6, <3>1 DEF Differences
  <2>14. Synced'
    BY <1>1, <1>2, <1>3, <1>4, <2>4 DEF Inv, Synced, PtsSame, QtsSame, SeqSame
  <2>15. Covered'
    BY <1>1, <1>3, <1>4, <2>4 DEF Inv, Covered, PtsSame, QtsSame, SeqSame
  <2> QED
    BY <2>7, <2>8, <2>9, <2>10, <2>11, <2>12, <2>13, <2>14, <2>15 DEF Inv
<1> QED
  BY <1>5, <1>6 DEF ApplySeqSave

\* The difference has stored a seq that is not behind the batch.
LEMMA ApplySeqRecoveredInv ==
    ASSUME Inv, ApplySeqRecovered
    PROVE  Inv'
<1>1. /\ In("applySeq", "recovered") /\ SeqBox!ApplyOk /\ stack' = Tail(stack)
      /\ PtsSame /\ QtsSame
      /\ UNCHANGED <<date, up, origin, stored, sent, unsaved, settled>>
  BY DEF ApplySeqRecovered, Return, ptsBox, qtsBox, network, history, PtsSame, QtsSame
<1>2. /\ Len(stack) = 1 /\ stack[1].op = "applySeq" /\ stack[1].stage = "recovered"
      /\ ptsPhase = "idle" /\ qtsPhase = "idle" /\ up
      /\ stored \in State /\ Tail(stack) = << >>
  BY <1>1, InApplySeq
<1>3. CoveredSeq(settled, seqNext) /\ (~unsaved => seqNext <= stored.seq)
  <2>1. 1 \in 1..Len(stack)
    BY <1>2
  <2> QED
    BY <1>2, <2>1 DEF Inv, SeqLoop
<1>4. CoveredSeq(settled, stored.seq)
  BY DEF Inv, Covered
<1> QED
  BY <1>1, <1>2, <1>3, <1>4, SeqReturnInv

-----------------------------------------------------------------------------
(* applyCombined                                                              *)

\* What is known when applyCombined is innermost.
LEMMA InCombined ==
    ASSUME Inv, stack # << >>, stack[1].op = "combined"
    PROVE  /\ stack \in Seq(Frames) /\ Top = stack[1] /\ stack[1] \in CombinedFrames
           /\ up /\ stored \in State /\ stack[1].todo \subseteq stack[1].items
           /\ Nested(stack, seqPhase)
<1>1. stack \in Seq(Frames) /\ Nested(stack, seqPhase) /\ up
  BY DEF Inv, Typed, Down
<1>2. Top = stack[1] /\ stack[1] \in CombinedFrames
  BY <1>1, StackTop, FrameKinds DEF Top
<1>3. stored \in State /\ stack[1].todo \subseteq stack[1].items
  BY <1>1 DEF Inv, Synced, CombinedLoop
<1> QED
  BY <1>1, <1>2, <1>3

\* A step of applyCombined that leaves seq and the date alone.
LEMMA CombinedInv ==
    ASSUME Inv, stack # << >>, stack[1].op = "combined",
           NEW f \in CombinedFrames, stack' = <<f>> \o Tail(stack),
           f.seq = stack[1].seq, f.items \subseteq stack[1].items,
           stack[1].items \cap Counted \subseteq f.items, f.todo \subseteq f.items,
           f.changed = stack[1].changed \/ \E x \in stack[1].items : x.kind = "changed",
           settled \subseteq settled', SeqSame, UNCHANGED <<up, origin, sent, unsaved, date>>,
           pts' \in Nat, ptsPhase' \in Phases, ptsNext' \in Nat, ptsAccepted' \in Seq(PtsRanges),
           qts' \in Nat, qtsPhase' \in Phases, qtsNext' \in Nat, qtsAccepted' \in Seq(QtsRanges),
           BatchOK(PtsRanges, pts', ptsPhase', ptsNext', ptsAccepted'),
           BatchOK(QtsRanges, qts', qtsPhase', qtsNext', qtsAccepted'),
           ptsPhase' # "idle" => qtsPhase' = "idle",
           (ptsPhase' = "scan" \/ qtsPhase' = "scan") => f.stage = "loop",
           f.stage = "date" => /\ ptsPhase' = "idle" /\ qtsPhase' = "idle"
                               /\ f.items \subseteq settled',
           f.stage = "save" => /\ ptsPhase' = "apply" \/ qtsPhase' = "apply"
                               /\ ptsPhase' = "apply" => CoveredPts(settled', ptsNext')
                               /\ qtsPhase' = "apply" =>
                                     /\ CoveredQts(settled', qtsNext')
                                     /\ qtsNext' = 0 => Rewound(settled'),
           stored' \in State, stored'.seq = stored.seq, stored'.date = stored.date,
           ~unsaved => stored'.pts = pts' /\ QtsKept(stored'.qts, qts', settled'),
           CoveredPts(settled', pts'), CoveredQts(settled', qts'),
           CoveredPts(settled', stored'.pts), CoveredQts(settled', stored'.qts)
    PROVE  Inv'
<1>1. /\ stack' \in Seq(Frames) /\ stack' # << >> /\ stack'[1] = f /\ f.op = "combined"
      /\ Nested(stack, seqPhase)' /\ SeqBatch' /\ SeqLoop' /\ Differences' /\ Down' /\ up
      /\ f.seq > 0 =>
           /\ \A i \in Containers : Sent[i].seq = f.seq =>
                 Sent[i].items \cap Counted \subseteq f.items
           /\ \E r \in SeqRanges : r.start = seq' /\ r.end = f.seq
           /\ Cursor(stack'[2].todo, seqNext') = f.seq
  BY CombinedStep
<1>2. Typed'
  BY <1>1 DEF Inv, Typed, SeqSame
<1>3. Busy'
  <2>1. f.stage \in {"loop", "save", "date"}
    BY DEF CombinedFrames
  <2> QED
    BY <1>1, <2>1 DEF Busy, InLoop
<1>4. CombinedLoop'
  BY <1>1 DEF CombinedLoop
<1>5. Synced'
  BY <1>1 DEF Inv, Synced, SeqSame
<1>6. Covered'
  <2>1. CoveredSeq(settled', seq) /\ CoveredSeq(settled', stored.seq)
    BY CoverGrows DEF Inv, Covered
  <2> QED
    BY <2>1 DEF Covered, SeqSame
<1> QED
  BY <1>1, <1>2, <1>3, <1>4, <1>5, <1>6 DEF Inv

\* A box at rest, and one that the step leaves alone.
LEMMA BoxesKept ==
    ASSUME Inv
    PROVE  /\ PtsSame => /\ pts' \in Nat /\ ptsPhase' \in Phases /\ ptsNext' \in Nat
                         /\ ptsAccepted' \in Seq(PtsRanges)
                         /\ BatchOK(PtsRanges, pts', ptsPhase', ptsNext', ptsAccepted')
           /\ QtsSame => /\ qts' \in Nat /\ qtsPhase' \in Phases /\ qtsNext' \in Nat
                         /\ qtsAccepted' \in Seq(QtsRanges)
                         /\ BatchOK(QtsRanges, qts', qtsPhase', qtsNext', qtsAccepted')
<1>1. ASSUME PtsSame
      PROVE  /\ pts' \in Nat /\ ptsPhase' \in Phases /\ ptsNext' \in Nat
             /\ ptsAccepted' \in Seq(PtsRanges)
             /\ BatchOK(PtsRanges, pts', ptsPhase', ptsNext', ptsAccepted')
  BY <1>1 DEF Inv, Typed, Busy, PtsSame
<1>2. ASSUME QtsSame
      PROVE  /\ qts' \in Nat /\ qtsPhase' \in Phases /\ qtsNext' \in Nat
             /\ qtsAccepted' \in Seq(QtsRanges)
             /\ BatchOK(QtsRanges, qts', qtsPhase', qtsNext', qtsAccepted')
  BY <1>2 DEF Inv, Typed, Busy, QtsSame
<1> QED
  BY <1>1, <1>2

\* The loop goes on: a box may move, its counter does not.
LEMMA LoopInv ==
    ASSUME Inv, stack # << >>, stack[1].op = "combined", stack[1].stage = "loop",
           NEW f \in CombinedFrames, stack' = <<f>> \o Tail(stack), f.stage = "loop",
           f.seq = stack[1].seq, f.items \subseteq stack[1].items,
           stack[1].items \cap Counted \subseteq f.items, f.todo \subseteq f.items,
           f.changed = stack[1].changed \/ \E x \in stack[1].items : x.kind = "changed",
           SeqSame, UNCHANGED <<up, origin, stored, sent, unsaved, settled, date>>,
           pts' = pts, qts' = qts,
           \/ /\ QtsSame /\ qtsPhase = "idle"
              /\ Moved(PtsRanges, pts, ptsPhase, ptsNext, ptsAccepted,
                       ptsPhase', ptsNext', ptsAccepted')
           \/ /\ PtsSame /\ ptsPhase = "idle"
              /\ Moved(QtsRanges, qts, qtsPhase, qtsNext, qtsAccepted,
                       qtsPhase', qtsNext', qtsAccepted')
    PROVE  Inv'
<1>1. /\ pts' \in Nat /\ ptsPhase' \in Phases /\ ptsNext' \in Nat
      /\ ptsAccepted' \in Seq(PtsRanges)
      /\ BatchOK(PtsRanges, pts', ptsPhase', ptsNext', ptsAccepted')
  <2>1. CASE PtsSame
    BY <2>1, BoxesKept
  <2>2. CASE Moved(PtsRanges, pts, ptsPhase, ptsNext, ptsAccepted,
                   ptsPhase', ptsNext', ptsAccepted')
    <3>1. /\ pts \in Nat /\ ptsPhase \in Phases /\ ptsNext \in Nat
          /\ ptsAccepted \in Seq(PtsRanges)
          /\ BatchOK(PtsRanges, pts, ptsPhase, ptsNext, ptsAccepted)
      BY DEF Inv, Typed, Busy
    <3>2. /\ ptsPhase' \in Phases /\ ptsNext' \in Nat /\ ptsAccepted' \in Seq(PtsRanges)
          /\ BatchOK(PtsRanges, pts, ptsPhase', ptsNext', ptsAccepted')
      BY <2>2, <3>1, RangeFacts, MovedBatch
    <3> QED
      BY <3>1, <3>2
  <2> QED
    BY <2>1, <2>2
<1>2. /\ qts' \in Nat /\ qtsPhase' \in Phases /\ qtsNext' \in Nat
      /\ qtsAccepted' \in Seq(QtsRanges)
      /\ BatchOK(QtsRanges, qts', qtsPhase', qtsNext', qtsAccepted')
  <2>1. CASE QtsSame
    BY <2>1, BoxesKept
  <2>2. CASE Moved(QtsRanges, qts, qtsPhase, qtsNext, qtsAccepted,
                   qtsPhase', qtsNext', qtsAccepted')
    <3>1. /\ qts \in Nat /\ qtsPhase \in Phases /\ qtsNext \in Nat
          /\ qtsAccepted \in Seq(QtsRanges)
          /\ BatchOK(QtsRanges, qts, qtsPhase, qtsNext, qtsAccepted)
      BY DEF Inv, Typed, Busy
    <3>2. /\ qtsPhase' \in Phases /\ qtsNext' \in Nat /\ qtsAccepted' \in Seq(QtsRanges)
          /\ BatchOK(QtsRanges, qts, qtsPhase', qtsNext', qtsAccepted')
      BY <2>2, <3>1, RangeFacts, MovedBatch
    <3> QED
      BY <3>1, <3>2
  <2> QED
    BY <2>1, <2>2
<1>3. ptsPhase' # "idle" => qtsPhase' = "idle"
  BY DEF PtsSame, QtsSame
<1>4. /\ stored' \in State /\ stored'.seq = stored.seq /\ stored'.date = stored.date
      /\ ~unsaved => stored'.pts = pts' /\ QtsKept(stored'.qts, qts', settled')
  <2>1. up
    BY DEF Inv, Down
  <2> QED
    BY <2>1 DEF Inv, Synced
<1>5. /\ CoveredPts(settled', pts') /\ CoveredQts(settled', qts')
      /\ CoveredPts(settled', stored'.pts) /\ CoveredQts(settled', stored'.qts)
      /\ settled \subseteq settled'
  BY DEF Inv, Covered
<1> QED
  BY <1>1, <1>2, <1>3, <1>4, <1>5, CombinedInv

\* Putting a frame back on top of the others.
LEMMA SameStack ==
    ASSUME NEW s \in Seq(Frames), s # << >>
    PROVE  s = <<s[1]>> \o Tail(s)
OBVIOUS

\* The pts box scans in the loop of applyCombined ...
LEMMA PtsScanInv ==
    ASSUME Inv, PtsScan
    PROVE  Inv'
<1>1. /\ Pts!ScanNext \/ Pts!ScanEnd
      /\ QtsSame /\ SeqSame
      /\ UNCHANGED <<date, up, origin, stack, stored, sent, unsaved, settled>>
  BY DEF PtsScan, qtsBox, seqBox, worker, network, history, QtsSame, SeqSame
<1>2. ptsNext \in Nat
  BY DEF Inv, Typed
<1>3. /\ ptsPhase = "scan" /\ pts' = pts
      /\ Moved(PtsRanges, pts, ptsPhase, ptsNext, ptsAccepted,
               ptsPhase', ptsNext', ptsAccepted')
  BY <1>1, <1>2, PtsScanned
<1>4. /\ stack # << >> /\ stack[1].op = "combined" /\ stack[1].stage = "loop"
      /\ qtsPhase = "idle"
  BY <1>3 DEF Inv, Busy, InLoop
<1>5. /\ stack \in Seq(Frames) /\ stack[1] \in CombinedFrames
      /\ stack[1].todo \subseteq stack[1].items
  BY <1>4, InCombined
<1>6. PICK f \in CombinedFrames : f = stack[1]
  BY <1>5
<1>7. stack' = <<f>> \o Tail(stack)
  BY <1>1, <1>4, <1>5, <1>6, SameStack
<1>8. qts' = qts
  BY <1>1 DEF QtsSame
<1> QED
  BY <1>1, <1>3, <1>4, <1>5, <1>6, <1>7, <1>8, LoopInv

\* ... and so does the qts box.
LEMMA QtsScanInv ==
    ASSUME Inv, QtsScan
    PROVE  Inv'
<1>1. /\ Qts!ScanNext \/ Qts!ScanEnd
      /\ PtsSame /\ SeqSame
      /\ UNCHANGED <<date, up, origin, stack, stored, sent, unsaved, settled>>
  BY DEF QtsScan, ptsBox, seqBox, worker, network, history, PtsSame, SeqSame
<1>2. qtsNext \in Nat
  BY DEF Inv, Typed
<1>3. /\ qtsPhase = "scan" /\ qts' = qts
      /\ Moved(QtsRanges, qts, qtsPhase, qtsNext, qtsAccepted,
               qtsPhase', qtsNext', qtsAccepted')
  BY <1>1, <1>2, QtsScanned
<1>4. /\ stack # << >> /\ stack[1].op = "combined" /\ stack[1].stage = "loop"
      /\ ptsPhase = "idle"
  BY <1>3 DEF Inv, Busy, InLoop
<1>5. /\ stack \in Seq(Frames) /\ stack[1] \in CombinedFrames
      /\ stack[1].todo \subseteq stack[1].items
  BY <1>4, InCombined
<1>6. PICK f \in CombinedFrames : f = stack[1]
  BY <1>5
<1>7. stack' = <<f>> \o Tail(stack)
  BY <1>1, <1>4, <1>5, <1>6, SameStack
<1>8. pts' = pts
  BY <1>1 DEF PtsSame
<1> QED
  BY <1>1, <1>3, <1>4, <1>5, <1>6, <1>7, <1>8, LoopInv

\* An update of the container is remembered, left for the end, or handed to
\* its box.
LEMMA CombinedNextInv ==
    ASSUME Inv, CombinedNext
    PROVE  Inv'
<1>1. /\ stack # << >> /\ Top.op = "combined" /\ Top.stage = "loop"
      /\ ptsPhase = "idle" /\ qtsPhase = "idle"
      /\ UNCHANGED <<date, up, origin, stored, sent, unsaved, settled>>
  BY DEF CombinedNext, In, network, history
<1>2. Top = stack[1]
  BY <1>1, StackTop DEF Inv, Typed, Top
<1>3. /\ stack \in Seq(Frames) /\ stack[1] \in CombinedFrames
      /\ stack[1].todo \subseteq stack[1].items
      /\ stack[1].op = "combined" /\ stack[1].stage = "loop"
  BY <1>1, <1>2, InCombined
<1>4. PICK x \in Top.todo : TakeChanged(x) \/ TakePlain(x) \/ TakePts(x) \/ TakeQts(x)
  BY DEF CombinedNext, First
<1>5. x \in stack[1].items
  BY <1>2, <1>3, <1>4
<1>6. pts \in Nat /\ qts \in Nat
  BY DEF Inv, Typed
<1>7. CASE TakeChanged(x)
  <2>1. PICK f : f = [Top EXCEPT !.todo = @ \ {x}, !.items = @ \ {x}, !.changed = TRUE]
    OBVIOUS
  <2>2. /\ f \in CombinedFrames /\ f.stage = "loop" /\ f.seq = stack[1].seq
        /\ f.items = stack[1].items \ {x} /\ f.todo = stack[1].todo \ {x}
    BY <1>2, <1>3, <2>1 DEF CombinedFrames
  <2>3. x.kind = "changed" /\ stack' = <<f>> \o Tail(stack)
    BY <1>7, <2>1 DEF TakeChanged
  <2>4. PtsSame /\ QtsSame /\ SeqSame
    BY <1>7 DEF TakeChanged, boxes, ptsBox, qtsBox, seqBox, PtsSame, QtsSame, SeqSame
  <2>5. x \notin Counted
    BY <2>3 DEF Counted, Placed, Numbered, PtsItems, QtsItems
  <2>6. /\ f.items \subseteq stack[1].items /\ stack[1].items \cap Counted \subseteq f.items
        /\ f.todo \subseteq f.items /\ \E y \in stack[1].items : y.kind = "changed"
    BY <1>3, <1>5, <2>2, <2>3, <2>5
  <2>7. /\ pts' = pts /\ qts' = qts
        /\ Moved(PtsRanges, pts, ptsPhase, ptsNext, ptsAccepted,
                 ptsPhase', ptsNext', ptsAccepted')
    BY <2>4 DEF PtsSame, QtsSame, Moved
  <2> QED
    BY <1>1, <1>3, <2>2, <2>3, <2>4, <2>6, <2>7, LoopInv
<1>8. ASSUME Took(x), SeqSame, pts' = pts, qts' = qts,
             \/ /\ QtsSame
                /\ Moved(PtsRanges, pts, ptsPhase, ptsNext, ptsAccepted,
                         ptsPhase', ptsNext', ptsAccepted')
             \/ /\ PtsSame
                /\ Moved(QtsRanges, qts, qtsPhase, qtsNext, qtsAccepted,
                         qtsPhase', qtsNext', qtsAccepted')
      PROVE  Inv'
  <2>1. PICK f : f = [Top EXCEPT !.todo = @ \ {x}]
    OBVIOUS
  <2>2. /\ f \in CombinedFrames /\ f.stage = "loop" /\ f.seq = stack[1].seq
        /\ f.items = stack[1].items /\ f.todo = stack[1].todo \ {x}
        /\ f.changed = stack[1].changed
    BY <1>2, <1>3, <2>1 DEF CombinedFrames
  <2>3. stack' = <<f>> \o Tail(stack)
    BY <1>8, <2>1 DEF Took
  <2>4. /\ f.items \subseteq stack[1].items /\ stack[1].items \cap Counted \subseteq f.items
        /\ f.todo \subseteq f.items
    BY <1>3, <2>2
  <2> QED
    BY <1>1, <1>3, <1>8, <2>2, <2>3, <2>4, LoopInv
<1>9. CASE TakePlain(x)
  <2>1. Took(x) /\ PtsSame /\ QtsSame /\ SeqSame
    BY <1>9 DEF TakePlain, boxes, ptsBox, qtsBox, seqBox, PtsSame, QtsSame, SeqSame
  <2>2. /\ pts' = pts /\ qts' = qts
        /\ Moved(PtsRanges, pts, ptsPhase, ptsNext, ptsAccepted,
                 ptsPhase', ptsNext', ptsAccepted')
    BY <2>1 DEF PtsSame, QtsSame, Moved
  <2> QED
    BY <1>8, <2>1, <2>2
<1>10. CASE TakePts(x)
  <2>1. Took(x) /\ QtsSame /\ SeqSame /\ qts' = qts /\ Pts!Handle(Span(x)) /\ x \in PtsItems
    BY <1>10 DEF TakePts, qtsBox, seqBox, QtsSame, SeqSame
  <2>2. Span(x) \in PtsRanges
    BY <2>1 DEF PtsRanges
  <2>3. /\ pts' = pts
        /\ Moved(PtsRanges, pts, ptsPhase, ptsNext, ptsAccepted,
                 ptsPhase', ptsNext', ptsAccepted')
    BY <1>6, <2>1, <2>2, PtsHandled
  <2> QED
    BY <1>8, <2>1, <2>3
<1>11. CASE TakeQts(x)
  <2>1. Took(x) /\ PtsSame /\ SeqSame /\ pts' = pts /\ Qts!Handle(Span(x)) /\ x \in QtsItems
    BY <1>11 DEF TakeQts, ptsBox, seqBox, PtsSame, SeqSame
  <2>2. Span(x) \in QtsRanges
    BY <2>1 DEF QtsRanges
  <2>3. /\ qts' = qts
        /\ Moved(QtsRanges, qts, qtsPhase, qtsNext, qtsAccepted,
                 qtsPhase', qtsNext', qtsAccepted')
    BY <1>6, <2>1, <2>2, QtsHandled
  <2> QED
    BY <1>8, <2>1, <2>3
<1> QED
  BY <1>4, <1>7, <1>9, <1>10, <1>11

\* While a box applies, applyCombined is innermost.
LEMMA InApply ==
    ASSUME Inv, Applying
    PROVE  /\ stack # << >> /\ stack[1].op = "combined" /\ Top = stack[1]
           /\ stack[1] \in CombinedFrames /\ up /\ stored \in State
           /\ stack[1].todo \subseteq stack[1].items
           /\ ptsPhase \in Phases /\ qtsPhase \in Phases
           /\ \/ ptsPhase = "apply" /\ qtsPhase = "idle"
              \/ ptsPhase = "idle" /\ qtsPhase = "apply"
<1>1. ptsPhase = "apply" \/ qtsPhase = "apply"
  BY DEF Applying
<1>2. stack # << >> /\ stack[1].op = "combined"
  BY <1>1 DEF Inv, Busy, InLoop
<1>3. \/ ptsPhase = "apply" /\ qtsPhase = "idle"
      \/ ptsPhase = "idle" /\ qtsPhase = "apply"
  BY <1>1 DEF Inv, Busy
<1> QED
  BY <1>2, <1>3, InCombined DEF Inv, Typed

\* The handler has the batch: all up to the next position is settled.
LEMMA ApplyHandledInv ==
    ASSUME Inv, ApplyHandled
    PROVE  Inv'
<1>1. /\ Applying /\ Top.stage = "loop" /\ settled' = settled \cup AcceptedItems
      /\ stack' = <<[Top EXCEPT !.stage = "save"]>> \o Tail(stack)
      /\ PtsSame /\ QtsSame /\ SeqSame
      /\ UNCHANGED <<date, up, origin, stored, sent, unsaved>>
  BY DEF ApplyHandled, Goto, boxes, ptsBox, qtsBox, seqBox, network,
         PtsSame, QtsSame, SeqSame
<1>2. /\ stack # << >> /\ stack[1].op = "combined" /\ Top = stack[1]
      /\ stack[1] \in CombinedFrames /\ up /\ stored \in State
      /\ stack[1].todo \subseteq stack[1].items
      /\ \/ ptsPhase = "apply" /\ qtsPhase = "idle"
         \/ ptsPhase = "idle" /\ qtsPhase = "apply"
  BY <1>1, InApply
<1>3. PICK f : f = [Top EXCEPT !.stage = "save"]
  OBVIOUS
<1>4. /\ f \in CombinedFrames /\ f.stage = "save" /\ f.seq = stack[1].seq
      /\ f.items = stack[1].items /\ f.todo = stack[1].todo /\ f.changed = stack[1].changed
  BY <1>2, <1>3 DEF CombinedFrames
<1>5. ASSUME ptsPhase = "apply" PROVE CoveredPts(settled', ptsNext)
  <2> SUFFICES ASSUME NEW x \in PtsItems \cap Counted, x.end <= ptsNext
               PROVE  x \in settled \/ x \in AcceptedItems
    BY <1>1 DEF CoveredPts
  <2>1. /\ Span(x) \in PtsRanges /\ Span(x).start < Span(x).end
        /\ Span(x).end = x.end /\ x.end > 0
    BY ItemFacts DEF PtsRanges, Span
  <2>2. x.end <= pts \/ \E k \in 1..Len(ptsAccepted) : ptsAccepted[k] = Span(x)
    BY <1>5, <2>1 DEF Inv, Busy, BatchOK
  <2>3. DOMAIN ptsAccepted = 1..Len(ptsAccepted)
    BY DEF Inv, Typed
  <2>4. x.end <= pts => x \in settled
    BY DEF Inv, Covered, CoveredPts
  <2> QED
    BY <1>5, <2>2, <2>3, <2>4 DEF AcceptedItems
<1>6. ASSUME qtsPhase = "apply" PROVE CoveredQts(settled', qtsNext)
  <2> SUFFICES ASSUME NEW x \in QtsItems \cap Counted, x.end <= qtsNext
               PROVE  x \in settled \/ x \in AcceptedItems
    BY <1>1 DEF CoveredQts
  <2>1. /\ Span(x) \in QtsRanges /\ Span(x).start < Span(x).end
        /\ Span(x).end = x.end /\ x.end > 0
    BY ItemFacts DEF QtsRanges, Span
  <2>2. x.end <= qts \/ \E k \in 1..Len(qtsAccepted) : qtsAccepted[k] = Span(x)
    BY <1>6, <2>1 DEF Inv, Busy, BatchOK
  <2>3. DOMAIN qtsAccepted = 1..Len(qtsAccepted)
    BY DEF Inv, Typed
  <2>4. x.end <= qts => x \in settled
    BY DEF Inv, Covered, CoveredQts
  <2>5. ptsPhase # "apply"
    BY <1>2, <1>6
  <2> QED
    BY <1>6, <2>2, <2>3, <2>4, <2>5 DEF AcceptedItems
<1>7. ASSUME qtsPhase = "apply", qtsNext = 0 PROVE Rewound(settled')
  <2>1. qtsAccepted \in Seq(QtsRanges) /\ qtsAccepted # << >>
    BY <1>7 DEF Inv, Typed, Busy, BatchOK
  <2>2. PICK k \in 1..Len(qtsAccepted) : qtsAccepted[k].end = 0
    BY <1>7, <2>1 DEF Inv, Busy, BatchOK
  <2>3. k \in DOMAIN qtsAccepted /\ qtsAccepted[k] \in QtsRanges
    BY <2>1
  <2>4. PICK x \in QtsItems : qtsAccepted[k] = Span(x)
    BY <2>3 DEF QtsRanges
  <2>5. x \notin Placed
    BY <2>2, <2>4 DEF Span, Placed
  <2>6. ptsPhase # "apply"
    BY <1>2, <1>7
  <2>7. x \in AcceptedItems
    BY <2>3, <2>4, <2>6 DEF AcceptedItems
  <2> QED
    BY <1>1, <2>5, <2>7 DEF Rewound
<1>8. /\ pts' \in Nat /\ ptsPhase' \in Phases /\ ptsNext' \in Nat
      /\ ptsAccepted' \in Seq(PtsRanges)
      /\ BatchOK(PtsRanges, pts', ptsPhase', ptsNext', ptsAccepted')
      /\ qts' \in Nat /\ qtsPhase' \in Phases /\ qtsNext' \in Nat
      /\ qtsAccepted' \in Seq(QtsRanges)
      /\ BatchOK(QtsRanges, qts', qtsPhase', qtsNext', qtsAccepted')
  BY <1>1, BoxesKept
<1>9. /\ pts' = pts /\ qts' = qts /\ ptsPhase' = ptsPhase /\ qtsPhase' = qtsPhase
      /\ ptsNext' = ptsNext /\ qtsNext' = qtsNext
  BY <1>1 DEF PtsSame, QtsSame
<1>10. /\ stored' \in State /\ stored'.seq = stored.seq /\ stored'.date = stored.date
      /\ ~unsaved => stored'.pts = pts' /\ QtsKept(stored'.qts, qts', settled')
  <2>1. settled \subseteq settled'
    BY <1>1
  <2> QED
    BY <1>1, <1>2, <1>9, <2>1, QtsKeptGrows DEF Inv, Synced
<1>11. /\ CoveredPts(settled', pts') /\ CoveredQts(settled', qts')
       /\ CoveredPts(settled', stored'.pts) /\ CoveredQts(settled', stored'.qts)
       /\ settled \subseteq settled'
  <2>1. settled \subseteq settled'
    BY <1>1
  <2> QED
    BY <1>1, <1>9, <2>1, CoverGrows DEF Inv, Covered
<1>12. /\ ptsPhase' = "apply" \/ qtsPhase' = "apply"
       /\ ptsPhase' = "apply" => CoveredPts(settled', ptsNext')
       /\ qtsPhase' = "apply" =>
             CoveredQts(settled', qtsNext') /\ (qtsNext' = 0 => Rewound(settled'))
       /\ ptsPhase' # "idle" => qtsPhase' = "idle"
       /\ ptsPhase' # "scan" /\ qtsPhase' # "scan"
  BY <1>2, <1>5, <1>6, <1>9, <1>7
<1>13. stack' = <<f>> \o Tail(stack)
  BY <1>1, <1>3
<1> QED
  BY <1>1, <1>2, <1>4, <1>8, <1>10, <1>11, <1>12, <1>13, CombinedInv

\* pts takes that position, in the storage and in memory.
LEMMA SavePtsInv ==
    ASSUME Inv, SavePts
    PROVE  Inv'
<1>1. /\ ptsPhase = "apply" /\ Top.stage = "save"
      /\ stored' = [stored EXCEPT !.pts = ptsNext] /\ Pts!ApplyOk
      /\ stack' = <<[Top EXCEPT !.stage = "loop"]>> \o Tail(stack)
      /\ QtsSame /\ SeqSame
      /\ UNCHANGED <<date, up, origin, sent, unsaved, settled>>
  BY DEF SavePts, Goto, qtsBox, seqBox, network, history, QtsSame, SeqSame
<1>2. /\ stack # << >> /\ stack[1].op = "combined" /\ Top = stack[1]
      /\ stack[1] \in CombinedFrames /\ up /\ stored \in State
      /\ stack[1].todo \subseteq stack[1].items /\ qtsPhase = "idle"
  BY <1>1, InApply DEF Applying
<1>3. PICK f : f = [Top EXCEPT !.stage = "loop"]
  OBVIOUS
<1>4. /\ f \in CombinedFrames /\ f.stage = "loop" /\ f.seq = stack[1].seq
      /\ f.items = stack[1].items /\ f.todo = stack[1].todo /\ f.changed = stack[1].changed
  BY <1>2, <1>3 DEF CombinedFrames
<1>5. /\ pts' = ptsNext /\ ptsPhase' = "idle" /\ ptsNext' = 0 /\ ptsAccepted' = << >>
  BY <1>1 DEF Pts!ApplyOk
<1>6. /\ pts' \in Nat /\ ptsPhase' \in Phases /\ ptsNext' \in Nat
      /\ ptsAccepted' \in Seq(PtsRanges)
      /\ BatchOK(PtsRanges, pts', ptsPhase', ptsNext', ptsAccepted')
  BY <1>5, EmptyAccepted DEF Inv, Typed, BatchOK, Phases
<1>7. /\ qts' \in Nat /\ qtsPhase' \in Phases /\ qtsNext' \in Nat
      /\ qtsAccepted' \in Seq(QtsRanges)
      /\ BatchOK(QtsRanges, qts', qtsPhase', qtsNext', qtsAccepted')
  BY <1>1, BoxesKept
<1>8. qts' = qts /\ qtsPhase' = "idle"
  BY <1>1, <1>2 DEF QtsSame
<1>9. /\ stored' \in State /\ stored'.seq = stored.seq /\ stored'.date = stored.date
      /\ stored'.pts = pts' /\ stored'.qts = stored.qts
  BY <1>1, <1>2, <1>5, <1>6 DEF State
<1>10. ~unsaved => QtsKept(stored'.qts, qts', settled')
  BY <1>1, <1>2, <1>8, <1>9 DEF Inv, Synced
<1>11. CoveredPts(settled', pts')
  BY <1>1, <1>2, <1>5 DEF Inv, CombinedLoop
<1>12. CoveredQts(settled', qts') /\ CoveredQts(settled', stored'.qts)
  BY <1>1, <1>8, <1>9 DEF Inv, Covered
<1>13. stack' = <<f>> \o Tail(stack) /\ settled \subseteq settled'
  BY <1>1, <1>3
<1> QED
  BY <1>1, <1>2, <1>4, <1>5, <1>6, <1>7, <1>8, <1>9, <1>10, <1>11, <1>12, <1>13, CombinedInv

\* So does qts, but the storage is not written when it is 0.
LEMMA SaveQtsInv ==
    ASSUME Inv, SaveQts
    PROVE  Inv'
<1>1. /\ qtsPhase = "apply" /\ Top.stage = "save"
      /\ stored' = IF qtsNext = 0 THEN stored ELSE [stored EXCEPT !.qts = qtsNext]
      /\ Qts!ApplyOk
      /\ stack' = <<[Top EXCEPT !.stage = "loop"]>> \o Tail(stack)
      /\ PtsSame /\ SeqSame
      /\ UNCHANGED <<date, up, origin, sent, unsaved, settled>>
  BY DEF SaveQts, Goto, ptsBox, seqBox, network, history, PtsSame, SeqSame
<1>2. /\ stack # << >> /\ stack[1].op = "combined" /\ Top = stack[1]
      /\ stack[1] \in CombinedFrames /\ up /\ stored \in State
      /\ stack[1].todo \subseteq stack[1].items /\ ptsPhase = "idle"
  BY <1>1, InApply DEF Applying
<1>3. PICK f : f = [Top EXCEPT !.stage = "loop"]
  OBVIOUS
<1>4. /\ f \in CombinedFrames /\ f.stage = "loop" /\ f.seq = stack[1].seq
      /\ f.items = stack[1].items /\ f.todo = stack[1].todo /\ f.changed = stack[1].changed
  BY <1>2, <1>3 DEF CombinedFrames
<1>5. /\ qts' = qtsNext /\ qtsPhase' = "idle" /\ qtsNext' = 0 /\ qtsAccepted' = << >>
  BY <1>1 DEF Qts!ApplyOk
<1>6. /\ qts' \in Nat /\ qtsPhase' \in Phases /\ qtsNext' \in Nat
      /\ qtsAccepted' \in Seq(QtsRanges)
      /\ BatchOK(QtsRanges, qts', qtsPhase', qtsNext', qtsAccepted')
  BY <1>5, EmptyAccepted DEF Inv, Typed, BatchOK, Phases
<1>7. /\ pts' \in Nat /\ ptsPhase' \in Phases /\ ptsNext' \in Nat
      /\ ptsAccepted' \in Seq(PtsRanges)
      /\ BatchOK(PtsRanges, pts', ptsPhase', ptsNext', ptsAccepted')
  BY <1>1, BoxesKept
<1>8. pts' = pts /\ ptsPhase' = "idle"
  BY <1>1, <1>2 DEF PtsSame
<1>9. qtsNext = 0 => Rewound(settled')
  BY <1>1, <1>2 DEF Inv, CombinedLoop
<1>10. /\ stored' \in State /\ stored'.seq = stored.seq /\ stored'.date = stored.date
       /\ stored'.pts = stored.pts
       /\ stored'.qts = IF qtsNext = 0 THEN stored.qts ELSE qts'
  BY <1>1, <1>2, <1>5, <1>6 DEF State
<1>11. QtsKept(stored'.qts, qts', settled')
  BY <1>5, <1>9, <1>10 DEF QtsKept
<1>12. ~unsaved => stored'.pts = pts'
  BY <1>2, <1>8, <1>10 DEF Inv, Synced
<1>13. CoveredQts(settled', qts')
  BY <1>1, <1>2, <1>5 DEF Inv, CombinedLoop
<1>14. CoveredPts(settled', pts') /\ CoveredPts(settled', stored'.pts)
  BY <1>1, <1>8, <1>10 DEF Inv, Covered
<1>15. stack' = <<f>> \o Tail(stack) /\ settled \subseteq settled'
  BY <1>1, <1>3
<1>16. CoveredQts(settled', stored'.qts)
  BY <1>1, <1>10, <1>13 DEF Inv, Covered
<1> QED
  BY <1>1, <1>2, <1>4, <1>5, <1>6, <1>7, <1>8, <1>10, <1>11, <1>12, <1>13, <1>14, <1>15, <1>16,
     CombinedInv

\* The handler has the whole container.
LEMMA CombinedHandledInv ==
    ASSUME Inv, CombinedHandled
    PROVE  Inv'
<1>1. /\ stack # << >> /\ Top.op = "combined" /\ ptsPhase = "idle" /\ qtsPhase = "idle"
      /\ settled' = settled \cup Top.items
      /\ stack' = <<[Top EXCEPT !.stage = "date"]>> \o Tail(stack)
      /\ PtsSame /\ QtsSame /\ SeqSame
      /\ UNCHANGED <<date, up, origin, stored, sent, unsaved>>
  BY DEF CombinedHandled, In, Goto, boxes, ptsBox, qtsBox, seqBox, network,
         PtsSame, QtsSame, SeqSame
<1>2. Top = stack[1]
  BY <1>1, StackTop DEF Inv, Typed, Top
<1>3. /\ stack[1].op = "combined" /\ stack[1] \in CombinedFrames /\ up /\ stored \in State
      /\ stack[1].todo \subseteq stack[1].items
  BY <1>1, <1>2, InCombined
<1>4. PICK f : f = [Top EXCEPT !.stage = "date"]
  OBVIOUS
<1>5. /\ f \in CombinedFrames /\ f.stage = "date" /\ f.seq = stack[1].seq
      /\ f.items = stack[1].items /\ f.todo = stack[1].todo /\ f.changed = stack[1].changed
  BY <1>2, <1>3, <1>4 DEF CombinedFrames
<1>6. /\ pts' \in Nat /\ ptsPhase' \in Phases /\ ptsNext' \in Nat
      /\ ptsAccepted' \in Seq(PtsRanges)
      /\ BatchOK(PtsRanges, pts', ptsPhase', ptsNext', ptsAccepted')
      /\ qts' \in Nat /\ qtsPhase' \in Phases /\ qtsNext' \in Nat
      /\ qtsAccepted' \in Seq(QtsRanges)
      /\ BatchOK(QtsRanges, qts', qtsPhase', qtsNext', qtsAccepted')
  BY <1>1, BoxesKept
<1>7. pts' = pts /\ qts' = qts /\ ptsPhase' = "idle" /\ qtsPhase' = "idle"
  BY <1>1 DEF PtsSame, QtsSame
<1>8. /\ stored' \in State /\ stored'.seq = stored.seq /\ stored'.date = stored.date
      /\ ~unsaved => stored'.pts = pts' /\ QtsKept(stored'.qts, qts', settled')
  <2>1. settled \subseteq settled'
    BY <1>1
  <2> QED
    BY <1>1, <1>3, <1>7, <2>1, QtsKeptGrows DEF Inv, Synced
<1>9. /\ CoveredPts(settled', pts') /\ CoveredQts(settled', qts')
      /\ CoveredPts(settled', stored'.pts) /\ CoveredQts(settled', stored'.qts)
      /\ settled \subseteq settled' /\ f.items \subseteq settled'
  <2>1. settled \subseteq settled' /\ f.items \subseteq settled'
    BY <1>1, <1>2, <1>5
  <2> QED
    BY <1>1, <1>7, <2>1, CoverGrows DEF Inv, Covered
<1>10. stack' = <<f>> \o Tail(stack)
  BY <1>1, <1>4
<1> QED
  BY <1>1, <1>3, <1>5, <1>6, <1>7, <1>8, <1>9, <1>10, CombinedInv

\* What the date of a container does to the worker and to the storage.
LEMMA Dated ==
    ASSUME Inv, In("combined", "date"), date' = Max({date, Top.date}),
           NEW to, to = IF date < Top.date THEN Top.date ELSE stored.date
    PROVE  /\ stack # << >> /\ stack[1].op = "combined" /\ stack[1].stage = "date"
           /\ Top = stack[1] /\ stack[1] \in CombinedFrames /\ Nested(stack, seqPhase)
           /\ stack \in Seq(Frames) /\ up /\ stored \in State
           /\ ptsPhase = "idle" /\ qtsPhase = "idle" /\ stack[1].items \subseteq settled
           /\ stack[1].seq \in Nat
           /\ date' \in Nat /\ to \in Nat /\ (~unsaved => to = date')
<1>1. Top = stack[1] /\ stack # << >>
  BY StackTop DEF Inv, Typed, Top, In
<1>2. /\ stack[1].op = "combined" /\ stack[1].stage = "date" /\ stack[1] \in CombinedFrames
      /\ Nested(stack, seqPhase) /\ stack \in Seq(Frames) /\ up /\ stored \in State
      /\ ptsPhase = "idle" /\ qtsPhase = "idle"
  BY <1>1, InCombined DEF In
<1>3. stack[1].items \subseteq settled
  BY <1>1, <1>2 DEF Inv, CombinedLoop
<1>4. date \in Nat /\ Top.date \in Nat /\ stack[1].seq \in Nat /\ stored.date \in Nat
  BY <1>1, <1>2 DEF Inv, Typed, CombinedFrames, State
<1>5. date' = IF date < Top.date THEN Top.date ELSE date
  <2>1. \A a, b \in Nat : Max({a, b}) = IF a < b THEN b ELSE a
    BY DEF Max
  <2> QED
    BY <1>4, <2>1
<1>6. ~unsaved => stored.date = date
  BY <1>2 DEF Inv, Synced
<1> QED
  BY <1>1, <1>2, <1>3, <1>4, <1>5, <1>6

\* The end of applyCombined for a container with a seq: back to applySeq.
LEMMA CombinedSeqInv ==
    ASSUME Inv, In("combined", "date"), date' = Max({date, Top.date}),
           Top.seq > 0, SeqBox!SetState(Top.seq), UNCHANGED <<seqPhase, seqNext, seqAccepted>>,
           stored' = [stored EXCEPT !.seq = Top.seq,
                          !.date = IF date < Top.date THEN Top.date ELSE @],
           stack' = <<[stack[2] EXCEPT !.recover = @ \/ Top.changed]>>,
           PtsSame, QtsSame, UNCHANGED <<up, origin, sent, unsaved, settled>>
    PROVE  Inv'
<1>1. PICK to : to = IF date < Top.date THEN Top.date ELSE stored.date
  OBVIOUS
<1>2. /\ stack # << >> /\ stack[1].op = "combined" /\ stack[1].stage = "date"
      /\ Top = stack[1] /\ stack[1] \in CombinedFrames /\ Nested(stack, seqPhase)
      /\ stack \in Seq(Frames) /\ up /\ stored \in State
      /\ ptsPhase = "idle" /\ qtsPhase = "idle" /\ stack[1].items \subseteq settled
      /\ stack[1].seq \in Nat
      /\ date' \in Nat /\ to \in Nat /\ (~unsaved => to = date')
  BY <1>1, Dated
<1>3. PICK n \in Nat : n = Top.seq /\ n > 0
  BY <1>2
<1>4. /\ stored' \in State /\ stored'.seq = n /\ stored'.date = to
      /\ stored'.pts = stored.pts /\ stored'.qts = stored.qts
  BY <1>1, <1>2, <1>3 DEF State
<1>5. seq' = n /\ seqPending' = SeqBox!TrimStale(n, seqPending)
  BY <1>3 DEF SeqBox!SetState
<1>6. /\ seqPending' \in [SeqRanges -> Nat]
      /\ \A r \in SeqRanges : seqPending'[r] > 0 => seqPending[r] > 0
  BY <1>5, SeqHeld DEF Inv, Typed
<1>7. /\ Len(stack) = 2 /\ stack[2].op = "applySeq" /\ stack[2].stage = "loop"
      /\ 2 \in 1..Len(stack) /\ 2 \in 2..Len(stack)
  BY <1>2, <1>3 DEF Nested
<1>8. stack[2] \in ApplySeqFrames
  BY <1>2, <1>7, StackTop, FrameKinds
<1>9. PICK q : q = [stack[2] EXCEPT !.recover = @ \/ Top.changed]
  OBVIOUS
<1>10. Top.changed \in BOOLEAN /\ stack[2].recover \in BOOLEAN
  BY <1>2, <1>8 DEF CombinedFrames, ApplySeqFrames
<1>11. (stack[2].recover \/ Top.changed) \in BOOLEAN
  BY <1>10
<1>12. /\ q \in ApplySeqFrames /\ q \in Frames /\ q.op = "applySeq" /\ q.stage = "loop"
       /\ q.todo = stack[2].todo
  BY <1>7, <1>8, <1>9, <1>11 DEF ApplySeqFrames, Frames
<1>13. /\ stack' \in Seq(Frames) /\ stack' # << >> /\ Len(stack') = 1 /\ stack'[1] = q
       /\ \A k \in 1..Len(stack') : k = 1
  BY <1>9, <1>12, OneFrame
<1>14. seqPhase = "apply" /\ seqPhase' = "apply"
  BY <1>2, <1>7 DEF Nested
<1>15. Typed'
  BY <1>2, <1>4, <1>5, <1>6, <1>13 DEF Inv, Typed, PtsSame, QtsSame
<1>16. Nested(stack', seqPhase')
  BY <1>12, <1>13, <1>14, NestedOne DEF Phases
<1>17. Busy' /\ Down'
  BY <1>2 DEF Busy, BatchOK, Down, PtsSame, QtsSame
<1>18. SeqBatch'
  BY <1>6, <1>13 DEF Inv, SeqBatch
<1>19. CoveredSeq(settled, n)
  <2>1. /\ \A i \in Containers : Sent[i].seq = n => Sent[i].items \cap Counted \subseteq settled
        /\ \E r \in SeqRanges : r.start = seq /\ r.end = n
    BY <1>2, <1>3 DEF Inv, CombinedLoop
  <2>2. CoveredSeq(settled, seq)
    BY DEF Inv, Covered
  <2>3. PICK c \in Containers : Sent[c].seq = n /\ SeqRange(c).start = seq
    BY <2>1, SeqFacts
  <2>4. ASSUME NEW i \in Containers, 0 < Sent[i].seq, Sent[i].seq <= n
        PROVE  Sent[i].seq = n \/ Sent[i].seq <= seq
    <3>1. i = c \/ i < c \/ c < i
      BY SentFacts DEF Containers
    <3>2. Sent[i].seq \in Nat /\ Sent[c].seq \in Nat
      BY SeqFacts
    <3>3. c < i => Sent[c].seq < Sent[i].seq
      BY <1>3, <2>3, <2>4, SeqFacts
    <3>4. i < c => Sent[i].seq <= seq
      BY <1>3, <2>3, <2>4, SeqFacts
    <3> QED
      BY <2>3, <2>4, <3>1, <3>2, <3>3, <3>4
  <2> QED
    BY <2>1, <2>2, <2>4 DEF CoveredSeq
<1>20. SeqLoop'
  <2>1. Cursor(stack[2].todo, seqNext) = n
    BY <1>2, <1>3 DEF Inv, CombinedLoop
  <2>2. Chain(stack[2].todo, Cursor(stack[2].todo, seqNext), seqNext)
    BY <1>7 DEF Inv, SeqLoop
  <2> QED
    BY <1>5, <1>12, <1>13, <1>19, <2>1, <2>2 DEF SeqLoop
<1>21. CombinedLoop' /\ Differences'
  BY <1>12, <1>13 DEF CombinedLoop, Differences
<1>22. Synced'
  BY <1>2, <1>4, <1>5 DEF Inv, Synced, PtsSame, QtsSame
<1>23. Covered'
  BY <1>4, <1>5, <1>19 DEF Inv, Covered, PtsSame, QtsSame
<1> QED
  BY <1>15, <1>16, <1>17, <1>18, <1>20, <1>21, <1>22, <1>23 DEF Inv

\* ... and for one without: it returns, or fetches a difference.
LEMMA CombinedPlainInv ==
    ASSUME Inv, In("combined", "date"), date' = Max({date, Top.date}),
           Top.seq = 0, SeqSame,
           stored' = [stored EXCEPT !.date = IF date < Top.date THEN Top.date ELSE @],
           IF Top.changed THEN TailCall(GetDifference) ELSE Return,
           PtsSame, QtsSame, UNCHANGED <<up, origin, sent, unsaved, settled>>
    PROVE  Inv'
<1>1. PICK to : to = IF date < Top.date THEN Top.date ELSE stored.date
  OBVIOUS
<1>2. /\ stack # << >> /\ stack[1].op = "combined" /\ stack[1].stage = "date"
      /\ Top = stack[1] /\ stack[1] \in CombinedFrames /\ Nested(stack, seqPhase)
      /\ stack \in Seq(Frames) /\ up /\ stored \in State
      /\ ptsPhase = "idle" /\ qtsPhase = "idle" /\ stack[1].items \subseteq settled
      /\ date' \in Nat /\ to \in Nat /\ (~unsaved => to = date')
  BY <1>1, Dated
<1>3. /\ stored' \in State /\ stored'.seq = stored.seq /\ stored'.date = to
      /\ stored'.pts = stored.pts /\ stored'.qts = stored.qts
  BY <1>1, <1>2 DEF State
<1>4. /\ Len(stack) \in {1, 2, 3} /\ stack[1].seq = 0
      /\ Len(stack) > 1 => stack[2].op = "diff" /\ stack[2].stage = "messages" /\ ~stack[1].changed
      /\ Len(stack) = 3 => stack[3].op = "applySeq" /\ stack[3].stage = "recovered"
  BY <1>2, Below
<1>5. Busy' /\ Down' /\ Synced' /\ Covered'
  <2>1. Busy' /\ Down'
    BY <1>2 DEF Busy, BatchOK, Down, PtsSame, QtsSame
  <2>2. Synced'
    BY <1>2, <1>3 DEF Inv, Synced, PtsSame, QtsSame, SeqSame
  <2>3. Covered'
    BY <1>3 DEF Inv, Covered, PtsSame, QtsSame, SeqSame
  <2> QED
    BY <2>1, <2>2, <2>3
<1>6. ASSUME stack' \in Seq(Frames) PROVE Typed'
  BY <1>2, <1>3, <1>6 DEF Inv, Typed, PtsSame, QtsSame, SeqSame
<1>7. CASE Top.changed
  <2>1. Len(stack) = 1
    <3>1. stack[1].changed
      BY <1>2, <1>7, Zenon
    <3>2. ~(Len(stack) > 1)
      BY <1>4, <3>1, Zenon
    <3>3. \A n \in {1, 2, 3} : ~(n > 1) => n = 1
      OBVIOUS
    <3> QED
      BY <1>4, <3>2, <3>3
  <2>2. Tail(stack) = << >>
    BY <1>2, <2>1, StackTop
  <2>3. /\ GetDifference \in Frames /\ GetDifference.op = "diff"
        /\ Answered(GetDifference, {}, settled', sent')
    BY NewDifference
  <2>4. stack' = <<GetDifference>> \o Tail(stack)
    BY <1>7 DEF TailCall
  <2>5. /\ stack' \in Seq(Frames) /\ stack' # << >> /\ Len(stack') = 1
        /\ stack'[1] = GetDifference
    BY <1>2, <2>1, <2>3, <2>4, Replaced
  <2>6. \A k \in 1..Len(stack') : k = 1
    BY <2>5
  <2>7. seqPhase' = "idle"
    BY <1>2, <2>1 DEF Nested, Inv, Typed, Phases, SeqSame
  <2>8. Nested(stack', seqPhase')
    BY <2>3, <2>5, <2>7, NestedOne DEF Phases
  <2>9. SeqBatch'
    BY <2>5 DEF Inv, SeqBatch, SeqSame
  <2>10. SeqLoop' /\ CombinedLoop' /\ Differences'
    BY <2>3, <2>5, <2>6 DEF SeqLoop, CombinedLoop, Differences
  <2> QED
    BY <1>5, <1>6, <2>5, <2>8, <2>9, <2>10 DEF Inv
<1>8. CASE ~Top.changed
  <2>1. stack' = Tail(stack)
    BY <1>8 DEF Return
  <2>2. /\ stack' \in Seq(Frames) /\ Len(stack') = Len(stack) - 1
        /\ stack' = << >> <=> Len(stack) = 1
        /\ \A k \in 1..(Len(stack) - 1) : stack'[k] = stack[k+1]
        /\ Len(stack) \in Nat
    BY <1>2, <2>1, StackTop
  <2>3. stack[1].op = "diff" \/ (stack[1].op = "combined" /\ stack[1].seq = 0)
    BY <1>2, <1>4
  <2>4. Nested(stack', seqPhase')
    <3>1. Nested(stack', seqPhase)
      BY <1>2, <2>1, <2>3, NestedPopped
    <3> QED
      BY <3>1 DEF SeqSame
  <2>5. \A k \in 1..Len(stack') : k + 1 \in 2..Len(stack) /\ stack'[k] = stack[k+1]
    BY <2>2
  <2>6. \A k \in 2..Len(stack) :
          /\ stack[k].op = "applySeq" =>
                /\ Chain(stack[k].todo, Cursor(stack[k].todo, seqNext'), seqNext')
                /\ stack[k].stage = "recovered" => CoveredSeq(settled', seqNext')
          /\ stack[k].op = "diff" =>
                k = 2 /\ Answered(stack[k], stack[1].items, settled', sent')
          /\ stack[k].op # "combined"
    BY <1>2, BelowKept DEF SeqSame
  <2>7. SeqBatch'
    <3>1. Len(stack) = 1 => seqPhase = "idle"
      BY <1>2 DEF Nested, Inv, Typed, Phases
    <3> QED
      BY <2>2, <3>1 DEF Inv, SeqBatch, SeqSame
  <2>8. SeqLoop'
    <3> SUFFICES ASSUME NEW k \in 1..Len(stack'), stack'[k].op = "applySeq"
                 PROVE  /\ Chain(stack'[k].todo, Cursor(stack'[k].todo, seqNext'), seqNext')
                        /\ k # 1 /\ stack'[k].stage = "recovered"
                        /\ CoveredSeq(settled', seqNext')
      BY DEF SeqLoop
    <3>1. k + 1 \in 2..Len(stack) /\ stack'[k] = stack[k+1]
      BY <2>5
    <3>2. k + 1 = 2 \/ k + 1 = 3
      BY <1>4, <3>1
    <3>3. k + 1 # 2
      BY <1>4, <2>2, <3>1
    <3>4. k + 1 = 3 /\ Len(stack) = 3
      BY <1>4, <3>1, <3>2, <3>3
    <3>5. stack'[k] = stack[3] /\ 3 \in 2..Len(stack) /\ k # 1
      BY <3>1, <3>4
    <3> QED
      BY <1>4, <2>6, <3>4, <3>5
  <2>9. CombinedLoop'
    <3>1. stack' # << >> => 1 \in 1..Len(stack')
      BY <2>2
    <3>2. stack' # << >> => stack'[1].op # "combined"
      BY <2>5, <2>6, <3>1
    <3> QED
      BY <3>2 DEF CombinedLoop
  <2>10. Differences'
    <3> SUFFICES ASSUME NEW k \in 1..Len(stack'), stack'[k].op = "diff"
                 PROVE  k = 1 /\ Answered(stack'[k], {}, settled', sent')
      BY DEF Differences
    <3>1. k + 1 \in 2..Len(stack) /\ stack'[k] = stack[k+1]
      BY <2>5
    <3>2. k + 1 = 2 /\ Answered(stack[k+1], stack[1].items, settled', sent')
      BY <2>6, <3>1
    <3>3. stack[1].items \cap Counted \subseteq {} \cup settled'
      BY <1>2
    <3>4. Answered(stack[k+1], {}, settled', sent')
      BY <3>2, <3>3, AnsweredGrows
    <3>5. k = 1
      BY <3>2
    <3> QED
      BY <3>1, <3>4, <3>5
  <2> QED
    BY <1>5, <1>6, <2>2, <2>4, <2>7, <2>8, <2>9, <2>10 DEF Inv
<1> QED
  BY <1>7, <1>8

\* The end of applyCombined.
LEMMA CombinedDateInv ==
    ASSUME Inv, CombinedDate
    PROVE  Inv'
<1>1. /\ In("combined", "date") /\ date' = Max({date, Top.date})
      /\ PtsSame /\ QtsSame /\ UNCHANGED <<up, origin, sent, unsaved, settled>>
  BY DEF CombinedDate, ptsBox, qtsBox, network, history, PtsSame, QtsSame
<1>2. CASE /\ Top.seq > 0
           /\ SeqBox!SetState(Top.seq)
           /\ UNCHANGED <<seqGaps, seqTimeout, seqPhase, seqNext, seqAccepted>>
           /\ stored' = [stored EXCEPT !.seq = Top.seq,
                             !.date = IF date < Top.date THEN Top.date ELSE @]
           /\ stack' = <<[stack[2] EXCEPT !.recover = @ \/ Top.changed]>>
  BY <1>1, <1>2, CombinedSeqInv
<1>3. CASE /\ Top.seq = 0
           /\ UNCHANGED seqBox
           /\ stored' = [stored EXCEPT
                             !.date = IF date < Top.date THEN Top.date ELSE @]
           /\ IF Top.changed THEN TailCall(GetDifference) ELSE Return
  <2>1. SeqSame
    BY <1>3 DEF seqBox, SeqSame
  <2> QED
    BY <1>1, <1>3, <2>1, CombinedPlainInv
<1> QED
  BY <1>2, <1>3 DEF CombinedDate

\* The calls that may fail find neither box in its scan.
LEMMA StorageFailsInv ==
    ASSUME Inv, StorageFails
    PROVE  Inv'
<1>1. Fail /\ UNCHANGED <<stored, sent, unsaved, settled>>
  BY DEF StorageFails, Failure, history
<1>2. ptsPhase # "scan" /\ qtsPhase # "scan" /\ stack # << >>
  BY InApply DEF StorageFails, In
<1> QED
  BY <1>1, <1>2, FailInv

\* The same of an error of the handler.
LEMMA HandlerFailsInv ==
    ASSUME Inv, HandlerFails
    PROVE  Inv'
<1>1. Fail /\ UNCHANGED <<stored, sent, unsaved, settled>>
  BY DEF HandlerFails, Failure, history
<1>2. ptsPhase # "scan" /\ qtsPhase # "scan" /\ stack # << >>
  BY InApply DEF HandlerFails, In
<1> QED
  BY <1>1, <1>2, FailInv

-----------------------------------------------------------------------------
(* getDifference                                                              *)

\* What is known when getDifference is innermost.
LEMMA InDiff ==
    ASSUME Inv, NEW stage, In("diff", stage)
    PROVE  /\ stack \in Seq(Frames) /\ stack # << >> /\ Nested(stack, seqPhase)
           /\ Top = stack[1] /\ stack[1] \in DiffFrames
           /\ stack[1].op = "diff" /\ stack[1].stage = stage
           /\ ptsPhase = "idle" /\ qtsPhase = "idle" /\ up /\ stored \in State
           /\ sent \in 0..Len(Sent)
           /\ Answered(stack[1], {}, settled, sent)
<1>1. /\ stack \in Seq(Frames) /\ stack # << >> /\ Nested(stack, seqPhase)
      /\ sent \in 0..Len(Sent)
  BY DEF Inv, Typed, In
<1>2. /\ Top = stack[1] /\ stack[1] \in Frames /\ Len(stack) \in Nat /\ Len(stack) >= 1
  BY <1>1, StackTop DEF Top
<1>3. stack[1].op = "diff" /\ stack[1].stage = stage
  BY <1>2 DEF In
<1>4. stack[1] \in DiffFrames /\ 1 \in 1..Len(stack)
  BY <1>2, <1>3, FrameKinds
<1>5. up
  BY <1>1 DEF Inv, Down
<1>6. stored \in State
  BY <1>5 DEF Inv, Synced
<1>7. Answered(stack[1], {}, settled, sent)
  BY <1>3, <1>4 DEF Inv, Differences
<1> QED
  BY <1>1, <1>2, <1>3, <1>4, <1>5, <1>6, <1>7 DEF In

\* The types, the storage and the cover after a step of getDifference.
LEMMA DiffInv ==
    ASSUME Inv, up, stack' \in Seq(Frames), Nested(stack, seqPhase)', Busy', SeqBatch',
           SeqLoop', CombinedLoop', Differences', Down',
           UNCHANGED <<ptsPhase, ptsNext, ptsAccepted, qtsPhase, qtsNext, qtsAccepted,
                       seqPhase, seqNext, seqAccepted, up, origin, sent>>,
           pts' \in Nat, qts' \in Nat, seq' \in Nat, date' \in Nat, unsaved' \in BOOLEAN,
           seqPending' \in [SeqRanges -> Nat], stored' \in State,
           ~unsaved' => /\ stored'.pts = pts' /\ QtsKept(stored'.qts, qts', settled')
                        /\ stored'.date = date' /\ seq' <= stored'.seq,
           CoveredPts(settled', pts'), CoveredPts(settled', stored'.pts),
           CoveredQts(settled', qts'), CoveredQts(settled', stored'.qts),
           CoveredSeq(settled', seq'), CoveredSeq(settled', stored'.seq)
    PROVE  Inv'
<1>1. Typed'
  BY DEF Inv, Typed
<1>2. Synced'
  BY DEF Synced
<1>3. Covered'
  BY DEF Covered
<1> QED
  BY <1>1, <1>2, <1>3 DEF Inv

\* A step of getDifference that moves no counter.
LEMMA DiffKeepsInv ==
    ASSUME Inv, stack # << >>, stack[1].op = "diff",
           NEW f \in DiffFrames, stack' = <<f>> \o Tail(stack),
           settled \subseteq settled', Answered(f, {}, settled', sent),
           PtsSame, QtsSame, SeqSame, UNCHANGED <<date, up, origin, stored, sent, unsaved>>
    PROVE  Inv'
<1>1. /\ \A r \in SeqRanges : seqPending'[r] > 0 => seqPending[r] > 0
      /\ UNCHANGED <<ptsPhase, ptsNext, ptsAccepted, qtsPhase, qtsNext, qtsAccepted,
                     seqPhase, seqNext, seqAccepted>>
      /\ pts' = pts /\ qts' = qts /\ seq' = seq /\ seqPending' = seqPending
  BY DEF PtsSame, QtsSame, SeqSame
<1>2. /\ stack' \in Seq(Frames)
      /\ Nested(stack, seqPhase)' /\ Busy' /\ SeqBatch' /\ SeqLoop'
      /\ CombinedLoop' /\ Differences' /\ Down' /\ up
  BY <1>1, DiffStep
<1>3. /\ pts \in Nat /\ qts \in Nat /\ seq \in Nat /\ date \in Nat /\ unsaved \in BOOLEAN
      /\ seqPending \in [SeqRanges -> Nat]
  BY DEF Inv, Typed
<1>4. /\ stored \in State
      /\ ~unsaved => /\ stored.pts = pts /\ QtsKept(stored.qts, qts, settled')
                     /\ stored.date = date /\ seq <= stored.seq
  BY <1>2, QtsKeptGrows DEF Inv, Synced
<1>5. /\ CoveredPts(settled', pts) /\ CoveredPts(settled', stored.pts)
      /\ CoveredQts(settled', qts) /\ CoveredQts(settled', stored.qts)
      /\ CoveredSeq(settled', seq) /\ CoveredSeq(settled', stored.seq)
  BY CoverGrows DEF Inv, Covered
<1>6. /\ CoveredPts(settled', pts') /\ CoveredPts(settled', stored'.pts)
      /\ CoveredQts(settled', qts') /\ CoveredQts(settled', stored'.qts)
      /\ CoveredSeq(settled', seq') /\ CoveredSeq(settled', stored'.seq)
  BY <1>1, <1>5
<1>7. ~unsaved' => /\ stored'.pts = pts' /\ QtsKept(stored'.qts, qts', settled')
                   /\ stored'.date = date' /\ seq' <= stored'.seq
  BY <1>1, <1>4
<1> QED
  BY <1>1, <1>2, <1>3, <1>4, <1>6, <1>7, DiffInv

\* What the server has sent and the worker does not ask for is settled.
LEMMA NotMissing ==
    ASSUME Inv, NEW j
    PROVE  \A x \in SentItems(j) \cap Counted : x \in settled \/ x \in Missing(j)
<1> SUFFICES ASSUME NEW x \in SentItems(j) \cap Counted
             PROVE  x \in settled \/ x \in Missing(j)
  OBVIOUS
<1>1. x.end \in Nat /\ (x \in PtsItems \/ x \in QtsItems)
  BY ItemFacts
<1>2. pts \in Nat /\ qts \in Nat
  BY DEF Inv, Typed
<1>3. x.end > pts \/ x.end <= pts
  BY <1>1, <1>2
<1>4. x.end > qts \/ x.end <= qts
  BY <1>1, <1>2
<1> QED
  BY <1>1, <1>3, <1>4 DEF Inv, Covered, CoveredPts, CoveredQts, Missing

\* The answer: what is not missing is settled.
LEMMA RequestInv ==
    ASSUME Inv, Request
    PROVE  Inv'
<1>1. /\ In("diff", "request") /\ PtsSame /\ QtsSame /\ SeqSame
      /\ UNCHANGED <<date, up, origin, stored, sent, unsaved, settled>>
  BY DEF Request, network, history, PtsSame, QtsSame, SeqSame
<1>2. PICK kind \in {"difference", "slice", "empty", "tooLong"}, j \in 0..sent :
         \E gaps \in SUBSET Gaps(j) :
            /\ Answer(kind, j, Missing(j) \cup gaps)
            /\ TailCall(DiffFrame(
                  IF kind \in {"difference", "slice"} THEN "others" ELSE "store",
                  kind, j, Missing(j) \cup gaps))
  BY DEF Request
<1>3. PICK gaps \in SUBSET Gaps(j) :
         /\ Answer(kind, j, Missing(j) \cup gaps)
         /\ TailCall(DiffFrame(
               IF kind \in {"difference", "slice"} THEN "others" ELSE "store",
               kind, j, Missing(j) \cup gaps))
  BY <1>2
<1>4. PICK missing : missing = Missing(j) \cup gaps
  OBVIOUS
<1>5. PICK f : f = DiffFrame(IF kind \in {"difference", "slice"} THEN "others" ELSE "store",
                             kind, j, missing)
  OBVIOUS
<1>6. stack' = <<f>> \o Tail(stack)
  BY <1>5, <1>3, <1>4 DEF TailCall
<1>7. stack # << >> /\ stack[1].op = "diff" /\ sent \in 0..Len(Sent)
  BY <1>1, InDiff
<1>8. j \in 0..Len(Sent) /\ missing \in SUBSET Items
  BY <1>2, <1>7, <1>3, <1>4, SentFacts DEF Missing, Gaps
<1>9. /\ f \in DiffFrames /\ f.kind = kind /\ f.upto = j /\ f.missing = missing
      /\ f.stage = IF kind \in {"difference", "slice"} THEN "others" ELSE "store"
  BY <1>2, <1>5, <1>8 DEF DiffFrame, DiffFrames
<1>10. /\ kind # "slice" => j = sent
       /\ kind = "empty" => missing = {}
  BY <1>3, <1>4 DEF Answer
<1>11. \A x \in SentItems(j) \cap Counted : x \in settled \/ x \in missing
  BY <1>4, NotMissing
<1>12. Answered(f, {}, settled', sent)
  <2>1. \A x \in SentItems(f.upto) \cap Counted : x \in settled' \/ x \in f.missing
    BY <1>1, <1>9, <1>11
  <2>2. kind \in {"difference", "slice"} => f.stage = "others" /\ f.kind = kind
    BY <1>9
  <2>3. kind \in {"empty", "tooLong"} => f.stage = "store" /\ f.kind = kind /\ f.upto = sent
    BY <1>9, <1>10
  <2>4. CASE kind \in {"difference", "slice"}
    BY <1>9, <1>10, <2>1, <2>2, <2>4 DEF Answered
  <2>5. CASE kind = "empty"
    BY <1>9, <1>10, <2>1, <2>3, <2>5 DEF Answered
  <2>6. CASE kind = "tooLong"
    BY <2>1, <2>3, <2>6 DEF Answered
  <2> QED
    BY <1>2, <2>4, <2>5, <2>6
<1> QED
  BY <1>1, <1>6, <1>7, <1>9, <1>12, DiffKeepsInv

\* The edits of the answer run in applyCombined; the messages are still owed.
LEMMA HandleOthersInv ==
    ASSUME Inv, HandleOthers
    PROVE  Inv'
<1>1. /\ In("diff", "others") /\ PtsSame /\ QtsSame /\ SeqSame
      /\ UNCHANGED <<date, up, origin, stored, sent, unsaved, settled>>
  BY DEF HandleOthers, boxes, ptsBox, qtsBox, seqBox, network, history,
         PtsSame, QtsSame, SeqSame
<1>2. /\ stack \in Seq(Frames) /\ stack # << >> /\ Nested(stack, seqPhase)
      /\ Top = stack[1] /\ stack[1] \in DiffFrames
      /\ stack[1].op = "diff" /\ stack[1].stage = "others"
      /\ ptsPhase = "idle" /\ qtsPhase = "idle" /\ up /\ stored \in State
      /\ Answered(stack[1], {}, settled, sent)
  BY <1>1, InDiff
<1>3. PICK others : others = {x \in Top.missing : x.kind \in Others}
  OBVIOUS
<1>4. PICK d : d = [Top EXCEPT !.stage = "messages"]
  OBVIOUS
<1>5. PICK at : at = IF Top.kind = "slice" THEN ServerState(Top.upto).date ELSE 0
  OBVIOUS
<1>6. IF others = {} THEN stack' = <<d>> \o Tail(stack)
      ELSE stack' = <<Combined(others, 0, at), d>> \o Tail(stack)
  BY <1>3, <1>4, <1>5 DEF HandleOthers, TailCall
<1>7. /\ d \in DiffFrames /\ d.stage = "messages" /\ d.kind = stack[1].kind
      /\ d.upto = stack[1].upto /\ d.missing = stack[1].missing
  BY <1>2, <1>4 DEF DiffFrames
<1>8. Answered(d, others, settled', sent')
  BY <1>1, <1>2, <1>3, <1>7 DEF Answered
<1>9. CASE others = {}
  <2>1. Answered(d, {}, settled', sent)
    BY <1>1, <1>8, <1>9
  <2>2. stack' = <<d>> \o Tail(stack) /\ settled \subseteq settled'
    BY <1>1, <1>6, <1>9
  <2> QED
    BY <1>1, <1>2, <1>7, <2>1, <2>2, DiffKeepsInv
<1>10. CASE others # {}
  <2>1. PICK c : c = Combined(others, 0, at)
    OBVIOUS
  <2>2. at \in Nat /\ others \in SUBSET Items /\ OthersOnly(others)
    <3>1. Top.upto \in 0..Len(Sent) /\ Top.missing \in SUBSET Items
      BY <1>2 DEF DiffFrames
    <3>2. ServerState(Top.upto).date \in Nat
      BY <3>1, ServerFacts DEF State
    <3> QED
      BY <1>3, <1>5, <3>1, <3>2 DEF OthersOnly
  <2>3. /\ c \in CombinedFrames /\ c \in Frames /\ c.op = "combined"
        /\ c.stage = "loop" /\ c.seq = 0 /\ c.items = others /\ c.todo = others
        /\ c.changed = FALSE
    BY <2>1, <2>2 DEF Combined, CombinedFrames, Frames
  <2>4. stack' = <<c, d>> \o Tail(stack)
    BY <1>6, <1>10, <2>1
  <2>5. d \in Frames /\ d.op = "diff"
    BY <1>7 DEF Frames, DiffFrames
  <2>6. /\ stack' \in Seq(Frames) /\ stack' # << >> /\ Len(stack') = Len(stack) + 1
        /\ stack'[1] = c /\ stack'[2] = d /\ \A k \in 3..Len(stack') : stack'[k] = stack[k-1]
    BY <1>2, <2>3, <2>4, <2>5, Pushed
  <2>7. Len(stack) \in Nat /\ Len(stack) >= 1
    BY <1>2, StackTop
  <2>8. /\ \A k \in 1..Len(stack') : k = 1 \/ k = 2 \/ k \in 3..Len(stack')
        /\ \A k \in 3..Len(stack') : k - 1 \in 2..Len(stack) /\ k # 1 /\ k # 2
    BY <2>6, <2>7
  <2>9. Nested(stack', seqPhase')
    <3>1. Nested(stack', seqPhase)
      <4>1. c.seq = 0 /\ ~c.changed /\ OthersOnly(c.items)
        BY <2>2, <2>3
      <4> QED
        BY <1>2, <1>7, <2>3, <2>4, <4>1, NestedPushed
    <3> QED
      BY <1>1, <3>1 DEF SeqSame
  <2>10. Busy' /\ Down'
    BY <1>1, <1>2 DEF Busy, BatchOK, Down, PtsSame, QtsSame
  <2>11. SeqBatch'
    BY <1>1, <2>6 DEF Inv, SeqBatch, SeqSame
  <2>12. \A k \in 2..Len(stack) :
          /\ stack[k].op = "applySeq" =>
                /\ Chain(stack[k].todo, Cursor(stack[k].todo, seqNext'), seqNext')
                /\ stack[k].stage = "recovered" => CoveredSeq(settled', seqNext')
          /\ stack[k].op = "applySeq" /\ stack[k].stage = "recovered"
    <3>1. /\ Len(stack) \in {1, 2}
          /\ Len(stack) = 2 => stack[2].op = "applySeq" /\ stack[2].stage = "recovered"
      BY <1>2, Below
    <3>2. \A k \in 2..Len(stack) : k = 2 /\ Len(stack) = 2
      <4>1. \A n \in {1, 2} : \A k \in 2..n : k = 2 /\ n = 2
        OBVIOUS
      <4> QED
        BY <3>1, <4>1
    <3>3. \A k \in 2..Len(stack) : stack[k].op = "applySeq" /\ stack[k].stage = "recovered"
      BY <3>1, <3>2
    <3>4. UNCHANGED <<seqNext, sent>> /\ settled \subseteq settled'
      BY <1>1 DEF SeqSame
    <3> QED
      BY <1>2, <3>3, <3>4, BelowKept
  <2>13. SeqLoop'
    <3> SUFFICES ASSUME NEW k \in 3..Len(stack'), stack'[k].op = "applySeq"
                 PROVE  /\ Chain(stack'[k].todo, Cursor(stack'[k].todo, seqNext'), seqNext')
                        /\ stack'[k].stage = "recovered" /\ CoveredSeq(settled', seqNext')
      BY <2>3, <2>5, <2>6, <2>8 DEF SeqLoop
    <3>1. k - 1 \in 2..Len(stack) /\ stack'[k] = stack[k-1]
      BY <2>6, <2>8
    <3> QED
      BY <2>12, <3>1
  <2>14. CombinedLoop'
    BY <2>3, <2>6 DEF CombinedLoop
  <2>15. Differences'
    <3>1. \A k \in 3..Len(stack') : stack'[k].op = "applySeq"
      BY <2>6, <2>8, <2>12
    <3> QED
      BY <1>8, <2>3, <2>6, <2>8, <3>1 DEF Differences
  <2>16. Typed'
    BY <1>1, <2>6 DEF Inv, Typed, PtsSame, QtsSame, SeqSame
  <2>17. Synced' /\ Covered'
    BY <1>1 DEF Inv, Synced, Covered, PtsSame, QtsSame, SeqSame
  <2> QED
    BY <2>9, <2>10, <2>11, <2>13, <2>14, <2>15, <2>16, <2>17 DEF Inv
<1> QED
  BY <1>9, <1>10

\* The messages are settled, and with them the whole answer.
LEMMA HandleMessagesInv ==
    ASSUME Inv, HandleMessages
    PROVE  Inv'
<1>1. /\ In("diff", "messages") /\ PtsSame /\ QtsSame /\ SeqSame
      /\ settled' = settled \cup {x \in Top.missing : x.kind \notin Others}
      /\ stack' = <<[Top EXCEPT !.stage = "store"]>> \o Tail(stack)
      /\ UNCHANGED <<date, up, origin, stored, sent, unsaved>>
  BY DEF HandleMessages, Goto, boxes, ptsBox, qtsBox, seqBox, network,
         PtsSame, QtsSame, SeqSame
<1>2. /\ stack # << >> /\ Top = stack[1] /\ stack[1] \in DiffFrames
      /\ stack[1].op = "diff" /\ stack[1].stage = "messages"
      /\ Answered(stack[1], {}, settled, sent)
  BY <1>1, InDiff
<1>3. PICK f : f = [Top EXCEPT !.stage = "store"]
  OBVIOUS
<1>4. /\ f \in DiffFrames /\ f.stage = "store" /\ f.kind = stack[1].kind
      /\ f.upto = stack[1].upto /\ f.missing = stack[1].missing
  BY <1>2, <1>3 DEF DiffFrames
<1>5. stack' = <<f>> \o Tail(stack) /\ settled \subseteq settled'
  BY <1>1, <1>3
<1>6. Answered(f, {}, settled', sent)
  BY <1>1, <1>2, <1>4 DEF Answered
<1> QED
  BY <1>1, <1>2, <1>4, <1>5, <1>6, DiffKeepsInv

\* When all of an answer is settled, the position it ends at passes nothing else.
LEMMA AnswerCovered ==
    ASSUME NEW j \in 0..Len(Sent), NEW S, \A x \in SentItems(j) \cap Counted : x \in S
    PROVE  LET to == ServerState(j)
           IN CoveredPts(S, to.pts) /\ CoveredQts(S, to.qts) /\ CoveredSeq(S, to.seq)
<1>1. CoveredPts(S, ServerState(j).pts) /\ CoveredQts(S, ServerState(j).qts)
  BY ServerFacts DEF CoveredPts, CoveredQts
<1>2. CoveredSeq(S, ServerState(j).seq)
  <2>1. \A i \in 1..j : Sent[i].items \subseteq SentItems(j)
    BY SentFacts
  <2> QED
    BY <2>1, ServerFacts DEF CoveredSeq
<1> QED
  BY <1>1, <1>2

\* All counters take the position of the answer.
LEMMA StoreDifferenceInv ==
    ASSUME Inv, StoreDifference
    PROVE  Inv'
<1>1. PICK to : to = ServerState(Top.upto)
  OBVIOUS
<1>2. /\ In("diff", "store") /\ Top.kind \in {"difference", "slice"}
      /\ Persist(to)
      /\ Pts!SetState(to.pts) /\ PtsOnly
      /\ Qts!SetState(to.qts) /\ QtsOnly
      /\ SeqBox!SetState(to.seq) /\ SeqOnly
      /\ date' = to.date
      /\ IF Top.kind = "slice" THEN TailCall(GetDifference) ELSE Return
      /\ UNCHANGED <<up, origin, settled>>
  BY <1>1 DEF StoreDifference
<1>3. /\ stack # << >> /\ Top = stack[1] /\ stack[1] \in DiffFrames
      /\ stack[1].op = "diff" /\ stack[1].stage = "store" /\ up /\ stored \in State
      /\ sent \in 0..Len(Sent) /\ Answered(stack[1], {}, settled, sent)
  BY <1>2, InDiff
<1>4. /\ stack[1].upto \in 0..Len(Sent)
      /\ stack[1].kind # "slice" => stack[1].upto = sent
      /\ \A x \in SentItems(stack[1].upto) \cap Counted : x \in settled
  BY <1>2, <1>3 DEF Answered, DiffFrames
<1>5. /\ to \in State /\ CoveredPts(settled, to.pts) /\ CoveredQts(settled, to.qts)
      /\ CoveredSeq(settled, to.seq)
  BY <1>1, <1>3, <1>4, ServerFacts, AnswerCovered
<1>6. to.pts \in Nat /\ to.qts \in Nat /\ to.seq \in Nat /\ to.date \in Nat
  BY <1>5 DEF State
<1>7. /\ pts' = to.pts /\ qts' = to.qts /\ seq' = to.seq
      /\ seqPending' = SeqBox!TrimStale(to.seq, seqPending)
      /\ UNCHANGED <<ptsPhase, ptsNext, ptsAccepted, qtsPhase, qtsNext, qtsAccepted,
                     seqPhase, seqNext, seqAccepted>>
  BY <1>2 DEF Pts!SetState, Qts!SetState, SeqBox!SetState, PtsOnly, QtsOnly, SeqOnly
<1>8. /\ seqPending' \in [SeqRanges -> Nat]
      /\ \A r \in SeqRanges : seqPending'[r] > 0 => seqPending[r] > 0
  BY <1>7, SeqHeld DEF Inv, Typed
<1>9. /\ sent' = sent
      /\ \/ stored' = to /\ unsaved' = unsaved
         \/ stored' = stored /\ unsaved' = TRUE
  BY <1>2 DEF Persist, Failure, network
<1>10. stored' \in State /\ unsaved' \in BOOLEAN /\ (~unsaved' => stored' = to)
  BY <1>3, <1>5, <1>9 DEF Inv, Typed
<1>11. ~unsaved' => /\ stored'.pts = pts' /\ QtsKept(stored'.qts, qts', settled')
                    /\ stored'.date = date' /\ seq' <= stored'.seq
  BY <1>2, <1>6, <1>7, <1>10 DEF QtsKept
<1>12. /\ CoveredPts(settled', pts') /\ CoveredPts(settled', stored'.pts)
       /\ CoveredQts(settled', qts') /\ CoveredQts(settled', stored'.qts)
       /\ CoveredSeq(settled', seq') /\ CoveredSeq(settled', stored'.seq)
  BY <1>2, <1>5, <1>7, <1>9 DEF Inv, Covered
<1>13. /\ stack' \in Seq(Frames)
       /\ Nested(stack, seqPhase)' /\ Busy' /\ SeqBatch' /\ SeqLoop'
       /\ CombinedLoop' /\ Differences' /\ Down'
  <2>1. settled \subseteq settled' /\ UNCHANGED <<up, origin, sent>>
    BY <1>2, <1>9
  <2>2. CASE Top.kind = "slice"
    <3>1. stack' = <<GetDifference>> \o Tail(stack)
      BY <1>2, <2>2 DEF TailCall
    <3>2. GetDifference \in DiffFrames /\ Answered(GetDifference, {}, settled', sent)
      BY NewDifference
    <3> QED
      BY <1>3, <1>7, <1>8, <2>1, <3>1, <3>2, DiffStep
  <2>3. CASE Top.kind # "slice"
    <3>1. stack' = Tail(stack)
      BY <1>2, <2>3 DEF Return
    <3>2. to = ServerState(sent)
      BY <1>1, <1>3, <1>4, <2>3
    <3>3. ~unsaved' => stored' \in State /\ ServerState(sent).seq <= stored'.seq
      BY <1>6, <1>10, <3>2
    <3> QED
      BY <1>3, <1>7, <1>8, <2>1, <3>1, <3>3, DiffReturn
  <2> QED
    BY <2>2, <2>3
<1>14. /\ pts' \in Nat /\ qts' \in Nat /\ seq' \in Nat /\ date' \in Nat
       /\ UNCHANGED <<up, origin, sent>>
  BY <1>2, <1>6, <1>7, <1>9
<1> QED
  BY <1>3, <1>7, <1>8, <1>10, <1>11, <1>12, <1>13, <1>14, DiffInv

\* There was nothing to fetch: seq and the date take the server's values.
LEMMA StoreEmptyInv ==
    ASSUME Inv, StoreEmpty
    PROVE  Inv'
<1>1. PICK to : to = ServerState(Top.upto)
  OBVIOUS
<1>2. PICK new : new = [stored EXCEPT !.date = to.date, !.seq = to.seq]
  OBVIOUS
<1>3. /\ In("diff", "store") /\ Top.kind = "empty"
      /\ Persist(new)
      /\ SeqBox!SetState(to.seq) /\ SeqOnly
      /\ date' = to.date
      /\ stack' = Tail(stack) /\ PtsSame /\ QtsSame
      /\ UNCHANGED <<up, origin, settled>>
  BY <1>1, <1>2 DEF StoreEmpty, Return, ptsBox, qtsBox, PtsSame, QtsSame
<1>4. /\ stack # << >> /\ Top = stack[1] /\ stack[1] \in DiffFrames
      /\ stack[1].op = "diff" /\ stack[1].stage = "store" /\ up /\ stored \in State
      /\ sent \in 0..Len(Sent) /\ Answered(stack[1], {}, settled, sent)
  BY <1>3, InDiff
<1>5. /\ stack[1].upto \in 0..Len(Sent) /\ stack[1].upto = sent
      /\ \A x \in SentItems(stack[1].upto) \cap Counted : x \in settled
  BY <1>3, <1>4 DEF Answered, DiffFrames
<1>6. to \in State /\ CoveredSeq(settled, to.seq) /\ to = ServerState(sent)
  BY <1>1, <1>4, <1>5, ServerFacts, AnswerCovered
<1>7. to.seq \in Nat /\ to.date \in Nat
  BY <1>6 DEF State
<1>8. /\ new \in State /\ new.seq = to.seq /\ new.date = to.date
      /\ new.pts = stored.pts /\ new.qts = stored.qts
  BY <1>2, <1>4, <1>7 DEF State
<1>9. /\ pts' = pts /\ qts' = qts /\ seq' = to.seq
      /\ seqPending' = SeqBox!TrimStale(to.seq, seqPending)
      /\ UNCHANGED <<ptsPhase, ptsNext, ptsAccepted, qtsPhase, qtsNext, qtsAccepted,
                     seqPhase, seqNext, seqAccepted>>
  BY <1>3 DEF SeqBox!SetState, SeqOnly, PtsSame, QtsSame
<1>10. /\ seqPending' \in [SeqRanges -> Nat]
       /\ \A r \in SeqRanges : seqPending'[r] > 0 => seqPending[r] > 0
  BY <1>9, SeqHeld DEF Inv, Typed
<1>11. /\ sent' = sent
       /\ \/ stored' = new /\ unsaved' = unsaved
          \/ stored' = stored /\ unsaved' = TRUE
  BY <1>3 DEF Persist, Failure, network
<1>12. /\ stored' \in State /\ unsaved' \in BOOLEAN
       /\ ~unsaved' => stored' = new /\ ~unsaved
  BY <1>4, <1>8, <1>11 DEF Inv, Typed
<1>13. ~unsaved' => /\ stored'.pts = pts' /\ QtsKept(stored'.qts, qts', settled')
                    /\ stored'.date = date' /\ seq' <= stored'.seq
  <2>1. ~unsaved => stored.pts = pts /\ QtsKept(stored.qts, qts, settled)
    BY <1>4 DEF Inv, Synced
  <2> QED
    BY <1>3, <1>7, <1>8, <1>9, <1>12, <2>1
<1>14. /\ CoveredPts(settled', pts') /\ CoveredPts(settled', stored'.pts)
       /\ CoveredQts(settled', qts') /\ CoveredQts(settled', stored'.qts)
       /\ CoveredSeq(settled', seq') /\ CoveredSeq(settled', stored'.seq)
  BY <1>3, <1>6, <1>8, <1>9, <1>11 DEF Inv, Covered
<1>15. /\ settled \subseteq settled' /\ UNCHANGED <<up, origin, sent>>
       /\ ~unsaved' => stored' \in State /\ ServerState(sent).seq <= stored'.seq
  BY <1>3, <1>6, <1>7, <1>8, <1>11, <1>12
<1>16. /\ stack' \in Seq(Frames)
       /\ Nested(stack, seqPhase)' /\ Busy' /\ SeqBatch' /\ SeqLoop'
       /\ CombinedLoop' /\ Differences' /\ Down'
  BY <1>3, <1>4, <1>9, <1>10, <1>15, DiffReturn
<1>17. pts' \in Nat /\ qts' \in Nat /\ seq' \in Nat /\ date' \in Nat
  BY <1>3, <1>7, <1>9 DEF Inv, Typed
<1> QED
  BY <1>4, <1>9, <1>10, <1>12, <1>13, <1>14, <1>15, <1>16, <1>17, DiffInv

\* pts jumps, and what it jumps over counts as settled.
LEMMA StoreTooLongInv ==
    ASSUME Inv, StoreTooLong
    PROVE  Inv'
<1>1. PICK to : to = ServerState(Top.upto)
  OBVIOUS
<1>2. PICK new : new = [stored EXCEPT !.pts = to.pts]
  OBVIOUS
<1>3. /\ In("diff", "store") /\ Top.kind = "tooLong"
      /\ Persist(new)
      /\ Pts!SetState(to.pts) /\ PtsOnly
      /\ settled' = settled \cup (Top.missing \cap PtsItems)
      /\ stack' = <<GetDifference>> \o Tail(stack) /\ QtsSame /\ SeqSame
      /\ UNCHANGED <<date, up, origin>>
  BY <1>1, <1>2 DEF StoreTooLong, TailCall, qtsBox, seqBox, QtsSame, SeqSame
<1>4. /\ stack # << >> /\ Top = stack[1] /\ stack[1] \in DiffFrames
      /\ stack[1].op = "diff" /\ stack[1].stage = "store" /\ up /\ stored \in State
      /\ Answered(stack[1], {}, settled, sent)
  BY <1>3, InDiff
<1>5. /\ stack[1].upto \in 0..Len(Sent)
      /\ \A x \in SentItems(stack[1].upto) \cap Counted \cap PtsItems :
            x \in settled \/ x \in stack[1].missing
  BY <1>3, <1>4 DEF Answered, DiffFrames
<1>6. to \in State /\ CoveredPts(settled', to.pts)
  BY <1>1, <1>3, <1>4, <1>5, ServerFacts DEF CoveredPts
<1>7. to.pts \in Nat
  BY <1>6 DEF State
<1>8. /\ new \in State /\ new.pts = to.pts /\ new.date = stored.date
      /\ new.seq = stored.seq /\ new.qts = stored.qts
  BY <1>2, <1>4, <1>7 DEF State
<1>9. /\ pts' = to.pts /\ qts' = qts /\ seq' = seq /\ seqPending' = seqPending
      /\ UNCHANGED <<ptsPhase, ptsNext, ptsAccepted, qtsPhase, qtsNext, qtsAccepted,
                     seqPhase, seqNext, seqAccepted>>
  BY <1>3 DEF Pts!SetState, PtsOnly, QtsSame, SeqSame
<1>10. /\ sent' = sent
       /\ \/ stored' = new /\ unsaved' = unsaved
          \/ stored' = stored /\ unsaved' = TRUE
  BY <1>3 DEF Persist, Failure, network
<1>11. /\ stored' \in State /\ unsaved' \in BOOLEAN
       /\ ~unsaved' => stored' = new /\ ~unsaved
  BY <1>4, <1>8, <1>10 DEF Inv, Typed
<1>12. settled \subseteq settled'
  BY <1>3
<1>13. ~unsaved' => /\ stored'.pts = pts' /\ QtsKept(stored'.qts, qts', settled')
                    /\ stored'.date = date' /\ seq' <= stored'.seq
  <2>1. ~unsaved => /\ QtsKept(stored.qts, qts, settled')
                    /\ stored.date = date /\ seq <= stored.seq
    BY <1>4, <1>12, QtsKeptGrows DEF Inv, Synced
  <2> QED
    BY <1>3, <1>8, <1>9, <1>11, <2>1
<1>14. /\ CoveredPts(settled', pts') /\ CoveredPts(settled', stored'.pts)
       /\ CoveredQts(settled', qts') /\ CoveredQts(settled', stored'.qts)
       /\ CoveredSeq(settled', seq') /\ CoveredSeq(settled', stored'.seq)
  <2>1. /\ CoveredPts(settled', stored.pts)
        /\ CoveredQts(settled', qts) /\ CoveredQts(settled', stored.qts)
        /\ CoveredSeq(settled', seq) /\ CoveredSeq(settled', stored.seq)
    BY <1>12, CoverGrows DEF Inv, Covered
  <2> QED
    BY <1>6, <1>8, <1>9, <1>10, <2>1
<1>15. /\ UNCHANGED <<up, origin, sent>>
       /\ \A r \in SeqRanges : seqPending'[r] > 0 => seqPending[r] > 0
  BY <1>3, <1>9, <1>10
<1>16. GetDifference \in DiffFrames /\ Answered(GetDifference, {}, settled', sent)
  BY NewDifference
<1>17. /\ stack' \in Seq(Frames)
       /\ Nested(stack, seqPhase)' /\ Busy' /\ SeqBatch' /\ SeqLoop'
       /\ CombinedLoop' /\ Differences' /\ Down'
  BY <1>3, <1>4, <1>9, <1>12, <1>15, <1>16, DiffStep
<1>18. /\ pts' \in Nat /\ qts' \in Nat /\ seq' \in Nat /\ date' \in Nat
       /\ seqPending' \in [SeqRanges -> Nat]
  BY <1>3, <1>7, <1>9 DEF Inv, Typed
<1> QED
  BY <1>4, <1>9, <1>11, <1>13, <1>14, <1>15, <1>17, <1>18, DiffInv

-----------------------------------------------------------------------------
(* The theorems                                                               *)

\* The invariant holds in the beginning ...
LEMMA InvInit == Init => Inv
<1> SUFFICES ASSUME Init PROVE Inv
  OBVIOUS
<1>1. /\ pts = 0 /\ ptsPhase = "idle" /\ ptsNext = 0 /\ ptsAccepted = << >>
      /\ qts = 0 /\ qtsPhase = "idle" /\ qtsNext = 0 /\ qtsAccepted = << >>
      /\ seq = 0 /\ seqPhase = "idle" /\ seqNext = 0 /\ seqAccepted = << >>
      /\ seqPending = SeqBox!NothingPending
      /\ date = 0 /\ up = FALSE /\ origin = "timer" /\ stack = << >>
      /\ stored = NoneStored /\ sent = 0 /\ unsaved = FALSE
  BY DEF Init, Pts!NewBox, Qts!NewBox, SeqBox!NewBox
<1>2. seqPending \in [SeqRanges -> Nat] /\ \A r \in SeqRanges : ~(seqPending[r] > 0)
  BY <1>1 DEF SeqBox!NothingPending
<1>3. << >> \in Seq(Frames) /\ \A k \in 1..Len(stack) : FALSE
  BY <1>1
<1>4. Typed
  <2>1. sent \in 0..Len(Sent)
    BY <1>1, SentFacts
  <2>2. /\ 0 \in Nat /\ "idle" \in Phases /\ "timer" \in {"queue", "timer"}
        /\ FALSE \in BOOLEAN
    BY DEF Phases
  <2>3. /\ ptsAccepted \in Seq(PtsRanges) /\ qtsAccepted \in Seq(QtsRanges)
        /\ seqAccepted \in Seq(SeqRanges)
    BY <1>1, EmptyAccepted
  <2>4. stored \in State \cup {NoneStored} /\ stack \in Seq(Frames)
    BY <1>1, <1>3
  <2> QED
    BY <1>1, <1>2, <2>1, <2>2, <2>3, <2>4 DEF Typed
<1>5. Nested(stack, seqPhase)
  BY <1>1, NestedEmpty
<1>6. Busy /\ SeqBatch /\ SeqLoop /\ CombinedLoop /\ Differences /\ Down /\ Synced
  BY <1>1, <1>2, <1>3
  DEF Busy, BatchOK, SeqBatch, SeqLoop, CombinedLoop, Differences, Down, Synced
<1>7. Covered
  <2>1. stored.pts = -1 /\ stored.qts = -1 /\ stored.seq = -1
    BY <1>1 DEF NoneStored
  <2>2. \A x \in Counted : x.end \in Nat
    BY ItemFacts
  <2>3. \A i \in Containers : Sent[i].seq \in Nat
    BY InternalConstants
  <2>4. \A n \in Nat : ~(n <= -1)
    OBVIOUS
  <2>5. CoveredPts(settled, -1) /\ CoveredQts(settled, -1) /\ CoveredSeq(settled, -1)
    BY <2>2, <2>3, <2>4 DEF CoveredPts, CoveredQts, CoveredSeq
  <2> QED
    BY <1>1, <2>1, <2>5, ZeroCovered DEF Covered
<1> QED
  BY <1>4, <1>5, <1>6, <1>7 DEF Inv

\* ... and every step keeps it.
LEMMA InvNext == Inv /\ [Next]_vars => Inv'
<1> SUFFICES ASSUME Inv, [Next]_vars PROVE Inv'
  OBVIOUS
<1>1. CASE UNCHANGED vars
  BY <1>1, StutterInv
<1>2. CASE ServerSend
  BY <1>2, ServerSendInv
<1>3. CASE Start
  BY <1>3, StartInv
<1>4. CASE Crash \/ RequestFatal
  <2>1. Die /\ UNCHANGED <<stored, sent, unsaved, settled>>
    BY <1>4 DEF Crash, RequestFatal, Failure, history
  <2> QED
    BY <2>1, DieInv
<1>5. CASE \E i \in 1..sent : ReceiveUnnumbered(i) \/ ReceiveNumbered(i)
  BY <1>5, ReceiveUnnumberedInv, ReceiveNumberedInv
<1>6. CASE ReceiveTooLong \/ GapTimeout \/ IdleTimeout
  BY <1>6, AskInv
<1>7. CASE SeqScan
  BY <1>7, SeqScanInv
<1>8. CASE ApplySeq
  BY <1>8, ApplySeqInv
<1>9. CASE ApplySeqNext
  BY <1>9, ApplySeqNextInv
<1>10. CASE ApplySeqSave
  BY <1>10, ApplySeqSaveInv
<1>11. CASE ApplySeqRecovered
  BY <1>11, ApplySeqRecoveredInv
<1>12. CASE CombinedNext
  BY <1>12, CombinedNextInv
<1>13. CASE PtsScan
  BY <1>13, PtsScanInv
<1>14. CASE QtsScan
  BY <1>14, QtsScanInv
<1>15. CASE ApplyHandled
  BY <1>15, ApplyHandledInv
<1>16. CASE SavePts
  BY <1>16, SavePtsInv
<1>17. CASE SaveQts
  BY <1>17, SaveQtsInv
<1>18. CASE CombinedHandled
  BY <1>18, CombinedHandledInv
<1>19. CASE CombinedDate
  BY <1>19, CombinedDateInv
<1>20. CASE StorageFails
  BY <1>20, StorageFailsInv
<1>21. CASE Request
  BY <1>21, RequestInv
<1>22. CASE HandleOthers
  BY <1>22, HandleOthersInv
<1>23. CASE HandleMessages
  BY <1>23, HandleMessagesInv
<1>24. CASE HandlerFails
  BY <1>24, HandlerFailsInv
<1>25. CASE StoreDifference
  BY <1>25, StoreDifferenceInv
<1>26. CASE StoreEmpty
  BY <1>26, StoreEmptyInv
<1>27. CASE StoreTooLong
  BY <1>27, StoreTooLongInv
<1> QED
  BY <1>1, <1>2, <1>3, <1>4, <1>5, <1>6, <1>7, <1>8, <1>9, <1>10, <1>11, <1>12, <1>13,
     <1>14, <1>15, <1>16, <1>17, <1>18, <1>19, <1>20, <1>21, <1>22, <1>23, <1>24, <1>25,
     <1>26, <1>27
  DEF Next

\* In every state the worker of the account can reach: the calls nest as
\* applySeq, applyCombined and getDifference call each other, every batch
\* is what lies between its box's position and the next one, and what each
\* call has still to do is all that its counters have not covered.
THEOREM WorkerInvariant == Spec => []Inv
<1>1. Inv /\ UNCHANGED vars => Inv'
  BY StutterInv
<1> QED
  BY InvInit, InvNext, PTL DEF Spec

\* Whatever the order, loss or repetition of containers, whichever call fails
\* and whatever gaps and slices there are: pts, qts and seq of the worker
\* (state.go) pass an update only when the handler has it, or when the server
\* said that the difference is too long.
THEOREM CountersNeverOvertake == Spec => []NothingOvertaken
<1>1. Inv => NothingOvertaken
  BY DEF Inv, Covered, CoveredPts, CoveredQts, CoveredSeq, NothingOvertaken, Passed
<1> QED
  BY <1>1, WorkerInvariant, PTL

\* A crash loses nothing: at every moment the stored State is one from which a
\* difference fetches all that the handler has not got.
THEOREM CrashIsSafe == Spec => []CrashLosesNothing
<1>1. Inv => CrashLosesNothing
  BY DEF Inv, Covered, CoveredPts, CoveredQts, CoveredSeq, CrashLosesNothing, Passed
<1> QED
  BY <1>1, WorkerInvariant, PTL

\* When the worker waits, the stored State is the one in memory, unless a
\* write of getDifference failed, which it only logs; seq in memory may be
\* behind the stored one (the end of applySeq), never ahead of it, and qts may be
\* back at 0, in memory only, once an update with a qts of 0 has been handled.
THEOREM StorageFollows == Spec => []StorageInStep
<1>1. Inv => StorageInStep
  BY DEF Inv, Synced, QtsKept, Rewound, StorageInStep, Waiting
<1> QED
  BY <1>1, WorkerInvariant, PTL
-----------------------------------------------------------------------------
(* The worker implements SequenceReader, for pts and for qts                  *)

\* A running worker stores only positions that its counters take.
Saves ==
    /\ up /\ up' /\ settled \subseteq settled'
    /\ stored'.pts \in {stored.pts, pts'} /\ stored'.qts \in {stored.qts, qts'}

\* The worker goes down, or is down.
Stops == ~up' /\ UNCHANGED <<stored, settled>>

LEMMA SavesOrStops ==
    ASSUME Inv, [Next]_vars
    PROVE  Start \/ Stops \/ Saves
<1>1. up => stored \in [pts : Nat, qts : Nat, seq : Nat, date : Nat]
  BY DEF Inv, Synced, State
<1>2. /\ stack # << >> \/ ptsPhase # "idle" \/ qtsPhase # "idle" \/ seqPhase # "idle" => up
      /\ Waiting => up
  BY DEF Inv, Down, Waiting
<1>3. CASE UNCHANGED <<up, stored, settled>>
  BY <1>3 DEF Inv, Typed, Stops, Saves
<1>4. CASE Die /\ UNCHANGED <<stored, settled>>
  BY <1>4 DEF Die, Stops
<1>5. CASE StorageFails \/ HandlerFails
  <2>1. Fail /\ UNCHANGED <<stored, settled>>
    BY <1>5 DEF StorageFails, HandlerFails, history
  <2> QED
    BY <1>3, <1>4, <2>1 DEF Fail
<1>6. CASE ApplyHandled \/ CombinedHandled \/ HandleMessages
  <2>1. /\ UNCHANGED <<up, stored>> /\ settled \subseteq settled'
        /\ stack # << >> \/ ptsPhase # "idle" \/ qtsPhase # "idle"
    BY <1>6 DEF ApplyHandled, Applying, CombinedHandled, HandleMessages, In
  <2> QED
    BY <1>2, <2>1 DEF Saves
<1>7. CASE SavePts
  <2>1. /\ UNCHANGED <<up, settled>> /\ ptsPhase = "apply"
        /\ stored' = [stored EXCEPT !.pts = ptsNext] /\ pts' = ptsNext
    BY <1>7 DEF SavePts, Pts!ApplyOk, history
  <2> QED
    BY <1>1, <1>2, <2>1 DEF Saves
<1>8. CASE SaveQts
  <2>1. /\ UNCHANGED <<up, settled>> /\ qtsPhase = "apply"
        /\ stored' = stored \/ stored' = [stored EXCEPT !.qts = qtsNext]
        /\ qts' = qtsNext
    BY <1>8 DEF SaveQts, Qts!ApplyOk, history
  <2> QED
    BY <1>1, <1>2, <2>1 DEF Saves
<1>9. CASE ApplySeqSave \/ CombinedDate \/ StoreEmpty
  <2>1. UNCHANGED <<up, settled>> /\ stack # << >>
    BY <1>9 DEF ApplySeqSave, CombinedDate, StoreEmpty, In, history
  <2>2. stored'.pts = stored.pts /\ stored'.qts = stored.qts
    BY <1>1, <1>2, <1>9, <2>1 DEF ApplySeqSave, CombinedDate, StoreEmpty, Persist
  <2> QED
    BY <1>2, <2>1, <2>2 DEF Saves
<1>10. CASE StoreDifference
  <2>1. /\ UNCHANGED <<up, settled>> /\ stack # << >>
        /\ stored' \in {stored, ServerState(Top.upto)}
        /\ pts' = ServerState(Top.upto).pts /\ qts' = ServerState(Top.upto).qts
    BY <1>10 DEF StoreDifference, In, Persist, Pts!SetState, Qts!SetState
  <2> QED
    BY <1>2, <2>1 DEF Saves
<1>11. CASE StoreTooLong
  <2>1. /\ UNCHANGED up /\ stack # << >> /\ settled \subseteq settled'
        /\ \/ stored' = stored
           \/ stored' = [stored EXCEPT !.pts = ServerState(Top.upto).pts]
        /\ pts' = ServerState(Top.upto).pts
    BY <1>11 DEF StoreTooLong, In, Persist, Pts!SetState
  <2> QED
    BY <1>1, <1>2, <2>1 DEF Saves
<1>12. CASE Crash \/ RequestFatal
  BY <1>4, <1>12 DEF Crash, RequestFatal, history
<1>13. CASE \/ ServerSend \/ \E i \in 1..sent : ReceiveUnnumbered(i) \/ ReceiveNumbered(i)
            \/ ReceiveTooLong \/ GapTimeout \/ IdleTimeout \/ SeqScan \/ ApplySeq
            \/ ApplySeqNext \/ ApplySeqRecovered \/ CombinedNext \/ PtsScan \/ QtsScan
            \/ Request \/ HandleOthers \/ UNCHANGED vars
  BY <1>3, <1>13
  DEF ServerSend, ReceiveUnnumbered, ReceiveNumbered, ReceiveTooLong, GapTimeout,
      IdleTimeout, TimerDifference, SeqScan, ApplySeq, ApplySeqNext, ApplySeqRecovered,
      CombinedNext, PtsScan, QtsScan, Request, HandleOthers, vars, worker, history
<1> QED
  BY <1>5, <1>6, <1>7, <1>8, <1>9, <1>10, <1>11, <1>12, <1>13 DEF Next

\* A worker that starts takes over what is stored, or the server's position.
LEMMA StartReads ==
    ASSUME Inv, Start
    PROVE  /\ ~up /\ up' /\ stored' \in State /\ settled \subseteq settled'
           /\ pts' = stored'.pts /\ qts' = stored'.qts
           /\ stored # NoneStored => UNCHANGED <<stored, settled>>
<1>1. stored \in State \cup {NoneStored} /\ sent \in 0..Len(Sent)
  BY DEF Inv, Typed
<1>2. ServerState(sent) \in State
  BY <1>1, ServerFacts
<1> QED
  BY <1>1, <1>2 DEF Start, Pts!RenewBox, Qts!RenewBox

\* Each step is one of the reader of pts, and one of the reader of qts.
LEMMA ReaderStep ==
    ASSUME Inv, Inv', [Next]_vars
    PROVE  /\ [PtsReader!Next \/ PtsReader!Move]_(PtsReader!reader)
           /\ [QtsReader!Next \/ QtsReader!Move]_(QtsReader!reader)
<1>1. /\ pts \in Nat /\ qts \in Nat /\ pts' \in Nat /\ qts' \in Nat
      /\ up \in BOOLEAN /\ up' \in BOOLEAN /\ stored \in State \cup {NoneStored}
  BY DEF Inv, Typed
<1>2. /\ NoneStored.pts = -1 /\ NoneStored.qts = -1 /\ NoneStored \notin State
      /\ \A s \in State : s.pts \in Nat /\ s.qts \in Nat /\ s # NoneStored
  BY DEF NoneStored, State
<1>3. /\ \A x \in PtsItems \cap Counted : x.end <= pts' => x \in settled'
      /\ \A x \in QtsItems \cap Counted : x.end <= qts' => x \in settled'
  BY DEF Inv, Covered, CoveredPts, CoveredQts
<1>4. Known.pts \in Nat /\ Known.qts \in Nat
  BY <1>1, <1>2 DEF Known
<1>5. CASE Saves
  <2>1. stored \in State /\ stored' \in State
    BY <1>5 DEF Saves, Inv, Synced
  <2>2. Known = stored /\ Known' = stored'
    BY <1>2, <2>1 DEF Known
  <2>3. PtsReader!Move
    BY <1>1, <1>2, <1>3, <1>5, <2>1, <2>2
    DEF Saves, PtsReader!Move, PtsReader!Grow, PtsReader!Left
  <2>4. QtsReader!Move
    BY <1>1, <1>2, <1>3, <1>5, <2>1, <2>2
    DEF Saves, QtsReader!Move, QtsReader!Grow, QtsReader!Left
  <2> QED
    BY <2>3, <2>4
<1>6. CASE Stops
  <2>1. Known' = Known
    BY <1>6 DEF Stops, Known
  <2> QED
    BY <1>6, <2>1
    DEF Stops, PtsReader!Next, PtsReader!Resume, QtsReader!Next, QtsReader!Resume
<1>7. CASE Start
  <2>1. /\ ~up /\ up' /\ stored' \in State /\ settled \subseteq settled'
        /\ pts' = stored'.pts /\ qts' = stored'.qts
    BY <1>7, StartReads
  <2>2. Known' = stored'
    BY <1>2, <2>1 DEF Known
  <2>3. PtsReader!Move
    BY <1>1, <1>3, <1>4, <2>1, <2>2 DEF PtsReader!Move, PtsReader!Grow, PtsReader!Left
  <2>4. QtsReader!Move
    BY <1>1, <1>3, <1>4, <2>1, <2>2 DEF QtsReader!Move, QtsReader!Grow, QtsReader!Left
  <2> QED
    BY <2>3, <2>4
<1> QED
  BY <1>5, <1>6, <1>7, SavesOrStops

\* The worker implements SequenceReader twice over, for every log of the server, all
\* nested calls of applySeq, applyCombined and getDifference, and all failures: what
\* it stores for pts and for qts is a place from which the rest can be read.
THEOREM ImplementsReaders == Spec => AccountReads
<1>1. Init => PtsReader!Init /\ QtsReader!Init
  BY DEF Init, Known, PtsReader!Init, QtsReader!Init
<1>2. Inv /\ Inv' /\ [Next]_vars => /\ [PtsReader!Next \/ PtsReader!Move]_(PtsReader!reader)
                                     /\ [QtsReader!Next \/ QtsReader!Move]_(QtsReader!reader)
  BY ReaderStep
<1> QED
  BY <1>1, <1>2, WorkerInvariant, PTL
  DEF Spec, AccountReads, PtsReader!RepeatingSpec, QtsReader!RepeatingSpec
=============================================================================
