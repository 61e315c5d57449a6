------------------------ MODULE ConnectionPoolProofs ------------------------
(* Proofs about ConnectionPool, for every number of requests, of connections  *)
(* and of calls, and every limit.                                             *)
EXTENDS ConnectionPool, FiniteSetTheorems, SequenceTheorems, TLAPS

TypeOK ==
    /\ free \in Seq(Conns)
    /\ running \in SUBSET Conns /\ IsFiniteSet(running)
    /\ abandoned \subseteq running
    /\ freeReq \in SUBSET Requests
    /\ chan \in [Requests -> Conns \cup {None}]
    /\ conn \in [Requests -> Conns \cup {None}]
    /\ pc \in [Requests -> Places]

Having == {"popped", "creating", "using", "returning"}
Waiting == {"queued", "waiting", "stuck", "leaving"}

\* A request has a connection in these places and in no others, and is in the map,
\* or has one in its channel, only while it waits; never both.
Roles ==
    \A r \in Requests :
        /\ conn[r] # None <=> pc[r] \in Having
        /\ chan[r] # None => pc[r] \in Waiting /\ r \notin freeReq
        /\ r \in freeReq => pc[r] \in Waiting

\* A connection is in c.free once at most,
FreeOnce == \A i, j \in DOMAIN free : free[i] = free[j] => i = j

\* and in no two places at once: with a request, in a channel, or in c.free.
Exclusive ==
    \A r, s \in Requests :
        /\ conn[r] # None /\ conn[r] = conn[s] => r = s
        /\ chan[r] # None /\ chan[r] = chan[s] => r = s
        /\ conn[r] # None => conn[r] # chan[s]
        /\ conn[r] \notin ToSet(free) /\ chan[r] \notin ToSet(free)

\* No running connection is lost, unless it was abandoned.
Kept ==
    \A c \in running \ abandoned :
        \/ c \in ToSet(free)
        \/ \E r \in Requests : conn[r] = c \/ chan[r] = c

Inv ==
    /\ TypeOK /\ Roles /\ FreeOnce /\ Exclusive /\ Kept
    /\ TotalIsExact

-----------------------------------------------------------------------------
(* c.free as a sequence                                                       *)

LEMMA NoneIsNoConn == None \notin Conns
BY PoolConstants DEF None

\* pop.
LEMMA PopFacts ==
    ASSUME NEW s \in Seq(Conns), s # <<>>
    PROVE  /\ Last(s) \in Conns /\ Front(s) \in Seq(Conns)
           /\ ToSet(s) = ToSet(Front(s)) \cup {Last(s)}
           /\ (\A i, j \in DOMAIN s : s[i] = s[j] => i = j) =>
                /\ Last(s) \notin ToSet(Front(s))
                /\ \A i, j \in DOMAIN Front(s) : Front(s)[i] = Front(s)[j] => i = j
<1>1. /\ Len(s) \in Nat \ {0} /\ DOMAIN s = 1..Len(s)
      /\ DOMAIN Front(s) = 1..(Len(s) - 1)
      /\ Front(s) \in Seq(Conns)
      /\ \A i \in 1..(Len(s) - 1) : Front(s)[i] = s[i]
  BY DEF Front
<1>2. \A i \in DOMAIN s : i = Len(s) \/ i \in DOMAIN Front(s)
  BY <1>1
<1> QED
  BY <1>1, <1>2 DEF Last, ToSet

\* append.
LEMMA AppendFacts ==
    ASSUME NEW s \in Seq(Conns), NEW c \in Conns
    PROVE  /\ Append(s, c) \in Seq(Conns)
           /\ ToSet(Append(s, c)) = ToSet(s) \cup {c}
           /\ (\A i, j \in DOMAIN s : s[i] = s[j] => i = j) /\ c \notin ToSet(s) =>
                \A i, j \in DOMAIN Append(s, c) :
                    Append(s, c)[i] = Append(s, c)[j] => i = j
<1> DEFINE t == Append(s, c)
<1>1. /\ Len(s) \in Nat /\ DOMAIN s = 1..Len(s) /\ DOMAIN t = 1..(Len(s) + 1)
      /\ t \in Seq(Conns) /\ t[Len(s) + 1] = c
      /\ \A i \in 1..Len(s) : t[i] = s[i]
  OBVIOUS
<1>2. \A i \in DOMAIN t : i = Len(s) + 1 \/ i \in DOMAIN s
  BY <1>1
<1>3. \A i \in DOMAIN s : i \in DOMAIN t
  BY <1>1
<1> HIDE DEF t
<1> QED
  BY <1>1, <1>2, <1>3 DEF ToSet, t

\* Delete by index.
LEMMA RemoveFacts ==
    ASSUME NEW s \in Seq(Conns), NEW k \in DOMAIN s,
           \A i, j \in DOMAIN s : s[i] = s[j] => i = j
    PROVE  /\ RemoveAt(s, k) \in Seq(Conns)
           /\ ToSet(RemoveAt(s, k)) = ToSet(s) \ {s[k]}
           /\ \A i, j \in DOMAIN RemoveAt(s, k) :
                RemoveAt(s, k)[i] = RemoveAt(s, k)[j] => i = j
<1> DEFINE t == RemoveAt(s, k)
<1> DEFINE n == Len(s)
<1>1. n \in Nat /\ DOMAIN s = 1..n /\ k \in 1..n
  OBVIOUS
<1>2. /\ t \in Seq(Conns) /\ DOMAIN t = 1..(n - 1)
      /\ \A i \in 1..(n - 1) : t[i] = IF i < k THEN s[i] ELSE s[i + 1]
  <2> DEFINE a == SubSeq(s, 1, k - 1)
  <2> DEFINE b == SubSeq(s, k + 1, n)
  <2>1. /\ a \in Seq(Conns) /\ Len(a) = k - 1
        /\ \A i \in 1..(k - 1) : a[i] = s[i]
    BY <1>1
  <2>2. /\ b \in Seq(Conns) /\ Len(b) = n - k
        /\ \A i \in 1..(n - k) : b[i] = s[k + i]
    <3>1. \A i \in k + 1..n : s[i] \in Conns
      BY <1>1
    <3>2. k + 1 \in Int /\ n \in Int
      BY <1>1
    <3>3. /\ b \in Seq(Conns)
          /\ Len(b) = IF k + 1 <= n THEN n - (k + 1) + 1 ELSE 0
          /\ \A i \in 1..n - (k + 1) + 1 : b[i] = s[(k + 1) + i - 1]
      BY <3>1, <3>2, SubSeqProperties
    <3> HIDE DEF b, n
    <3>4. ASSUME NEW i \in 1..(n - k) PROVE b[i] = s[k + i]
      <4>1. i \in 1..n - (k + 1) + 1 /\ (k + 1) + i - 1 = k + i
        BY <1>1
      <4> QED
        BY <3>3, <4>1
    <3>5. Len(b) = n - k
      BY <1>1, <3>3
    <3> QED
      BY <3>3, <3>4, <3>5
  <2>3. t = a \o b
    BY DEF RemoveAt
  <2> HIDE DEF a, b, t
  <2>4. t \in Seq(Conns) /\ Len(t) = n - 1 /\ DOMAIN t = 1..(n - 1)
    <3>1. t \in Seq(Conns) /\ Len(t) = Len(a) + Len(b)
      BY <2>1, <2>2, <2>3, ConcatProperties
    <3> QED
      BY <1>1, <2>1, <2>2, <3>1
  <2>5. ASSUME NEW i \in 1..(n - 1) PROVE t[i] = IF i < k THEN s[i] ELSE s[i + 1]
    <3>1. i \in 1..Len(a) + Len(b)
      BY <1>1, <2>1, <2>2
    <3>2. t[i] = IF i <= Len(a) THEN a[i] ELSE b[i - Len(a)]
      BY <2>1, <2>2, <2>3, <3>1, ConcatProperties
    <3>3. CASE i < k
      BY <1>1, <2>1, <3>2, <3>3
    <3>4. CASE i >= k
      <4>1. i - Len(a) \in 1..(n - k) /\ k + (i - Len(a)) = i + 1
        BY <1>1, <2>1, <3>4
      <4> QED
        BY <1>1, <2>1, <2>2, <3>2, <3>4, <4>1
    <3> QED
      BY <1>1, <3>3, <3>4
  <2> QED
    BY <2>4, <2>5
<1> HIDE DEF t, n
<1>3. \A i \in 1..n : i # k =>
         \/ i < k /\ i \in 1..(n - 1) /\ t[i] = s[i]
         \/ i > k /\ i - 1 \in 1..(n - 1) /\ t[i - 1] = s[i]
  <2> SUFFICES ASSUME NEW i \in 1..n, i > k
               PROVE  i - 1 \in 1..(n - 1) /\ t[i - 1] = s[i]
    BY <1>1, <1>2
  <2>1. i - 1 \in 1..(n - 1) /\ ~(i - 1 < k) /\ (i - 1) + 1 = i
    BY <1>1
  <2> QED
    BY <1>2, <2>1
<1>4. \A i \in 1..(n - 1) : \E j \in 1..n : j # k /\ t[i] = s[j]
  BY <1>1, <1>2
<1>5. ASSUME NEW i \in 1..(n - 1), NEW j \in 1..(n - 1), t[i] = t[j] PROVE i = j
  <2> DEFINE Was(x) == IF x < k THEN x ELSE x + 1
  <2>1. Was(i) \in 1..n /\ t[i] = s[Was(i)]
    BY <1>1, <1>2
  <2>2. Was(j) \in 1..n /\ t[j] = s[Was(j)]
    BY <1>1, <1>2
  <2>3. Was(i) = Was(j)
    BY <1>1, <1>5, <2>1, <2>2
  <2> QED
    BY <1>1, <2>3
<1>6. ASSUME NEW c \in ToSet(t) PROVE c \in ToSet(s) /\ c # s[k]
  <2>1. PICK i \in 1..(n - 1) : c = t[i]
    BY <1>2, <1>6 DEF ToSet
  <2>2. PICK j \in 1..n : j # k /\ c = s[j]
    BY <1>4, <2>1
  <2> QED
    BY <1>1, <2>2 DEF ToSet
<1>7. ASSUME NEW c \in ToSet(s), c # s[k] PROVE c \in ToSet(t)
  <2>1. PICK i \in 1..n : c = s[i]
    BY <1>1, <1>7 DEF ToSet
  <2>2. i # k
    BY <1>7, <2>1
  <2> QED
    BY <1>2, <1>3, <2>1, <2>2 DEF ToSet
<1> QED
  BY <1>1, <1>2, <1>5, <1>6, <1>7 DEF t

LEMMA WithoutFacts ==
    ASSUME free \in Seq(Conns), FreeOnce, NEW c
    PROVE  /\ Without(c) \in Seq(Conns)
           /\ ToSet(Without(c)) = ToSet(free) \ {c}
           /\ \A i, j \in DOMAIN Without(c) : Without(c)[i] = Without(c)[j] => i = j
<1> DEFINE found == {i \in DOMAIN free : free[i] = c}
<1>1. CASE found = {}
  <2>1. c \notin ToSet(free)
    BY <1>1 DEF ToSet
  <2> QED
    BY <1>1, <2>1 DEF Without, FreeOnce
<1>2. CASE found # {}
  <2> DEFINE k == CHOOSE i \in found : TRUE
  <2>1. k \in DOMAIN free /\ free[k] = c
    BY <1>2
  <2>2. Without(c) = RemoveAt(free, k)
    BY <1>2 DEF Without
  <2> HIDE DEF k
  <2> QED
    BY <2>1, <2>2, RemoveFacts DEF FreeOnce
<1> QED
  BY <1>1, <1>2

-----------------------------------------------------------------------------
(* The inductive invariant                                                    *)

LEMMA InitInv == Init => Inv
<1> SUFFICES ASSUME Init PROVE Inv
  OBVIOUS
<1>1. ToSet(free) = {} /\ free \in Seq(Conns) /\ DOMAIN free = {}
  BY DEF Init, ToSet
<1>2. IsFiniteSet(running) /\ total = Cardinality(running)
  BY FS_EmptySet DEF Init
<1> QED
  BY <1>1, <1>2, PoolConstants
  DEF Init, Inv, TypeOK, Places, Roles, Having, FreeOnce, Exclusive, Kept,
      TotalIsExact, None

\* What the count depends on.
LEMMA CountStays ==
    ASSUME TotalIsExact, UNCHANGED <<total, running>>
    PROVE  TotalIsExact'
BY DEF TotalIsExact

\* What the places of the connections depend on.
LEMMA PlacesStay ==
    ASSUME FreeOnce, Exclusive, Kept,
           UNCHANGED <<free, running, abandoned, chan, conn>>
    PROVE  FreeOnce' /\ Exclusive' /\ Kept'
BY DEF FreeOnce, Exclusive, Kept

\* A connection dies.
LEMMA DeleteInv ==
    ASSUME Inv, NEW c \in running, NEW told, Delete(c, told), UNCHANGED <<queue, request>>
    PROVE  Inv'
<1> USE DEF Inv, queue, request
<1>1. /\ free' \in Seq(Conns) /\ ToSet(free') = ToSet(free) \ {c}
      /\ FreeOnce'
  BY WithoutFacts DEF Delete, TypeOK, FreeOnce
<1>2. TypeOK'
  BY <1>1, FS_RemoveElement DEF Delete, TypeOK
<1>3. Roles'
  BY DEF Roles
<1>4. Exclusive'
  BY <1>1 DEF Exclusive
<1>5. Kept'
  BY <1>1 DEF Kept, Delete
<1>6. TotalIsExact'
  <2>1. Cardinality(running) \in Nat
    BY FS_CardinalityType DEF TypeOK
  <2>2. Cardinality(running \ {c}) = Cardinality(running) - 1
    BY FS_RemoveElement DEF TypeOK
  <2> QED
    BY <2>1, <2>2, PoolConstants DEF Delete, TotalIsExact
<1> QED
  BY <1>1, <1>2, <1>3, <1>4, <1>5, <1>6

\* A connection goes from a request to one that waits, or to c.free.
LEMMA FinishInv ==
    ASSUME Inv, NEW r \in Requests, Finish(r)
    PROVE  Inv'
<1> USE DEF Inv, Finish, Go, Take
<1>1. /\ conn[r] \in Conns /\ r \notin freeReq /\ chan[r] = None
      /\ \A s \in Requests : conn[r] # chan[s]
      /\ conn[r] \notin ToSet(free)
  BY DEF Roles, Having, Waiting, TypeOK, Exclusive
<1>2. TotalIsExact'
  BY CountStays
<1>3. CASE /\ freeReq = {} /\ free' = Append(free, conn[r]) /\ UNCHANGED queue
  <2>1. free' \in Seq(Conns) /\ ToSet(free') = ToSet(free) \cup {conn[r]} /\ FreeOnce'
    BY <1>1, <1>3, AppendFacts DEF TypeOK, FreeOnce
  <2>2. TypeOK'
    BY <1>3, <2>1 DEF TypeOK, Places, queue
  <2>3. Roles'
    BY <1>1, <1>3 DEF Roles, TypeOK, Places, Having, Waiting, queue
  <2>4. Exclusive'
    BY <1>1, <1>3, <2>1, NoneIsNoConn DEF Exclusive, TypeOK, queue
  <2>5. Kept'
    BY <1>1, <1>3, <2>1 DEF Kept, TypeOK, queue
  <2> QED
    BY <1>2, <2>1, <2>2, <2>3, <2>4, <2>5
<1>4. ASSUME NEW w \in freeReq, freeReq' = freeReq \ {w},
             chan' = [chan EXCEPT ![w] = conn[r]], UNCHANGED free
      PROVE  Inv'
  <2>1. w \in Requests /\ w # r /\ chan[w] = None /\ pc[w] \in Waiting
    BY <1>1, <1>4 DEF Roles, TypeOK
  <2>2. TypeOK'
    BY <1>1, <1>4 DEF TypeOK, Places
  <2>3. Roles'
    BY <1>1, <1>4, <2>1 DEF Roles, TypeOK, Places, Having, Waiting
  <2>4. Exclusive' /\ FreeOnce'
    BY <1>1, <1>4, <2>1, NoneIsNoConn DEF Exclusive, FreeOnce, TypeOK
  <2>5. Kept'
    BY <1>1, <1>4, <2>1 DEF Kept, TypeOK
  <2> QED
    BY <1>2, <2>2, <2>3, <2>4, <2>5
<1> QED
  BY <1>3, <1>4 DEF Release

\* pop.
LEMMA PopFreeInv ==
    ASSUME Inv, NEW r \in Requests, PopFree(r)
    PROVE  Inv'
<1> USE DEF Inv, PopFree, Go, Take, At, queue
<1> DEFINE c == Last(free)
<1>1. /\ c \in Conns /\ free' \in Seq(Conns) /\ ToSet(free) = ToSet(free') \cup {c}
      /\ c \notin ToSet(free') /\ FreeOnce'
  BY PopFacts DEF TypeOK, FreeOnce
<1>2. conn' = [conn EXCEPT ![r] = c]
  OBVIOUS
<1> HIDE DEF c
<1>3. conn[r] = None /\ chan[r] = None /\ r \notin freeReq
  BY DEF Roles, Having, Waiting
<1>4. TotalIsExact'
  BY CountStays
<1>5. TypeOK'
  BY <1>1, <1>2 DEF TypeOK, Places
<1>6. Roles'
  BY <1>1, <1>2, <1>3, NoneIsNoConn DEF Roles, TypeOK, Places, Having, Waiting
<1>7. Exclusive'
  <2>1. c \in ToSet(free) /\ \A s \in Requests : conn[s] # c /\ chan[s] # c
    BY <1>1 DEF Exclusive
  <2> QED
    BY <1>1, <1>2, <2>1, NoneIsNoConn DEF Exclusive, TypeOK
<1>8. Kept'
  BY <1>1, <1>2, <1>3, NoneIsNoConn DEF Kept, TypeOK
<1> QED
  BY <1>1, <1>4, <1>5, <1>6, <1>7, <1>8

\* createConnection.
LEMMA CreateInv ==
    ASSUME Inv, NEW r \in Requests, Create(r)
    PROVE  Inv'
<1> USE DEF Inv, Create, Go, Take, At, queue
<1> DEFINE c == NextConn
<1>1. c \in Unused
  BY DEF NextConn
<1>2. /\ c \in Conns /\ c \notin running /\ c \notin ToSet(free)
      /\ \A s \in Requests : conn[s] # c /\ chan[s] # c
  BY <1>1 DEF Unused, Holders, Addressees
<1>3. conn' = [conn EXCEPT ![r] = c] /\ running' = running \cup {c}
  OBVIOUS
<1> HIDE DEF c
<1>4. conn[r] = None /\ chan[r] = None /\ r \notin freeReq
  BY DEF Roles, Having, Waiting
<1>5. TypeOK'
  BY <1>2, <1>3, FS_AddElement DEF TypeOK, Places
<1>6. TotalIsExact'
  <2>1. Cardinality(running) \in Nat
    BY FS_CardinalityType DEF TypeOK
  <2>2. Cardinality(running') = Cardinality(running) + 1
    BY <1>2, <1>3, FS_AddElement DEF TypeOK
  <2> QED
    BY <2>1, <2>2, PoolConstants DEF TotalIsExact, MayCreate
<1>7. Roles'
  BY <1>2, <1>3, <1>4, NoneIsNoConn DEF Roles, TypeOK, Places, Having, Waiting
<1>8. Exclusive' /\ FreeOnce'
  BY <1>2, <1>3, NoneIsNoConn DEF Exclusive, FreeOnce, TypeOK
<1>9. Kept'
  BY <1>2, <1>3, <1>4, NoneIsNoConn DEF Kept, TypeOK
<1> QED
  BY <1>5, <1>6, <1>7, <1>8, <1>9

\* A request gives up a connection that is dead, or leaves one that it created.
LEMMA LetGoInv ==
    ASSUME Inv, NEW r \in Requests, NEW place \in Places \ (Having \cup Waiting),
           pc[r] \in Having, Go(r, place), Take(r, None),
           UNCHANGED <<free, total, running, queue>>,
           abandoned' = abandoned \cup ({conn[r]} \cap running)
    PROVE  Inv'
<1> USE DEF Inv, Go, Take, queue
<1>1. TypeOK' /\ TotalIsExact'
  BY CountStays DEF TypeOK
<1>2. Roles'
  BY DEF Roles, TypeOK, Having, Waiting
<1>3. Exclusive' /\ FreeOnce'
  BY NoneIsNoConn DEF Exclusive, FreeOnce, TypeOK, ToSet
<1>4. Kept'
  BY DEF Kept, TypeOK
<1> QED
  BY <1>1, <1>2, <1>3, <1>4

\* conn := <-ch
LEMMA ReceiveInv ==
    ASSUME Inv, NEW r \in Requests, NEW place \in {"using", "returning"},
           pc[r] \in Waiting, Go(r, place), Receive(r), UNCHANGED <<pool, freeReq>>
    PROVE  Inv'
<1> USE DEF Inv, Go, Take, Receive, pool
<1>1. conn[r] = None /\ chan[r] \in Conns /\ r \notin freeReq
  BY DEF Roles, Having, Waiting, TypeOK
<1>2. TypeOK' /\ TotalIsExact'
  BY <1>1, CountStays DEF TypeOK, Places
<1>3. Roles'
  BY <1>1 DEF Roles, TypeOK, Places, Having, Waiting
<1>4. Exclusive' /\ FreeOnce'
  BY <1>1, NoneIsNoConn DEF Exclusive, FreeOnce, TypeOK, ToSet
<1>5. Kept'
  BY <1>1, NoneIsNoConn DEF Kept, TypeOK
<1> QED
  BY <1>2, <1>3, <1>4, <1>5

\* Only the request moves on, between two places of the same role.
LEMMA MoveInv ==
    ASSUME Inv, NEW r \in Requests, NEW place \in Places, Go(r, place),
           pc[r] \in Having <=> place \in Having,
           pc[r] \in Waiting => place \in Waiting,
           UNCHANGED <<pool, queue, conn>>
    PROVE  Inv'
<1> USE DEF Inv, Go, pool, queue
<1>1. TypeOK' /\ TotalIsExact' /\ FreeOnce' /\ Exclusive' /\ Kept'
  BY CountStays, PlacesStay DEF TypeOK
<1>2. Roles'
  BY DEF Roles, TypeOK
<1> QED
  BY <1>1, <1>2

\* A request enters the map or leaves it.
LEMMA QueueInv ==
    ASSUME Inv, NEW r \in Requests, NEW place \in Places \ Having, Go(r, place),
           pc[r] \notin Having, chan[r] = None, UNCHANGED <<pool, chan, conn>>,
           \/ freeReq' = freeReq \cup {r} /\ place \in Waiting
           \/ freeReq' = freeReq \ {r}
    PROVE  Inv'
<1> USE DEF Inv, Go, pool
<1>1. TypeOK' /\ TotalIsExact' /\ FreeOnce' /\ Exclusive' /\ Kept'
  BY CountStays, PlacesStay DEF TypeOK
<1>2. Roles'
  BY DEF Roles, TypeOK
<1> QED
  BY <1>1, <1>2

LEMMA InvInductive ==
    ASSUME Inv, [Next]_vars
    PROVE  Inv'
<1> USE DEF Places, Having, Waiting, At
<1>1. ASSUME NEW c \in Conns, RunReturns(c) PROVE Inv'
  BY <1>1, DeleteInv DEF RunReturns, Dead
<1>2. ASSUME NEW c \in Conns, BecomesReady(c) PROVE Inv'
  BY <1>2, CountStays, PlacesStay
  DEF BecomesReady, Inv, TypeOK, Roles, pool, queue, request
<1>3. ASSUME NEW r \in Requests, Invoke(r) PROVE Inv'
  <2>1. Go(r, "acquire") /\ pc[r] = "idle" /\ UNCHANGED <<pool, queue, conn>>
    BY <1>3 DEF Invoke
  <2> QED
    BY <2>1, MoveInv
<1>4. ASSUME NEW r \in Requests, Finish(r) PROVE Inv'
  BY <1>4, FinishInv
<1>5. ASSUME NEW r \in Requests, PopFree(r) PROVE Inv'
  BY <1>5, PopFreeInv
<1>6. ASSUME NEW r \in Requests, CheckPopped(r) PROVE Inv'
  <2>1. pc[r] = "popped" /\ UNCHANGED queue
    BY <1>6 DEF CheckPopped
  <2>2. CASE conn[r] \notin running /\ Dead(conn[r]) /\ Take(r, None) /\ Go(r, "acquire")
    <3>1. UNCHANGED pool /\ {conn[r]} \cap running = {}
      BY <2>2 DEF Dead
    <3>2. UNCHANGED <<free, total, running, queue>>
      BY <2>1, <3>1 DEF pool
    <3>3. abandoned' = abandoned \cup ({conn[r]} \cap running)
      BY <3>1 DEF pool
    <3> QED
      BY <2>1, <2>2, <3>2, <3>3, LetGoInv
  <2>3. CASE Go(r, "using") /\ UNCHANGED <<pool, signal, conn>>
    BY <2>1, <2>3, MoveInv
  <2> QED
    BY <1>6, <2>2, <2>3 DEF CheckPopped
<1>7. ASSUME NEW r \in Requests, Create(r) PROVE Inv'
  BY <1>7, CreateInv
<1>8. ASSUME NEW r \in Requests, Created(r) PROVE Inv'
  <2>1. pc[r] = "creating" /\ UNCHANGED queue
    BY <1>8 DEF Created
  <2>2. CASE conn[r] \notin running /\ Dead(conn[r]) /\ Take(r, None) /\ Go(r, "acquire")
    <3>1. UNCHANGED pool /\ {conn[r]} \cap running = {}
      BY <2>2 DEF Dead
    <3>2. UNCHANGED <<free, total, running, queue>>
      BY <2>1, <3>1 DEF pool
    <3>3. abandoned' = abandoned \cup ({conn[r]} \cap running)
      BY <3>1 DEF pool
    <3> QED
      BY <2>1, <2>2, <3>2, <3>3, LetGoInv
  <2>3. CASE Go(r, "using") /\ UNCHANGED <<pool, signal, conn>>
    BY <2>1, <2>3, MoveInv
  <2> QED
    BY <1>8, <2>2, <2>3 DEF Created
<1>9. ASSUME NEW r \in Requests, CreateCancelled(r) PROVE Inv'
  <2>1. /\ pc[r] = "creating" /\ Take(r, None) /\ Go(r, "idle")
        /\ UNCHANGED <<free, total, running, queue>>
        /\ abandoned' = abandoned \cup ({conn[r]} \cap running)
    BY <1>9 DEF CreateCancelled
  <2> QED
    BY <2>1, LetGoInv
<1>10. ASSUME NEW r \in Requests, Request(r) PROVE Inv'
  <2>1. /\ pc[r] = "acquire" /\ Go(r, "queued") /\ freeReq' = freeReq \cup {r}
        /\ UNCHANGED <<pool, chan, conn>>
    BY <1>10 DEF Request
  <2>2. chan[r] = None
    BY <2>1 DEF Inv, Roles
  <2> QED
    BY <2>1, <2>2, QueueInv
<1>11. ASSUME NEW r \in Requests, EnterSelect(r) PROVE Inv'
  <2>1. pc[r] = "queued" /\ Go(r, "waiting") /\ UNCHANGED <<pool, queue, conn>>
    BY <1>11 DEF EnterSelect
  <2> QED
    BY <2>1, MoveInv
<1>12. ASSUME NEW r \in Requests, Served(r) PROVE Inv'
  <2>1. pc[r] = "waiting" /\ Go(r, "using") /\ Receive(r) /\ UNCHANGED <<pool, freeReq>>
    BY <1>12 DEF Served, LeaveSelect
  <2> QED
    BY <2>1, ReceiveInv
<1>13. ASSUME NEW r \in Requests, Stuck(r) \/ WaitCancelled(r) PROVE Inv'
  <2>1. PICK place \in {"stuck", "leaving"} :
          pc[r] = "waiting" /\ Go(r, place) /\ UNCHANGED <<pool, queue, conn>>
    BY <1>13 DEF Stuck, WaitCancelled, LeaveSelect, queue
  <2> QED
    BY <2>1, MoveInv
<1>14. ASSUME NEW r \in Requests, DeleteRequest(r) PROVE Inv'
  <2>1. pc[r] \in {"stuck", "leaving"} /\ UNCHANGED pool
    BY <1>14 DEF DeleteRequest
  <2>2. CASE /\ r \in freeReq /\ freeReq' = freeReq \ {r}
             /\ Go(r, IF At(r, "stuck") THEN "acquire" ELSE "idle")
             /\ UNCHANGED <<chan, conn>>
    <3>1. PICK place \in {"acquire", "idle"} : Go(r, place)
      BY <2>2
    <3>2. chan[r] = None
      BY <2>2 DEF Inv, Roles
    <3> QED
      BY <2>1, <2>2, <3>1, <3>2, QueueInv
  <2>3. CASE /\ Receive(r) /\ UNCHANGED freeReq
             /\ Go(r, IF At(r, "stuck") THEN "using" ELSE "returning")
    <3>1. PICK place \in {"using", "returning"} : Go(r, place)
      BY <2>3
    <3> QED
      BY <2>1, <2>3, <3>1, ReceiveInv
  <2> QED
    BY <1>14, <2>2, <2>3 DEF DeleteRequest
<1>15. CASE Close \/ UNCHANGED vars
  BY <1>15, CountStays, PlacesStay
  DEF Close, vars, Inv, TypeOK, Roles, pool, queue, request
<1> QED
  BY <1>1, <1>2, <1>3, <1>4, <1>5, <1>6, <1>7, <1>8, <1>9, <1>10, <1>11, <1>12,
     <1>13, <1>14, <1>15
  DEF Next

LEMMA InvHolds == Spec => []Inv
BY InitInv, InvInductive, PTL DEF Spec

-----------------------------------------------------------------------------
(* The theorems                                                               *)

\* c.total is the number of connections that run and keeps to the limit,
\* whoever calls dead and however often (DC.dead, DC.acquire).
THEOREM CountIsRight == Spec => []TotalIsExact
<1>1. Inv => TotalIsExact
  BY DEF Inv
<1> QED
  BY <1>1, InvHolds, PTL

\* acquire and release lose no running connection, except one whose creator was
\* cancelled: transfer and delete of the reqMap may come in either order.
THEOREM ConnectionsKept == Spec => []NothingLost
<1>1. Inv => NothingLost
  BY NoneIsNoConn
  DEF Inv, NothingLost, Kept, Roles, TypeOK, Holders, Addressees, Queued, Having,
      Waiting
<1> QED
  BY <1>1, InvHolds, PTL

\* No connection is given to two requests, nor to one while it is free or on its
\* way to another: pop, transfer and createConnection each give away what
\* nobody else has.
Undivided ==
    \A r, s \in Requests :
        conn[r] # None =>
            /\ conn[r] = conn[s] => r = s
            /\ conn[r] # chan[s]
            /\ conn[r] \notin ToSet(free)

\* A connection is with one request at a time (DC.acquire, DC.release).
THEOREM ConnectionsUndivided == Spec => []Undivided
<1>1. Inv => Undivided
  BY DEF Inv, Undivided, Exclusive
<1> QED
  BY <1>1, InvHolds, PTL
=============================================================================
