-------------------------- MODULE RpcEngineProofs ---------------------------
(* Proofs about RpcEngine, for every number of requests, attempts, copies and *)
(* changes of salt.                                                           *)
EXTENDS RpcEngine, TLAPS

TypeOK ==
    /\ rpc \in [Ids -> Ids \cup {Nobody}]
    /\ answer \in [Requests -> Kinds \cup {None}]
    /\ result \in [Requests -> Kinds \cup {None}]
    /\ pc \in [Requests -> Places]
    /\ attempt \in [Requests -> 1..MaxAttempts]
    /\ msg \in [Requests -> 1..MaxAttempts]
    /\ executed \subseteq Ids \X Outcomes
    /\ \A r \in Requests : msg[r] <= attempt[r] /\ (pc[r] = "idle" => msg[r] = 1)

\* The ids of a request that were replaced were made without a known offset, and
\* the server has refused them for their time,
Replaced ==
    \A r \in Requests, n \in 1..MaxAttempts : n < msg[r] => <<r, n>> \in refused \ known

\* and it has executed none that is not made yet.
ExecutedIsMade ==
    \A r \in Requests, n \in Nat, k \in Outcomes :
        <<<<r, n>>, k>> \in executed => n <= msg[r]

\* e.rpc has callbacks of the running Do only, under the id that it sends.
Current ==
    \A r \in Requests, n \in 1..MaxAttempts :
        rpc[<<r, n>>] # Nobody =>
            n = msg[r] /\ rpc[<<r, n>>] = Handler(r) /\ pc[r] # "idle"

\* What an answer of the server says about its id,
Says(i, kind) ==
    /\ kind \in {"time", "resync"} => i \in refused
    /\ kind = "resync" => i \notin known
    /\ kind = "ok" => <<i, "ok">> \in executed

AnswersTrue ==
    \A r \in Requests, n \in Nat, k \in Kinds \cup {"time"} :
        <<<<r, n>>, k>> \in answers =>
            n <= msg[r] /\ pc[r] # "idle" /\ Says(<<r, n>>, k)

\* and, of the id that is sent now, a callback that is about to be called for
\* the running Do,
FetchedTrue ==
    \A r \in Requests, n \in Nat, k \in Kinds :
        <<<<r, n>>, k>> \in fetched =>
            /\ n <= attempt[r] /\ pc[r] # "idle"
            /\ n = attempt[r] => Says(Id(r), k)

\* what it was called with (Do has not been entered again at "do"), and
AnswerTrue == \A r \in Requests : pc[r] # "do" => Says(Id(r), answer[r])

\* what Do is about to return or has returned.
ResultTrue == \A r \in Requests : pc[r] \in {"leaving", "ended"} => Says(Id(r), result[r])

Inv ==
    /\ TypeOK /\ Replaced /\ ExecutedIsMade /\ Current
    /\ AnswersTrue /\ FetchedTrue /\ AnswerTrue /\ ResultTrue

-----------------------------------------------------------------------------
(* The inductive invariant                                                    *)

LEMMA InitInv == Init => Inv
<1> SUFFICES ASSUME Init PROVE Inv
  OBVIOUS
<1>1. TypeOK
  BY EngineConstants DEF Init, TypeOK, Places
<1>2. Replaced /\ ExecutedIsMade /\ Current /\ AnswersTrue /\ FetchedTrue
  BY DEF Init, Replaced, ExecutedIsMade, Current, AnswersTrue, FetchedTrue, Ids
<1>3. AnswerTrue /\ ResultTrue
  BY DEF Init, AnswerTrue, ResultTrue, Says, None
<1> QED
  BY <1>1, <1>2, <1>3 DEF Inv

LEMMA IdType ==
    ASSUME TypeOK, NEW r \in Requests
    PROVE  Id(r) \in Ids /\ Handler(r) \in Ids /\ msg[r] \in Nat /\ attempt[r] \in Nat
BY EngineConstants DEF TypeOK, Id, Handler, Ids

\* What was said stays true while no id is made.
LEMMA SaysStays ==
    ASSUME NEW i, NEW kind, Says(i, kind), UNCHANGED known,
           executed \subseteq executed', refused \subseteq refused'
    PROVE  Says(i, kind)'
BY DEF Says

\* What a copy of the id that is sent now does at the server.
LEMMA CopyFacts ==
    ASSUME Inv, NEW r \in Requests, pc[r] # "idle", Copy(Id(r)), UNCHANGED <<known, msg>>,
           \A s \in Requests : pc'[s] = "idle" => pc[s] = "idle"
    PROVE  /\ executed \subseteq executed' /\ refused \subseteq refused'
           /\ executed' \subseteq Ids \X Outcomes
           /\ ExecutedIsMade' /\ AnswersTrue'
<1> USE DEF Inv
<1>1. Id(r) \in Ids /\ msg[r] \in Nat
  BY IdType
<1>2. ASSUME NEW s \in Requests, NEW n \in Nat, <<s, n>> = Id(r)
      PROVE  s = r /\ n = msg[r]
  BY <1>2 DEF Id
<1>3. CASE UNCHANGED server
  BY <1>3 DEF server, TypeOK, ExecutedIsMade, AnswersTrue, Says
<1>4. ASSUME NEW why \in {"salt", "time"}, Refuse(Id(r), why)
      PROVE  /\ executed \subseteq executed' /\ refused \subseteq refused'
             /\ executed' \subseteq Ids \X Outcomes
             /\ ExecutedIsMade' /\ AnswersTrue'
  <2>1. /\ UNCHANGED executed /\ answers' = answers \cup {<<Id(r), why>>}
        /\ refused \subseteq refused' /\ (why = "time" => Id(r) \in refused')
    BY <1>4 DEF Refuse
  <2>2. ExecutedIsMade' /\ executed' \subseteq Ids \X Outcomes
    BY <2>1 DEF ExecutedIsMade, TypeOK
  <2>3. ASSUME NEW s \in Requests, NEW n \in Nat, NEW k \in Kinds \cup {"time"},
               <<<<s, n>>, k>> \in answers'
        PROVE  n <= msg[s] /\ pc'[s] # "idle" /\ Says(<<s, n>>, k)'
    <3>1. CASE <<<<s, n>>, k>> \in answers
      BY <2>1, <3>1, SaysStays DEF AnswersTrue
    <3>2. CASE <<s, n>> = Id(r) /\ k = why
      BY <1>1, <1>2, <2>1, <3>2 DEF Says
    <3> QED
      BY <2>1, <2>3, <3>1, <3>2
  <2> QED
    BY <2>1, <2>2, <2>3 DEF AnswersTrue
<1>5. ASSUME Execute(Id(r))
      PROVE  /\ executed \subseteq executed' /\ refused \subseteq refused'
             /\ executed' \subseteq Ids \X Outcomes
             /\ ExecutedIsMade' /\ AnswersTrue'
  <2>1. PICK outcome \in Outcomes : /\ executed' = executed \cup {<<Id(r), outcome>>}
                                    /\ answers' = answers \cup {<<Id(r), outcome>>}
                                    /\ UNCHANGED refused
    BY <1>5 DEF Execute
  <2>2. /\ executed \subseteq executed' /\ refused \subseteq refused'
        /\ executed' \subseteq Ids \X Outcomes
    BY <1>1, <2>1 DEF TypeOK
  <2>3. ExecutedIsMade'
    BY <1>1, <1>2, <2>1 DEF ExecutedIsMade
  <2>4. ASSUME NEW s \in Requests, NEW n \in Nat, NEW k \in Kinds \cup {"time"},
               <<<<s, n>>, k>> \in answers'
        PROVE  n <= msg[s] /\ pc'[s] # "idle" /\ Says(<<s, n>>, k)'
    <3>1. CASE <<<<s, n>>, k>> \in answers
      BY <2>2, <3>1, SaysStays DEF AnswersTrue
    <3>2. CASE <<s, n>> = Id(r) /\ k = outcome
      BY <1>1, <1>2, <2>1, <3>2 DEF Says, Outcomes
    <3> QED
      BY <2>1, <2>4, <3>1, <3>2
  <2> QED
    BY <2>2, <2>3, <2>4 DEF AnswersTrue
<1> QED
  BY <1>3, <1>4, <1>5 DEF Copy, Reaches

\* A request goes on in Do: it returns nothing, or what is true of its id.
LEMMA OnwardInv ==
    ASSUME Inv, NEW r \in Requests, pc[r] \notin {"idle", "do"},
           NEW place \in Places \ {"idle", "do"}, Go(r, place),
           \/ place \notin {"leaving", "ended"} /\ UNCHANGED result
           \/ \E k \in Kinds : Says(Id(r), k) /\ result' = [result EXCEPT ![r] = k],
           Copy(Id(r)), UNCHANGED <<fetched, answer, attempt, msg, ids>>,
           \/ UNCHANGED rpc
           \/ \E h \in {Nobody, Handler(r)} : rpc' = [rpc EXCEPT ![Id(r)] = h]
    PROVE  Inv'
<1> USE DEF Inv, Go, ids
<1>1. \A s \in Requests : pc'[s] = IF s = r THEN place ELSE pc[s]
  BY DEF TypeOK
<1>2. /\ executed \subseteq executed' /\ refused \subseteq refused'
      /\ executed' \subseteq Ids \X Outcomes
      /\ ExecutedIsMade' /\ AnswersTrue'
  BY <1>1, CopyFacts
<1>3. TypeOK'
  BY <1>1, <1>2, IdType DEF TypeOK
<1>4. \A s \in Requests : UNCHANGED <<Id(s), Handler(s)>>
  BY DEF Id, Handler
<1>5. Replaced' /\ Current'
  <2>1. Replaced'
    BY <1>2 DEF Replaced
  <2>2. ASSUME NEW s \in Requests, NEW n \in 1..MaxAttempts, rpc'[<<s, n>>] # Nobody
        PROVE  n = msg[s] /\ rpc'[<<s, n>>] = Handler(s) /\ pc'[s] # "idle"
    <3>1. <<s, n>> \in Ids /\ (<<s, n>> = Id(r) => s = r /\ n = msg[r])
      BY DEF Ids, Id
    <3> QED
      BY <1>1, <2>2, <3>1, IdType DEF Current, TypeOK
  <2> QED
    BY <1>4, <2>1, <2>2 DEF Current
<1>6. FetchedTrue'
  BY <1>1, <1>2, <1>4, SaysStays DEF FetchedTrue
<1>7. AnswerTrue'
  BY <1>1, <1>2, <1>4, SaysStays DEF AnswerTrue
<1>8. ResultTrue'
  BY <1>1, <1>2, <1>4, SaysStays DEF ResultTrue, TypeOK
<1> QED
  BY <1>2, <1>3, <1>5, <1>6, <1>7, <1>8

\* nextMsgSeq makes an id that no answer is about yet.
LEMMA NewIdSays ==
    ASSUME NEW r \in Requests, NEW m \in Nat, NewId(r, m), UNCHANGED <<executed, refused>>,
           NEW s \in Requests, NEW n \in Nat, NEW kind, <<s, n>> # <<r, m>>,
           Says(<<s, n>>, kind)
    PROVE  Says(<<s, n>>, kind)'
BY DEF NewId, Says

\* The first id.
LEMMA InvokeInv ==
    ASSUME Inv, NEW r \in Requests, Invoke(r)
    PROVE  Inv'
<1> USE DEF Inv, Invoke, Go, At, server, notices, engine
<1>1. \A s \in Requests : pc'[s] = IF s = r THEN "do" ELSE pc[s]
  BY DEF TypeOK
<1>2. TypeOK'
  BY <1>1 DEF TypeOK, Places
<1>3. Replaced'
  BY EngineConstants DEF Replaced, NewId, TypeOK
<1>4. ExecutedIsMade'
  BY DEF ExecutedIsMade
<1>5. Current'
  BY <1>1 DEF Current, Handler
<1>6. AnswersTrue'
  BY <1>1, NewIdSays DEF AnswersTrue
<1>7. \A s \in Requests : s # r => Id(s)' = <<s, msg[s]>> /\ Id(s) = <<s, msg[s]>> /\ msg[s] \in Nat
  BY IdType DEF Id
<1>8. FetchedTrue'
  BY <1>1, <1>7, NewIdSays DEF FetchedTrue
<1>9. AnswerTrue' /\ ResultTrue'
  BY <1>1, <1>7, NewIdSays DEF AnswerTrue, ResultTrue
<1> QED
  BY <1>2, <1>3, <1>4, <1>5, <1>6, <1>8, <1>9

LEMMA IsClosedInv ==
    ASSUME Inv, NEW r \in Requests, IsClosed(r)
    PROVE  Inv'
<1> USE DEF Inv, IsClosed, Go, At, server, engine, session, ids
<1>1. PICK place \in {"entered", "ended"} :
        /\ \A s \in Requests : pc'[s] = IF s = r THEN place ELSE pc[s]
        /\ pc' = [pc EXCEPT ![r] = place]
        /\ \/ place = "entered" /\ UNCHANGED result
           \/ place = "ended" /\ result' = [result EXCEPT ![r] = "error"]
  BY DEF TypeOK
<1>2. TypeOK'
  BY <1>1 DEF TypeOK, Places, Kinds, Outcomes
<1>3. Replaced' /\ ExecutedIsMade' /\ AnswersTrue'
  BY <1>1 DEF Replaced, ExecutedIsMade, AnswersTrue, Says
<1>4. Current' /\ FetchedTrue'
  BY <1>1 DEF Current, FetchedTrue, Handler, Id, Says
<1>5. AnswerTrue' /\ ResultTrue'
  BY <1>1 DEF AnswerTrue, ResultTrue, Id, Says, TypeOK, None
<1> QED
  BY <1>2, <1>3, <1>4, <1>5

\* The next call of Do, perhaps with a new id: only after the server said that
\* the old one was not made with the right time.
LEMMA LeaveInv ==
    ASSUME Inv, NEW r \in Requests, Leave(r)
    PROVE  Inv'
<1> USE DEF Inv, Leave, Go, At, server, notices, ids
<1>1. Id(r) \in Ids /\ msg[r] \in Nat /\ attempt[r] \in Nat /\ Id(r) = <<r, msg[r]>>
  BY IdType DEF Id
<1>2. \A n \in 1..MaxAttempts : rpc'[<<r, n>>] = Nobody
  BY <1>1 DEF Current, Ids, TypeOK
<1>3. \A s \in Requests, n \in 1..MaxAttempts : s # r => UNCHANGED rpc[<<s, n>>]
  BY <1>1 DEF Ids, TypeOK
<1>4. CASE ~Repeated(r) /\ Go(r, "ended") /\ UNCHANGED <<attempt, salt, msg, ids>>
  <2>1. \A s \in Requests : pc'[s] = IF s = r THEN "ended" ELSE pc[s]
    BY <1>4 DEF TypeOK
  <2>2. TypeOK'
    BY <1>1, <1>4, <2>1 DEF TypeOK, Places
  <2>3. Replaced' /\ ExecutedIsMade' /\ AnswersTrue'
    BY <1>4, <2>1 DEF Replaced, ExecutedIsMade, AnswersTrue, Says
  <2>4. \A s \in Requests : \A k :
          UNCHANGED <<Id(s), Handler(s)>> /\ (Says(Id(s), k) => Says(Id(s), k)')
    BY <1>4 DEF Id, Handler, Says
  <2>5. Current'
    BY <1>2, <1>3, <1>4, <2>1, <2>4 DEF Current
  <2>6. FetchedTrue'
    BY <1>4, <2>1, <2>4 DEF FetchedTrue
  <2>7. AnswerTrue' /\ ResultTrue'
    BY <1>4, <2>1, <2>4 DEF AnswerTrue, ResultTrue
  <2> QED
    BY <2>2, <2>3, <2>5, <2>6, <2>7
<1>5. CASE /\ Repeated(r) /\ Go(r, "do")
           /\ attempt' = [attempt EXCEPT ![r] = @ + 1]
           /\ IF Renumbered(r)
              THEN msg' = [msg EXCEPT ![r] = @ + 1] /\ NewId(r, msg[r] + 1)
              ELSE UNCHANGED <<msg, ids>>
  <2>1. \A s \in Requests : /\ pc'[s] = IF s = r THEN "do" ELSE pc[s]
                            /\ attempt'[s] = IF s = r THEN attempt[r] + 1 ELSE attempt[s]
                            /\ s # r => msg'[s] = msg[s]
    BY <1>5 DEF TypeOK
  <2>2. msg'[r] = IF Renumbered(r) THEN msg[r] + 1 ELSE msg[r]
    BY <1>5 DEF TypeOK
  <2>3. TypeOK'
    BY <1>1, <1>5, <2>1, <2>2, EngineConstants DEF TypeOK, Places, Repeated
  <2>4. Renumbered(r) => Id(r) \in refused \ known
    BY DEF ResultTrue, Says, Renumbered
  <2>5. \A i : i \in known' => i \in known \/ (Renumbered(r) /\ i = <<r, msg[r] + 1>>)
    BY <1>5 DEF NewId
  <2>6. Replaced'
    <3>1. ASSUME NEW s \in Requests, NEW n \in 1..MaxAttempts, n < msg'[s]
          PROVE  <<s, n>> \in refused \ known'
      <4>1. CASE s = r
        BY <1>1, <2>2, <2>4, <2>5, <3>1, <4>1, EngineConstants DEF Replaced
      <4>2. CASE s # r
        BY <2>1, <2>5, <3>1, <4>2 DEF Replaced
      <4> QED
        BY <4>1, <4>2
    <3> QED
      BY <3>1 DEF Replaced
  <2>7. ExecutedIsMade'
    <3>1. \A s \in Requests : msg[s] <= msg'[s] /\ msg[s] \in Nat /\ msg'[s] \in Nat
      BY <1>1, <2>1, <2>2, IdType
    <3> QED
      BY <3>1 DEF ExecutedIsMade
  <2>8. Current'
    <3>1. ASSUME NEW s \in Requests, NEW n \in 1..MaxAttempts, rpc'[<<s, n>>] # Nobody
          PROVE  n = msg'[s] /\ rpc'[<<s, n>>] = <<s, attempt'[s]>> /\ pc'[s] # "idle"
      <4>1. s # r /\ rpc'[<<s, n>>] = rpc[<<s, n>>]
        BY <1>2, <1>3, <3>1
      <4> QED
        BY <2>1, <3>1, <4>1 DEF Current, Handler
    <3> QED
      BY <3>1 DEF Current, Handler
  <2>9. ASSUME NEW s \in Requests, NEW n \in Nat, n <= msg[s], NEW k, Says(<<s, n>>, k)
        PROVE  Says(<<s, n>>, k)'
    BY <1>1, <2>5, <2>9 DEF Says
  <2>10. AnswersTrue'
    <3>1. \A s \in Requests : msg[s] <= msg'[s] /\ msg[s] \in Nat /\ msg'[s] \in Nat
      BY <1>1, <2>1, <2>2, IdType
    <3>2. ASSUME NEW s \in Requests, NEW n \in Nat, NEW k \in Kinds \cup {"time"},
                 <<<<s, n>>, k>> \in answers
          PROVE  n <= msg'[s] /\ pc'[s] # "idle" /\ Says(<<s, n>>, k)'
      <4>1. n <= msg[s] /\ pc[s] # "idle" /\ Says(<<s, n>>, k)
        BY <3>2 DEF AnswersTrue
      <4> QED
        BY <2>1, <2>9, <3>1, <4>1
    <3> QED
      BY <3>2 DEF AnswersTrue
  <2>11. \A s \in Requests : s # r =>
            Id(s)' = Id(s) /\ Id(s) = <<s, msg[s]>> /\ msg[s] \in Nat /\ msg[s] <= msg[s]
    <3>1. \A s \in Requests : msg[s] \in Nat /\ msg[s] <= msg[s]
      BY IdType
    <3> QED
      BY <2>1, <3>1 DEF Id
  <2>12. FetchedTrue'
    <3>1. ASSUME NEW s \in Requests, NEW n \in Nat, NEW k \in Kinds,
                 <<<<s, n>>, k>> \in fetched
          PROVE  /\ n <= attempt'[s] /\ pc'[s] # "idle"
                 /\ n = attempt'[s] => Says(Id(s), k)'
      <4>1. n <= attempt[s] /\ pc[s] # "idle" /\ (n = attempt[s] => Says(Id(s), k))
        BY <3>1 DEF FetchedTrue
      <4>2. CASE s = r
        BY <1>1, <2>1, <4>1, <4>2
      <4>3. CASE s # r
        BY <2>1, <2>9, <2>11, <4>1, <4>3
      <4> QED
        BY <4>2, <4>3
    <3> QED
      BY <3>1 DEF FetchedTrue
  <2>13. AnswerTrue' /\ ResultTrue'
    BY <2>1, <2>9, <2>11 DEF AnswerTrue, ResultTrue
  <2> QED
    BY <2>3, <2>6, <2>7, <2>8, <2>10, <2>12, <2>13
<1> QED
  BY <1>4, <1>5

\* NotifyResult and NotifyError fetch the callback of the id.
LEMMA NotifyInv ==
    ASSUME Inv, NEW i \in Ids, NEW kind \in Outcomes \cup {"salt", "time"}, Notify(i, kind)
    PROVE  Inv'
<1> USE DEF Inv, Notify, call, ids
<1>1. TypeOK' /\ Replaced' /\ ExecutedIsMade' /\ AnswersTrue'
  BY DEF TypeOK, Replaced, ExecutedIsMade, AnswersTrue, Says
<1>2. Current' /\ AnswerTrue' /\ ResultTrue'
  BY DEF Current, AnswerTrue, ResultTrue, Handler, Id, Says
<1>3. FetchedTrue'
  <2>1. PICK r \in Requests, m \in 1..MaxAttempts : i = <<r, m>>
    BY DEF Ids
  <2>2. PICK k \in Kinds :
          /\ BadMsg(i, kind, k)
          /\ fetched' = IF rpc[i] = Nobody THEN fetched ELSE fetched \cup {<<rpc[i], k>>}
    OBVIOUS
  <2>3. Says(i, k)
    <3>1. kind \in Kinds \cup {"time"} /\ m \in Nat
      BY EngineConstants DEF Kinds
    <3>2. Says(i, kind)
      BY <2>1, <3>1 DEF AnswersTrue
    <3> QED
      BY <2>2, <3>2 DEF BadMsg, Says
  <2>4. rpc[i] # Nobody => i = Id(r) /\ rpc[i] = <<r, attempt[r]>> /\ pc[r] # "idle"
    BY <2>1 DEF Current, Handler, Id
  <2>5. ASSUME NEW s \in Requests, NEW n \in Nat, NEW c \in Kinds,
               <<<<s, n>>, c>> \in fetched'
        PROVE  n <= attempt[s] /\ pc[s] # "idle" /\ (n = attempt[s] => Says(Id(s), c))
    <3>1. CASE <<<<s, n>>, c>> \in fetched
      BY <3>1 DEF FetchedTrue
    <3>2. CASE rpc[i] # Nobody /\ <<s, n>> = rpc[i] /\ c = k
      BY <2>3, <2>4, <3>2, IdType
    <3> QED
      BY <2>2, <2>5, <3>1, <3>2
  <2> QED
    BY <2>5 DEF FetchedTrue, Id, Says
<1> QED
  BY <1>1, <1>2, <1>3

\* The handler of the running Do stores the answer; that of an earlier one does
\* nothing.
LEMMA CallHandlerInv ==
    ASSUME Inv, NEW r \in Requests, NEW n \in 1..MaxAttempts, NEW kind \in Kinds,
           CallHandler(r, n, kind)
    PROVE  Inv'
<1> USE DEF Inv, CallHandler, call, engine, session, ids, server
<1>1. TypeOK' /\ Replaced' /\ ExecutedIsMade' /\ AnswersTrue'
  BY DEF TypeOK, Replaced, ExecutedIsMade, AnswersTrue, Says
<1>2. Current' /\ FetchedTrue' /\ ResultTrue'
  BY DEF Current, FetchedTrue, ResultTrue, Handler, Id, Says
<1>3. AnswerTrue'
  <2>1. n \in Nat /\ (n = attempt[r] => Says(Id(r), kind))
    BY EngineConstants DEF FetchedTrue
  <2>2. \A s \in Requests :
          answer'[s] = answer[s] \/ (s = r /\ attempt[r] = n /\ answer'[s] = kind)
    <3>1. \/ UNCHANGED answer
          \/ attempt[r] = n /\ answer' = [answer EXCEPT ![r] = kind]
      OBVIOUS
    <3> QED
      BY <3>1 DEF TypeOK
  <2> QED
    BY <2>1, <2>2 DEF AnswerTrue, Id, Says
<1> QED
  BY <1>1, <1>2, <1>3

LEMMA InvInductive ==
    ASSUME Inv, [Next]_vars
    PROVE  Inv'
<1> USE DEF Places, At
<1>0. ASSUME UNCHANGED <<rpc, notices, call, known, executed, refused, answers>> PROVE Inv'
  BY <1>0
  DEF Inv, notices, call, TypeOK, Replaced, ExecutedIsMade, Current, AnswersTrue,
      FetchedTrue, AnswerTrue, ResultTrue, Says, Id, Handler
<1>1. ASSUME NEW r \in Requests, Invoke(r) PROVE Inv'
  BY <1>1, InvokeInv
<1>2. ASSUME NEW r \in Requests, IsClosed(r) PROVE Inv'
  BY <1>2, IsClosedInv
<1>3. ASSUME NEW r \in Requests, Register(r) PROVE Inv'
  <2>1. /\ pc[r] = "entered" /\ Go(r, "acking") /\ UNCHANGED result
        /\ Copy(Id(r)) /\ UNCHANGED <<fetched, answer, attempt, msg, ids>>
        /\ rpc' = [rpc EXCEPT ![Id(r)] = Handler(r)]
    BY <1>3 DEF Register, notices, session, Copy
  <2> QED
    BY <2>1, OnwardInv
<1>4. ASSUME NEW r \in Requests, WaitAck(r) PROVE Inv'
  <2>1. /\ pc[r] = "acking" /\ Go(r, "sending") /\ UNCHANGED result
        /\ Copy(Id(r)) /\ UNCHANGED <<rpc, fetched, answer, attempt, msg, ids>>
    BY <1>4 DEF WaitAck, notices, session, Copy
  <2> QED
    BY <2>1, OnwardInv
<1> DEFINE Ends(r, place) ==
      /\ Go(r, place)
      /\ \/ place \notin {"leaving", "ended"} /\ UNCHANGED result
         \/ \E k \in Kinds : Says(Id(r), k) /\ result' = [result EXCEPT ![r] = k]
<1>5. \A r \in Requests : Says(Id(r), "error") /\ "error" \in Kinds
  BY DEF Says, Kinds, Outcomes
<1>6. \A r \in Requests : Fail(r) => Ends(r, "leaving")
  BY <1>5 DEF Fail, Acquit
<1>7. \A r \in Requests, wasSent \in BOOLEAN :
        Acquit(r, "final", wasSent) /\ UNCHANGED result => Ends(r, "final")
  BY DEF Acquit
<1>8. ASSUME NEW r \in Requests, FirstSend(r) PROVE Inv'
  <2>1. PICK place \in {"loop", "final", "leaving"} : Ends(r, place)
    BY <1>6, <1>7, <1>8 DEF FirstSend
  <2>2. /\ pc[r] = "sending" /\ Copy(Id(r))
        /\ UNCHANGED <<rpc, fetched, answer, attempt, msg, ids>>
    BY <1>8 DEF FirstSend, notices, session, Copy
  <2> QED
    BY <2>1, <2>2, OnwardInv
<1>9. ASSUME NEW r \in Requests, LoopEnds(r) PROVE Inv'
  <2>1. PICK place \in {"final", "leaving"} : Ends(r, place)
    BY <1>6, <1>7, <1>9 DEF LoopEnds
  <2>2. /\ pc[r] = "loop" /\ Copy(Id(r))
        /\ UNCHANGED <<rpc, fetched, answer, attempt, msg, ids>>
    BY <1>9 DEF LoopEnds, notices, session, Copy
  <2> QED
    BY <2>1, <2>2, OnwardInv
<1>10. ASSUME NEW r \in Requests, Resend(r) PROVE Inv'
  <2>1. pc[r] = "loop" /\ (UNCHANGED pc => Go(r, "loop"))
    BY <1>10 DEF Resend, Go, Inv, TypeOK
  <2>2. PICK place \in {"loop", "final", "leaving"} : Ends(r, place)
    BY <1>6, <1>7, <1>10, <2>1 DEF Resend, CountRetry
  <2>3. Copy(Id(r)) /\ UNCHANGED <<rpc, fetched, answer, attempt, msg, ids>>
    BY <1>10 DEF Resend, notices, session, Copy
  <2> QED
    BY <2>1, <2>2, <2>3, OnwardInv
<1>11. ASSUME NEW r \in Requests, Final(r) PROVE Inv'
  <2>1. /\ pc[r] = "final" /\ Go(r, "leaving") /\ Copy(Id(r))
        /\ UNCHANGED <<fetched, answer, attempt, msg, ids>>
    BY <1>11 DEF Final, notices, session, Copy
  <2>2. answer[r] # None => Says(Id(r), answer[r]) /\ answer[r] \in Kinds
    BY <2>1 DEF Inv, AnswerTrue, TypeOK
  <2>3. \E k \in Kinds : Says(Id(r), k) /\ result' = [result EXCEPT ![r] = k]
    BY <1>5, <1>11, <2>2 DEF Final, CtxDone, ForcedOut, Answered
  <2>4. UNCHANGED rpc \/ \E h \in {Nobody, Handler(r)} : rpc' = [rpc EXCEPT ![Id(r)] = h]
    BY <1>11 DEF Final, CtxDone, ForcedOut, Answered
  <2> QED
    BY <2>1, <2>3, <2>4, OnwardInv
<1>12. ASSUME NEW r \in Requests, Leave(r) PROVE Inv'
  BY <1>12, LeaveInv
<1>13. ASSUME NEW r \in Requests, Cancel(r) PROVE Inv'
  BY <1>0, <1>13 DEF Cancel, engine, session, ids, server
<1>14. ASSUME NEW i \in Ids, NotifyAcks(i) PROVE Inv'
  BY <1>0, <1>14 DEF NotifyAcks, session, ids
<1>15. ASSUME NEW i \in Ids, NEW kind \in Outcomes \cup {"salt", "time"}, Notify(i, kind)
       PROVE  Inv'
  BY <1>15, NotifyInv
<1>16. ASSUME NEW r \in Requests, NEW n \in 1..MaxAttempts, NEW kind \in Kinds,
              CallHandler(r, n, kind)
       PROVE  Inv'
  BY <1>16, CallHandlerInv
<1>17. CASE \/ Rotate \/ (\E r \in Requests : TimePasses(r)) \/ SessionCreated
            \/ ReqCancel \/ Close \/ UNCHANGED vars
  BY <1>0, <1>17
  DEF Rotate, TimePasses, SessionCreated, ReqCancel, Close, vars, engine, session, ids,
      server
<1> QED
  BY <1>1, <1>2, <1>3, <1>4, <1>8, <1>9, <1>10, <1>11, <1>12, <1>13, <1>14, <1>15,
     <1>16, <1>17
  DEF Next, Steps

LEMMA InvHolds == Spec => []Inv
BY InitInv, InvInductive, PTL DEF Spec

-----------------------------------------------------------------------------
(* The theorems                                                               *)

\* However often the engine sends a request again and Invoke repeats it, the
\* server executes it once (retryUntilAck, Conn.Invoke), unless it has refused an
\* id that was made without a known offset and executes it all the same
\* (handleBadMsg).
THEOREM AtMostOnce == Spec => []ExecutedOnce
<1>1. Inv => ExecutedOnce
  <2> SUFFICES ASSUME Inv, NEW done \in executed, NEW other \in executed,
                      done[1][1] = other[1][1], done[1][2] < other[1][2]
               PROVE  done[1] \in refused \ known
    BY DEF ExecutedOnce
  <2>1. PICK r \in Requests, n \in 1..MaxAttempts, k \in Outcomes : done = <<<<r, n>>, k>>
    BY DEF Inv, TypeOK, Ids
  <2>2. PICK m \in 1..MaxAttempts, o \in Outcomes : other = <<<<r, m>>, o>>
    BY <2>1 DEF Inv, TypeOK, Ids
  <2>3. n \in Nat /\ m \in Nat
    BY EngineConstants
  <2>4. m <= msg[r] /\ msg[r] \in Nat /\ n < m
    BY <2>1, <2>2, <2>3, IdType DEF Inv, ExecutedIsMade
  <2> QED
    BY <2>1, <2>2, <2>3, <2>4 DEF Replaced, Inv
<1> QED
  BY <1>1, InvHolds, PTL

\* Invoke returns no error only for a request that was executed without one
\* (Engine.Do, NotifyResult): no acknowledgement, no answer to another attempt
\* and no handler that is called late passes for its answer.
THEOREM SuccessHappened == Spec => []SuccessIsReal
<1>1. Inv => SuccessIsReal
  BY DEF Inv, SuccessIsReal, ResultTrue, Says, At
<1> QED
  BY <1>1, InvHolds, PTL
=============================================================================
