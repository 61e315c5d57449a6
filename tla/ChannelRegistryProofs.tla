----------------------- MODULE ChannelRegistryProofs ------------------------
(* Proofs about ChannelRegistry, for any number of updates, joins, leaves,    *)
(* failures and crashes.                                                      *)
EXTENDS ChannelRegistry, TLAPS

Fates == {"none", "running", "private", "stopped"}

TypeOK ==
    /\ pc \in Places
    /\ channels \in Workers \cup {NoWorker}
    /\ state \in Workers \cup {NoWorker}
    /\ victim \in Workers \cup {NoWorker}
    /\ worker \in [Workers -> Fates]
    /\ removal \in {"none", "lookup", "stop"}

\* A worker that has not ended is the one in s.channels, also while it is being
\* stopped: its own goroutine deletes the entry at the end.
Registered == \A w \in Workers : worker[w] # "none" => channels = w

\* And the one in s.channels has not ended.
NotEnded == channels # NoWorker => worker[channels] # "none"

\* Only the account worker creates entries, so that a lookup that found none
\* stays true until it creates one.
Sole == pc \in {"down", "loaded", "refused", "hash", "pts", "create"} =>
            channels = NoWorker

\* RemoveChannel stops a worker that it has found.
Found == removal = "stop" => victim # NoWorker

\* Only handleChannel between its lookup and its push holds a worker.
Holds == pc # "push" => state = NoWorker

Inv == TypeOK /\ Registered /\ NotEnded /\ Sole /\ Found /\ Holds

\* There is an unused object when one is needed: the only reference to an ended
\* worker that may be left is the one of RemoveChannel.
LEMMA FreshWorker ==
    ASSUME Inv, channels = NoWorker, state = NoWorker
    PROVE  NewWorker \in Workers /\ NewWorker # NoWorker
<1>1. \A w \in Workers : worker[w] = "none"
  BY RegistryConstants DEF Inv, Registered
<1>2. \E w \in Workers : w # victim
  BY RegistryConstants
<1>3. \E w \in Workers : Fresh(w)
  BY <1>1, <1>2, RegistryConstants DEF Fresh
<1> QED
  BY <1>3, RegistryConstants DEF NewWorker

\* createAndRunChannelState where there is no entry.
LEMMA CreateInv ==
    ASSUME Inv, channels = NoWorker, state = NoWorker, CreateAndRun
    PROVE  /\ channels' \in Workers /\ worker' \in [Workers -> Fates]
           /\ channels' # NoWorker
           /\ Registered' /\ NotEnded'
<1>1. NewWorker \in Workers /\ NewWorker # NoWorker
  BY FreshWorker
<1>2. \A w \in Workers : worker[w] = "none"
  BY RegistryConstants DEF Inv, Registered
<1>3. channels' = NewWorker /\ worker' = [worker EXCEPT ![NewWorker] = "running"]
  BY DEF CreateAndRun, Fate
<1> HIDE DEF NewWorker
<1> QED
  BY <1>1, <1>2, <1>3 DEF Inv, TypeOK, Fates, Registered, NotEnded

LEMMA InitInv == Init => Inv
BY DEF Init, Inv, TypeOK, Fates, Places, Registered, NotEnded, Sole, Found, Holds

\* Steps that leave the workers and their entries alone.
LEMMA StandStill ==
    ASSUME Inv, UNCHANGED <<channels, worker>>, TypeOK', Sole', Found', Holds'
    PROVE  Inv'
BY DEF Inv, Registered, NotEnded

LEMMA InvInductive == Inv /\ [Next]_vars => Inv'
<1> SUFFICES ASSUME Inv, [Next]_vars PROVE Inv'
  OBVIOUS
<1> USE DEF Inv, account, remover
<1>1. CASE Load
  BY <1>1, StandStill DEF Load, Go, TypeOK, Places, Sole, Found, Holds
<1>2. CASE NewState
  <2>1. CASE pc = "loaded"
    BY <1>2, <2>1, CreateInv DEF NewState, Go, TypeOK, Places, Sole, Found, Holds
  <2>2. CASE pc # "loaded"
    BY <1>2, <2>2, StandStill DEF NewState, Go, TypeOK, Places, Sole, Found, Holds
  <2> QED
    BY <2>1, <2>2
<1>3. CASE CheckLeft
  BY <1>3, StandStill DEF CheckLeft, Go, TypeOK, Places, Sole, Found, Holds
<1>4. CASE Lookup
  BY <1>4, StandStill DEF Lookup, Go, TypeOK, Places, Sole, Found, Holds
<1>5. CASE GetHash
  BY <1>5, StandStill DEF GetHash, Go, TypeOK, Places, Sole, Found, Holds
<1>6. CASE GetPts
  BY <1>6, StandStill DEF GetPts, Go, TypeOK, Places, Sole, Found, Holds
<1>7. CASE Create
  BY <1>7, CreateInv DEF Create, CreateAndRun, Go, TypeOK, Places, Sole, Found, Holds
<1>8. CASE Push
  BY <1>8, StandStill DEF Push, Go, TypeOK, Places, Sole, Found, Holds
<1>9. ASSUME NEW e \in Entities, Take(e) PROVE Inv'
  BY <1>9, StandStill DEF Take, Go, TypeOK, Places, Sole, Found, Holds
<1>10. ASSUME NEW e \in Entities, Send(e) PROVE Inv'
  BY <1>10, StandStill DEF Send, TypeOK, Sole, Found, Holds
<1>11. ASSUME NEW w \in Workers, StorePts(w) PROVE Inv'
  BY <1>11, StandStill DEF StorePts, TypeOK, Sole, Found, Holds
<1>12. ASSUME NEW w \in Workers, ChannelPrivate(w) \/ StopPrivate(w) PROVE Inv'
  BY <1>12 DEF ChannelPrivate, StopPrivate, Fate,
               TypeOK, Fates, Registered, NotEnded, Sole, Found, Holds
<1>13. ASSUME NEW w \in Workers, Deleted(w) PROVE Inv'
  <2>1. channels = w
    BY <1>13 DEF Deleted, Registered
  <2> QED
    BY <1>13, <2>1, RegistryConstants
    DEF Deleted, Fate, TypeOK, Fates, Registered, NotEnded, Sole,
        Found, Holds
<1>14. CASE RemoveChannel
  BY <1>14, StandStill DEF RemoveChannel, TypeOK, Sole, Found, Holds
<1>15. CASE RemoveLookup
  BY <1>15, StandStill DEF RemoveLookup, TypeOK, Sole, Found, Holds
<1>16. CASE RemoveStop
  <2>1. victim \in Workers
    BY <1>16 DEF RemoveStop, Found, TypeOK
  <2> QED
    BY <1>16, <2>1
    DEF RemoveStop, Fate, TypeOK, Fates, Registered, NotEnded, Sole, Found,
        Holds
<1>17. CASE ChangeMembership
  BY <1>17, StandStill DEF ChangeMembership, TypeOK, Sole, Found,
                           Holds
<1>18. CASE Crash
  BY <1>18 DEF Crash, Go, TypeOK, Fates, Places, Registered, NotEnded, Sole, Found,
               Holds
<1>19. CASE UNCHANGED vars
  BY <1>19 DEF vars, TypeOK, Registered, NotEnded, Sole, Found,
               Holds
<1> QED
  BY <1>1, <1>2, <1>3, <1>4, <1>5, <1>6, <1>7, <1>8, <1>9, <1>10, <1>11, <1>12,
     <1>13, <1>14, <1>15, <1>16, <1>17, <1>18, <1>19
  DEF Next, Account, Removal, Ending

\* A channel never has two workers, and the one that runs is the one that
\* handleChannel and RemoveChannel find, whatever they and the goroutines of
\* ended workers do to s.channels in between.
THEOREM OneWorker == Spec => []RunningIsRegistered
<1>1. Inv => RunningIsRegistered
  BY DEF Inv, Registered, RunningIsRegistered
<1> QED
  BY <1>1, InitInv, InvInductive, PTL DEF Spec
=============================================================================
