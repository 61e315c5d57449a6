------------------------------ MODULE ChatSync ------------------------------
(* pkg/connector/chatsync.go: the crawl through the list of dialogs, most     *)
(* recently active first, a page at a time.  Its position is part of the      *)
(* login's metadata and is saved after every page, so that a later call goes  *)
(* on where an earlier one stopped.  syncChats is called after a login, after *)
(* a restart of the bridge, when a takeout session is available, and by a     *)
(* command that starts the crawl again; syncChatsLock lets one of them run.   *)
(*                                                                            *)
(* A dialog is named by its date in the beginning.  Every message gives its   *)
(* dialog a new date, and the handler of updates makes sure it has a portal.  *)
EXTENDS Integers, FiniteSetsExt

CONSTANTS
    NumDialogs,
    PageSize,     \* 100 in the code
    Configs,      \* the settings to choose from (see below)
    MaxBumps,     \* bound: messages that arrive during the crawl
    MaxCrawls,    \* bound: the first crawl and those of the command
    MaxFailures   \* bound: errors and crashes

\* The last is the most recently active.
Dialogs == 1..NumDialogs
NoDialog == 0

\* A setting has sync.update_limit, sync.create_limit, sync.login_sync_limit (-1:
\* no limit), takeout.dialog_sync, and the dialogs without a usable top message,
\* whose date getDialogOffset does not find.
ASSUME ChatSyncConstants ==
    /\ NumDialogs \in Nat
    /\ PageSize \in Nat \ {0}
    /\ \A c \in Configs : c.silent \subseteq Dialogs /\ c.dialogSync \in BOOLEAN
    /\ \A c \in Configs : {c.update, c.create, c.login} \subseteq -1..NumDialogs
    /\ MaxBumps \in Nat /\ MaxCrawls \in Nat \ {0} /\ MaxFailures \in Nat

Callers == {"login", "resume", "takeout", "command"}
Nobody == "nobody"

VARIABLES
    config,
    date,      \* the server: when each dialog was last active
    meta,      \* DialogSync... of tc.metadata; crawl is history
    stored,    \* the same in the database
    waiting,   \* the calls that wait for syncChatsLock
    holder,    \* the call that has it
    pc,        \* where that call stands
    update, create, first, page,  \* its local variables
    started,   \* the calls this process makes once and has made
    isNewLogin,
    gaveUp,    \* history: a full sync of this process has returned an error
    checked,   \* history: the last crawl in which each dialog was checked
    origin,    \* what created the portal: 0 none, -1 an update, else the crawl
    crawls, failures

locals == <<pc, update, create, first, page>>
process == <<waiting, holder, started, isNewLogin, gaveUp>>
portals == <<checked, origin>>
vars == <<config, date, meta, stored, process, locals, portals, crawls, failures>>

-----------------------------------------------------------------------------
Smaller(a, b) == IF a < b THEN a ELSE b
Larger(a, b) == IF a < b THEN b ELSE a

\* Mutant: a limit that is used up becomes unlimited.
BadSubtractLimit(limit, count) == limit - count

subtractLimit(limit, count) == IF limit < 0 THEN limit ELSE Larger(limit - count, 0)

Unlimited(limit) == limit < 0

\* A page is sorted by date, so the set of its dialogs and their dates says it all.
Position(list, e) == Cardinality({f \in list : f.date >= e.date})
Last(list) == CHOOSE e \in list : \A f \in list : e.date <= f.date

\* messages.getDialogs: the dialogs below the offset, which counts only if it
\* was found (offset_peer alone is ignored), with the dates of their messages.
GetDialogs(limit) ==
    LET below == {[dialog |-> d, date |-> date[d]] :
                    d \in {d \in Dialogs : meta.offset = 0 \/ date[d] < meta.offset}}
    IN {e \in below : /\ Position(below, e) <= PageSize
                      /\ Unlimited(limit) \/ Position(below, e) <= limit}

\* The date of the last dialog of the page that has one.
getDialogOffset(list) ==
    LET found == {e \in list : e.dialog \notin config.silent}
    IN IF found = {} THEN 0 ELSE Last(found).date

Restarted(n) == [complete |-> FALSE, cursor |-> NoDialog, offset |-> 0, count |-> 0,
                 crawl |-> n]

Init ==
    /\ config \in Configs
    /\ date = [d \in Dialogs |-> d]
    /\ meta = Restarted(1) /\ stored = meta
    /\ waiting = {} /\ holder = Nobody /\ pc = "none"
    /\ update = 0 /\ create = 0 /\ first = FALSE /\ page = {}
    /\ started = {} /\ isNewLogin = TRUE /\ gaveUp = FALSE
    /\ checked = [d \in Dialogs |-> 0] /\ origin = [d \in Dialogs |-> 0]
    /\ crawls = 1 /\ failures = 0

\* A message arrives: its dialog comes first, and the update is bridged.
NewMessage(d) ==
    /\ \A e \in Dialogs : date[e] < NumDialogs + MaxBumps
    /\ date' = [date EXCEPT ![d] = 1 + Max({date[e] : e \in Dialogs})]
    /\ checked' = [checked EXCEPT ![d] = crawls]
    /\ origin' = [origin EXCEPT ![d] = IF @ = 0 THEN -1 ELSE @]
    /\ UNCHANGED <<config, meta, stored, process, locals, crawls, failures>>

-----------------------------------------------------------------------------
(* The callers                                                                *)

\* Mutant: the crawl is resumed only after a login.
BadMayCall(c) ==
    CASE c \in {"login", "resume"} -> isNewLogin
      [] c = "takeout" -> TRUE
      [] c = "command" -> crawls < MaxCrawls

MayCall(c) ==
    CASE c = "login" -> isNewLogin
      [] c = "resume" -> ~isNewLogin /\ ~config.dialogSync
      [] c = "takeout" -> TRUE
      [] c = "command" -> crawls < MaxCrawls

Call(c) ==
    /\ MayCall(c) /\ c \notin started \cup waiting \cup {holder}
    /\ waiting' = waiting \cup {c}
    /\ started' = IF c = "command" THEN started ELSE started \cup {c}
    /\ UNCHANGED <<config, date, meta, stored, holder, isNewLogin, gaveUp, locals,
                   portals, crawls, failures>>

\* The goroutine of takeoutDialogsOnce reads takeoutID while getTakeoutID
\* returns it: with 0 it is a call like any other, with the id it returns if
\* takeout.dialog_sync is off.
TakeoutReturns ==
    /\ "takeout" \notin started /\ ~config.dialogSync
    /\ started' = started \cup {"takeout"}
    /\ UNCHANGED <<config, date, meta, stored, waiting, holder, isNewLogin, gaveUp,
                   locals, portals, crawls, failures>>

isFullSync(c) == ~(c = "login" /\ config.dialogSync)

\* The lock is free: reset, return, or prepare the first request.
Acquire(c) ==
    /\ holder = Nobody /\ c \in waiting
    /\ waiting' = waiting \ {c}
    /\ LET m == IF c = "command" THEN Restarted(crawls + 1) ELSE meta
       IN IF m.complete
          THEN UNCHANGED <<meta, holder, locals, crawls>>
          ELSE /\ meta' = m
               /\ crawls' = Larger(crawls, m.crawl)
               /\ holder' = c /\ pc' = "loop" /\ page' = {}
               /\ update' = IF isFullSync(c) THEN subtractLimit(config.update, m.count)
                            ELSE config.login
               /\ create' = subtractLimit(config.create, m.count)
               /\ first' = (m.cursor = NoDialog)
    /\ UNCHANGED <<config, date, stored, started, isNewLogin, gaveUp, portals,
                   failures>>

Return == holder' = Nobody /\ pc' = "none" /\ page' = {}
          /\ update' = 0 /\ create' = 0 /\ first' = FALSE

-----------------------------------------------------------------------------
(* The loop                                                                   *)

\* The first page of a crawl sets the pinned dialogs, and so saves the login.
Fetch ==
    /\ pc = "loop" /\ update # 0
    /\ page' = GetDialogs(update)
    /\ pc' = IF page' = {} THEN "finish" ELSE "handle"
    /\ first' = (first /\ page' = {})
    /\ stored' = IF first /\ page' # {} THEN meta ELSE stored
    /\ UNCHANGED <<config, date, meta, process, update, create, portals, crawls,
                   failures>>

LimitReached ==
    /\ pc = "loop" /\ update = 0
    /\ pc' = "finish"
    /\ UNCHANGED <<config, date, meta, stored, process, update, create, first, page,
                   portals, crawls, failures>>

\* handleDialogs for the first k dialogs of the page.
CheckDialogs(k) ==
    LET At(d) == {e \in page : e.dialog = d /\ Position(page, e) <= k}
    IN /\ checked' = [d \in Dialogs |->
                        IF At(d) = {} THEN checked[d]
                        ELSE Larger(checked[d], meta.crawl)]
       /\ origin' = [d \in Dialogs |->
                        IF /\ origin[d] = 0
                           /\ \E e \in At(d) :
                                 Unlimited(create) \/ Position(page, e) <= create
                        THEN meta.crawl ELSE origin[d]]

\* Mutant: the error of a dialog is ignored.
BadHandleDialogs ==
    /\ pc = "handle"
    /\ \E k \in 0..Cardinality(page) : CheckDialogs(k)
    /\ pc' = "advance"
    /\ UNCHANGED <<config, date, meta, stored, process, update, create, first, page,
                   crawls, failures>>

HandleDialogs ==
    /\ pc = "handle"
    /\ CheckDialogs(Cardinality(page))
    /\ pc' = "advance"
    /\ UNCHANGED <<config, date, meta, stored, process, update, create, first, page,
                   crawls, failures>>

\* The new limits and the new position, in memory.  No limit is larger than
\* NumDialogs, so a larger count makes no difference.
Advance ==
    /\ pc = "advance"
    /\ update' = subtractLimit(update, Cardinality(page))
    /\ create' = subtractLimit(create, Cardinality(page))
    /\ LET cursor == Last(page).dialog
       IN IF meta.cursor = cursor
          THEN pc' = "finish" /\ UNCHANGED meta
          ELSE /\ pc' = "save"
               /\ meta' = [meta EXCEPT !.cursor = cursor, !.offset = getDialogOffset(page),
                                       !.count = Smaller(@ + Cardinality(page), NumDialogs)]
    /\ UNCHANGED <<config, date, stored, process, first, page, portals, crawls,
                   failures>>

SavePage ==
    /\ pc = "save" /\ stored' = meta /\ pc' = "loop" /\ page' = {}
    /\ UNCHANGED <<config, date, meta, process, update, create, first, portals,
                   crawls, failures>>

Completed == [meta EXCEPT !.complete = TRUE, !.cursor = NoDialog, !.offset = 0,
                          !.count = 0]

\* Mutant: every call that gets through its loop marks the crawl as complete.
BadFinish ==
    /\ pc = "finish"
    /\ meta' = Completed /\ stored' = meta'
    /\ Return
    /\ UNCHANGED <<config, date, waiting, started, isNewLogin, gaveUp, portals,
                   crawls, failures>>

\* After the loop; the last Save may fail.
Finish ==
    /\ pc = "finish"
    /\ \/ ~isFullSync(holder) /\ UNCHANGED <<meta, stored, failures>>
       \/ /\ isFullSync(holder) /\ meta' = Completed
          /\ \/ stored' = meta' /\ UNCHANGED failures
             \/ failures < MaxFailures /\ failures' = failures + 1 /\ UNCHANGED stored
    /\ Return
    /\ UNCHANGED <<config, date, waiting, started, isNewLogin, gaveUp, portals,
                   crawls>>

\* An error of the request, of a dialog of the page, of Save, or of the lookup of
\* the cursor: syncChats returns, and nobody calls it again.
Fail ==
    /\ failures < MaxFailures /\ failures' = failures + 1
    /\ \/ pc = "save" /\ UNCHANGED portals
       \/ pc = "loop" /\ (update # 0 \/ meta.cursor # NoDialog) /\ UNCHANGED portals
       \/ pc = "handle" /\ \E k \in 0..Cardinality(page) - 1 : CheckDialogs(k)
    /\ gaveUp' = (gaveUp \/ isFullSync(holder))
    /\ Return
    /\ UNCHANGED <<config, date, meta, stored, waiting, started, isNewLogin, crawls>>

\* Another goroutine saves the login.
Save ==
    /\ stored # meta /\ stored' = meta
    /\ UNCHANGED <<config, date, meta, process, locals, portals, crawls, failures>>

\* The bridge ends and is started again with the stored metadata.
Crash ==
    /\ failures < MaxFailures /\ failures' = failures + 1
    /\ meta' = stored
    /\ waiting' = {} /\ started' = {} /\ isNewLogin' = FALSE /\ gaveUp' = FALSE
    /\ Return
    /\ UNCHANGED <<config, date, stored, portals, crawls>>

-----------------------------------------------------------------------------
Loop == Fetch \/ LimitReached \/ HandleDialogs \/ Advance \/ SavePage \/ Finish

Next ==
    \/ \E d \in Dialogs : NewMessage(d)
    \/ \E c \in Callers : Call(c) \/ Acquire(c)
    \/ TakeoutReturns \/ Loop \/ Fail \/ Save \/ Crash

Spec == Init /\ [][Next]_vars

\* Goroutines run, and the lock is not taken away from one that waits.  "If
\* takeout dialog sync is enabled, we assume it'll resume from a getTakeoutID
\* call" (client.go): the call is made.
LiveSpec ==
    /\ Spec
    /\ WF_vars(Loop)
    /\ \A c \in Callers : SF_vars(Acquire(c))
    /\ WF_vars(Call("login")) /\ WF_vars(Call("resume"))
    /\ WF_vars(config.dialogSync /\ Call("takeout"))

-----------------------------------------------------------------------------
(* Properties                                                                 *)

Known(m, d) == checked[d] >= m.crawl

\* The position, in memory and in the database, is never past a dialog that the
\* crawl has not checked: an error or a crash between two steps, or a message
\* that changes the order, does not make it skip one (Save after handleDialogs).
NothingSkipped ==
    \A m \in {meta, stored} :
        m.offset > 0 => \A d \in Dialogs : date[d] >= m.offset => Known(m, d)

\* Every page has a dated dialog, and none has to be counted twice.
Dated ==
    \/ config.silent = {}
    \/ /\ Unlimited(config.update) /\ ~config.dialogSync
       /\ Cardinality(config.silent) < PageSize

\* The dialogs that are more recently active.
Ahead(d) == {e \in Dialogs : date[e] > date[d]}

\* A crawl that is marked as complete has checked the update_limit most
\* recently active dialogs, however many calls and restarts it took.
CompleteIsTrue ==
    \A m \in {meta, stored} :
        (m.complete /\ Dated) =>
            \A d \in Dialogs :
                (Unlimited(config.update) \/ Cardinality(Ahead(d)) < config.update)
                => Known(m, d)

\* One crawl creates no more portals than create_limit, also if pages are
\* handled twice or in different calls, apart from dialogs that get a message
\* during the crawl: they have their portal in any case.
CreateLimitKept ==
    \A n \in 1..crawls :
        \/ Unlimited(config.create)
        \/ Cardinality({d \in Dialogs : origin[d] = n /\ date[d] = d}) <= config.create

\* A crawl is completed in the end, by the next process if need be, unless a
\* call of the last process failed or the crawl has lost its place.
EventuallyComplete ==
    <>[](meta.complete \/ gaveUp) \/ []<>(meta.cursor # NoDialog /\ meta.offset = 0)

=============================================================================
