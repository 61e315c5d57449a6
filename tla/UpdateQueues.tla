---------------------------- MODULE UpdateQueues ----------------------------
(* The bounded queues between the goroutines of the updates engine            *)
(* (state.go, state_channel.go, manager.go).                                  *)
(*                                                                            *)
(*   readers --externalQueue--> internalState worker --updates--> channels    *)
(*                                     ^                              |       *)
(*                                     +--------internalQueue---------+       *)
(*                                                                            *)
(* A reader and the worker block when the queue they send to is full.  The    *)
(* channels send what a difference holds besides messages back to the worker, *)
(* so the queues form a circle.  What an update says is ChannelState's and    *)
(* InternalState's business; here only who waits for whom matters.            *)
EXTENDS Integers, Sequences

CONSTANTS
    Channels,     \* the channels of the account
    QueueSize,    \* the size of externalQueue and of internalQueue
    ChannelSize,  \* the size of a channel's queue "updates"
    MaxPushed,    \* bound: containers that the readers bring
    MaxBatches    \* bound: answers with OtherUpdates

ASSUME QueueConstants ==
    /\ QueueSize \in Nat \ {0}
    /\ ChannelSize \in Nat \ {0}
    /\ MaxPushed \in Nat
    /\ MaxBatches \in Nat

\* A container holds updates of some channels, in the worker's sorted order.
Containers == {<<c>> : c \in Channels} \cup {<<c, d>> : c, d \in Channels}

VARIABLES
    external,     \* s.externalQueue
    internal,     \* s.internalQueue
    todo,         \* the updates of the container that the worker still sorts
    pushing,      \* the worker is in Push of the channel of the first of them
    updates,      \* how many updates wait in each channel's queue
    pc,           \* where each channel's goroutine stands
    stopped,      \* runCtx of the channel is done
    pushed,       \* how many containers the readers have brought
    batches       \* how many answers had OtherUpdates

vars == <<external, internal, todo, pushing, updates, pc, stopped, pushed, batches>>

\* No channel has a state yet.
Init ==
    /\ external = << >>
    /\ internal = << >>
    /\ todo = << >>
    /\ pushing = FALSE
    /\ updates = [c \in Channels |-> 0]
    /\ pc = [c \in Channels |-> "gone"]
    /\ stopped = [c \in Channels |-> FALSE]
    /\ pushed = 0
    /\ batches = 0

-----------------------------------------------------------------------------
(* The readers and the worker                                                 *)

\* Manager.Handle and internalState.Push.
Push(container) ==
    /\ pushed < MaxPushed
    /\ Len(external) < QueueSize
    /\ external' = Append(external, container)
    /\ pushed' = pushed + 1
    /\ UNCHANGED <<internal, todo, pushing, updates, pc, stopped, batches>>

\* The select of internalState.Run.
TakeExternal ==
    /\ todo = << >>
    /\ external # << >>
    /\ todo' = Head(external)
    /\ external' = Tail(external)
    /\ UNCHANGED <<internal, pushing, updates, pc, stopped, pushed, batches>>

TakeInternal ==
    /\ todo = << >>
    /\ internal # << >>
    /\ todo' = Head(internal)
    /\ internal' = Tail(internal)
    /\ UNCHANGED <<external, pushing, updates, pc, stopped, pushed, batches>>

\* handleChannel: the worker looks up the channel, starts it if there is none,
\* and calls its Push.
Lookup ==
    /\ todo # << >>
    /\ ~pushing
    /\ pushing' = TRUE
    /\ LET c == Head(todo)
       IN IF pc[c] # "gone" THEN UNCHANGED <<pc, stopped>>
          ELSE /\ pc' = [pc EXCEPT ![c] = "request"]
               /\ stopped' = [stopped EXCEPT ![c] = FALSE]
    /\ UNCHANGED <<external, internal, todo, updates, pushed, batches>>

\* channelState.Push: there is a free place.
PushUpdate ==
    /\ pushing
    /\ LET c == Head(todo)
       IN /\ pc[c] # "gone"
          /\ updates[c] < ChannelSize
          /\ updates' = [updates EXCEPT ![c] = @ + 1]
    /\ todo' = Tail(todo)
    /\ pushing' = FALSE
    /\ UNCHANGED <<external, internal, pc, stopped, pushed, batches>>

\* Mutant: Push does not look at runCtx.
BadPushReleased == FALSE /\ UNCHANGED vars

\* channelState.Push: runCtx of the channel that was looked up is done.
PushReleased ==
    /\ pushing
    /\ stopped[Head(todo)]
    /\ todo' = Tail(todo)
    /\ pushing' = FALSE
    /\ UNCHANGED <<external, internal, updates, pc, stopped, pushed, batches>>

-----------------------------------------------------------------------------
(* A channel                                                                  *)

Goto(c, place) == pc' = [pc EXCEPT ![c] = place]

\* The select of channelState.Run: an update is handled; it, or a timer, may
\* lead to getDifference, which may have to wait for diffTimeout first.
Take(c) ==
    /\ pc[c] = "wait"
    /\ updates[c] > 0
    /\ updates' = [updates EXCEPT ![c] = @ - 1]
    /\ \E place \in {"wait", "drain", "request"} : Goto(c, place)
    /\ UNCHANGED <<external, internal, todo, pushing, stopped, pushed, batches>>

Timer(c) ==
    /\ pc[c] = "wait"
    /\ \E place \in {"drain", "request"} : Goto(c, place)
    /\ UNCHANGED <<external, internal, todo, pushing, updates, stopped, pushed, batches>>

\* The loop that waits for diffTimeout throws updates away.
Drain(c) ==
    /\ pc[c] = "drain"
    /\ updates[c] > 0
    /\ updates' = [updates EXCEPT ![c] = @ - 1]
    /\ UNCHANGED <<external, internal, todo, pushing, pc, stopped, pushed, batches>>

DrainEnd(c) ==
    /\ pc[c] = "drain"
    /\ Goto(c, IF stopped[c] THEN "wait" ELSE "request")
    /\ UNCHANGED <<external, internal, todo, pushing, updates, stopped, pushed, batches>>

\* The answer has no OtherUpdates, or the request failed.
Answer(c) ==
    /\ pc[c] = "request"
    /\ Goto(c, "wait")
    /\ UNCHANGED <<external, internal, todo, pushing, updates, stopped, pushed, batches>>

AnswerOthers(c) ==
    /\ pc[c] = "request"
    /\ ~stopped[c]
    /\ batches < MaxBatches
    /\ batches' = batches + 1
    /\ Goto(c, "others")
    /\ UNCHANGED <<external, internal, todo, pushing, updates, stopped, pushed>>

\* s.out <- ..., then on with the next part of the difference if this was not
\* the final one.  Only runCtx can interrupt the wait for a free place.
SendOthers(c) ==
    /\ pc[c] = "others"
    /\ Len(internal) < QueueSize
    /\ \E n \in {1, 2} : internal' = Append(internal, [k \in 1..n |-> c])
    /\ \E place \in {"wait", "request"} : Goto(c, place)
    /\ UNCHANGED <<external, todo, pushing, updates, stopped, pushed, batches>>

SendOthersDone(c) ==
    /\ pc[c] = "others"
    /\ stopped[c]
    /\ Goto(c, "wait")
    /\ UNCHANGED <<external, internal, todo, pushing, updates, stopped, pushed, batches>>

\* RemoveChannel, or CHANNEL_PRIVATE.
Stop(c) ==
    /\ pc[c] # "gone"
    /\ ~stopped[c]
    /\ stopped' = [stopped EXCEPT ![c] = TRUE]
    /\ UNCHANGED <<external, internal, todo, pushing, updates, pc, pushed, batches>>

\* Run returns and the channel is deleted from s.channels.
Exit(c) ==
    /\ pc[c] = "wait"
    /\ stopped[c]
    /\ Goto(c, "gone")
    /\ updates' = [updates EXCEPT ![c] = 0]
    /\ UNCHANGED <<external, internal, todo, pushing, stopped, pushed, batches>>

-----------------------------------------------------------------------------
Worker == TakeExternal \/ TakeInternal \/ Lookup \/ PushUpdate \/ PushReleased

Channel(c) ==
    \/ Take(c) \/ Timer(c) \/ Drain(c) \/ DrainEnd(c)
    \/ Answer(c) \/ AnswerOthers(c) \/ SendOthers(c) \/ SendOthersDone(c)
    \/ Exit(c)

Next ==
    \/ \E container \in Containers : Push(container)
    \/ Worker
    \/ \E c \in Channels : Channel(c) \/ Stop(c)

Spec == Init /\ [][Next]_vars

\* The goroutines run: a channel that waits takes what is in its queue before
\* long, the loop of diffTimeout ends, a request is answered, and a free place
\* in the internalQueue is used.
LiveSpec ==
    /\ Spec
    /\ WF_vars(Worker)
    /\ \A c \in Channels :
          /\ SF_vars(Take(c))
          /\ WF_vars(DrainEnd(c))
          /\ WF_vars(Answer(c) \/ AnswerOthers(c))
          /\ WF_vars(SendOthers(c) \/ SendOthersDone(c))
          /\ WF_vars(Exit(c))

-----------------------------------------------------------------------------
(* Properties                                                                 *)

\* The comment of the loop that waits for diffTimeout promises "to prevent
\* *internalState worker from blocking" (state_channel.go): the worker always
\* comes back to its select, whatever the channels are doing.
WorkerReturns == todo # << >> ~> todo = << >>

=============================================================================
