-------------------------------- MODULE SseHub --------------------------------
(***************************************************************************)
(* The event hub (sse/sse.go) and the HTTP streams it serves               *)
(* (sse/handler.go): bounded channels, one lock, and three parties that    *)
(* close a channel: Close, Publish when a buffer is full, and the function *)
(* that context.AfterFunc runs when the context of a request ends.         *)
(*                                                                         *)
(* Publish holds the lock while it offers the event to one subscriber      *)
(* after the other; the streams receive without it, so each offer is a     *)
(* step of its own.  Events are numbers in the order of their publication. *)
(***************************************************************************)
EXTENDS Naturals, Sequences, SequencesExt

CONSTANTS
    Streams,   \* the requests that may subscribe
    Topics,    \* the topics; serveHTTP uses the default one, SubscribeTopic any
    Buffer,    \* HubConfig.SubscriberBuffer
    MaxEvents  \* bound: how many events are published

ASSUME BufferAssumption == Buffer \in Nat \ {0}
ASSUME MaxEventsAssumption == MaxEvents \in Nat

VARIABLES
    policy,       \* hub.policy: "disconnect" or "drop"
    open,         \* hub.subscribers is not nil
    members,      \* the subscribers in the maps of hub.subscribers
    topic,        \* subscription.topic
    channel,      \* what subscription.events holds
    closes,       \* how often subscription.events has been closed
    watch,        \* the AfterFunc: "none", "armed", "running" (a goroutine) or "ended"
    contextEnded, \* request.Context() has ended
    pc,           \* where serveHTTP is
    inHand,       \* the event being written; 0: none
    offering,     \* the subscribers Publish has yet to offer the event to; the lock is held
    published,    \* history: the topic of each event, in the order of publication
    joined,       \* history: how many events had been published when a stream subscribed
    sent          \* history: the events written to each stream

hubVars    == <<policy, open, members>>
subVars    == <<topic, channel, closes, watch, joined>>
streamVars == <<contextEnded, pc, inHand, sent>>
pubVars    == <<offering, published>>
vars == <<hubVars, subVars, streamVars, pubVars>>

Init ==
    /\ policy \in {"disconnect", "drop"}
    /\ open = TRUE
    /\ members = {}
    /\ topic \in [Streams -> Topics]
    /\ channel = [s \in Streams |-> <<>>]
    /\ closes = [s \in Streams |-> 0]
    /\ watch = [s \in Streams |-> "none"]
    /\ contextEnded = [s \in Streams |-> FALSE]
    /\ pc = [s \in Streams |-> "new"]
    /\ inHand = [s \in Streams |-> 0]
    /\ offering = {}
    /\ published = <<>>
    /\ joined = [s \in Streams |-> 0]
    /\ sent = [s \in Streams |-> <<>>]

Unlocked == offering = {}

--------------------------------------------------------------------------------
\* Subscription.

\* The client goes away, or net/http ends the context because the handler has returned.
\* An armed AfterFunc starts its goroutine.
ContextEnds(s) ==
    /\ ~contextEnded[s]
    /\ contextEnded' = [contextEnded EXCEPT ![s] = TRUE]
    /\ watch' = [watch EXCEPT ![s] = IF @ = "armed" THEN "running" ELSE @]
    /\ UNCHANGED <<hubVars, topic, channel, closes, joined, pc, inHand, sent, pubVars>>

\* The headers are written and flushed; a failure ends the request before it subscribes.
StartStream(s, ok) ==
    /\ pc[s] = "new"
    /\ pc' = [pc EXCEPT ![s] = IF ok THEN "checking" ELSE "returned"]
    /\ UNCHANGED <<hubVars, subVars, contextEnded, inHand, sent, pubVars>>

\* A context that has ended gets a closed channel; the lock is not taken.
SubscribeChecks(s) ==
    /\ pc[s] = "checking"
    /\ IF contextEnded[s]
       THEN /\ closes' = [closes EXCEPT ![s] = @ + 1]
            /\ pc' = [pc EXCEPT ![s] = "selecting"]
       ELSE pc' = [pc EXCEPT ![s] = "locking"] /\ UNCHANGED closes
    /\ UNCHANGED <<hubVars, topic, channel, watch, joined, contextEnded, inHand, sent, pubVars>>

\* Under the lock: a closed hub gives a closed channel.  A context that has ended since
\* the check makes AfterFunc start its goroutine at once.
Subscribe(s) ==
    /\ pc[s] = "locking"
    /\ Unlocked
    /\ IF open
       THEN /\ members' = members \union {s}
            /\ watch' = [watch EXCEPT ![s] = IF contextEnded[s] THEN "running" ELSE "armed"]
            /\ joined' = [joined EXCEPT ![s] = Len(published)]
            /\ UNCHANGED closes
       ELSE /\ closes' = [closes EXCEPT ![s] = @ + 1]
            /\ UNCHANGED <<members, watch, joined>>
    /\ pc' = [pc EXCEPT ![s] = "selecting"]
    /\ UNCHANGED <<policy, open, topic, channel, contextEnded, inHand, sent, pubVars>>

--------------------------------------------------------------------------------
\* The three parties that close a channel.

\* subscription.stop(): an AfterFunc whose goroutine runs already is not stopped by it.
Stopped(w) == IF w = "armed" THEN "none" ELSE w

\* Faulty: the subscriber is closed without asking whether it is still in the map.
DisconnectAlways(s) ==
    /\ members' = members \ {s}
    /\ closes' = [closes EXCEPT ![s] = @ + 1]

\* disconnectLocked, without its stop().
Disconnect(s) ==
    /\ members' = members \ {s}
    /\ closes' = [closes EXCEPT ![s] = IF s \in members THEN @ + 1 ELSE @]

\* The goroutine of AfterFunc; its own stop() has no effect.
RemoveSubscriber(s) ==
    /\ watch[s] = "running"
    /\ Unlocked
    /\ Disconnect(s)
    /\ watch' = [watch EXCEPT ![s] = "ended"]
    /\ UNCHANGED <<policy, open, topic, channel, joined, streamVars, pubVars>>

\* Close, also of a hub that is closed: then there are no members.
Close ==
    /\ open
    /\ Unlocked
    /\ open' = FALSE
    /\ members' = {}
    /\ watch' = [s \in Streams |-> IF s \in members THEN Stopped(watch[s]) ELSE watch[s]]
    /\ closes' = [s \in Streams |-> IF s \in members THEN closes[s] + 1 ELSE closes[s]]
    /\ UNCHANGED <<policy, topic, channel, joined, streamVars, pubVars>>

\* PublishTopic of a valid event takes the lock; without subscribers it is over at once.
PublishBegin(t) ==
    /\ Unlocked
    /\ Len(published) < MaxEvents
    /\ offering' = {s \in members : topic[s] = t}
    /\ published' = Append(published, t)
    /\ UNCHANGED <<hubVars, subVars, streamVars>>

\* Faulty: the oldest event makes room for the new one.
OfferReplaces(s) ==
    /\ s \in offering
    /\ offering' = offering \ {s}
    /\ channel' = [channel EXCEPT ![s] =
                       Append(IF Len(@) < Buffer THEN @ ELSE Tail(@), Len(published))]
    /\ UNCHANGED <<hubVars, topic, closes, watch, joined, streamVars, published>>

\* One turn of the loop over the subscribers, in the map's order, which is any.
Offer(s) ==
    /\ s \in offering
    /\ offering' = offering \ {s}
    /\ IF Len(channel[s]) < Buffer
       THEN /\ channel' = [channel EXCEPT ![s] = Append(@, Len(published))]
            /\ UNCHANGED <<members, closes, watch>>
       ELSE /\ IF policy = "disconnect"
               THEN Disconnect(s) /\ watch' = [watch EXCEPT ![s] = Stopped(@)]
               ELSE UNCHANGED <<members, closes, watch>>
            /\ UNCHANGED channel
    /\ UNCHANGED <<policy, open, topic, joined, streamVars, published>>

--------------------------------------------------------------------------------
\* The loop of serveHTTP.

\* Faulty: a closed channel is not noticed.
SelectOpen(s) ==
    /\ pc[s] = "selecting"
    /\ \/ contextEnded[s] /\ pc' = [pc EXCEPT ![s] = "returned"] /\ UNCHANGED <<channel, inHand>>
       \/ /\ channel[s] # <<>>
          /\ inHand' = [inHand EXCEPT ![s] = Head(channel[s])]
          /\ channel' = [channel EXCEPT ![s] = Tail(@)]
          /\ pc' = [pc EXCEPT ![s] = "writing"]
    /\ UNCHANGED <<hubVars, topic, closes, watch, joined, contextEnded, sent, pubVars>>

\* The select, when several cases are ready any of them: the context, an event, or the
\* end of a closed channel, which still yields what it holds.
Select(s) ==
    /\ pc[s] = "selecting"
    /\ \/ contextEnded[s] /\ pc' = [pc EXCEPT ![s] = "returned"] /\ UNCHANGED <<channel, inHand>>
       \/ /\ channel[s] # <<>>
          /\ inHand' = [inHand EXCEPT ![s] = Head(channel[s])]
          /\ channel' = [channel EXCEPT ![s] = Tail(@)]
          /\ pc' = [pc EXCEPT ![s] = "writing"]
       \/ /\ channel[s] = <<>> /\ closes[s] > 0
          /\ pc' = [pc EXCEPT ![s] = "returned"]
          /\ UNCHANGED <<channel, inHand>>
    /\ UNCHANGED <<hubVars, topic, closes, watch, joined, contextEnded, sent, pubVars>>

\* The event is written and flushed under the write deadline, or the stream ends.
Write(s, ok) ==
    /\ pc[s] = "writing"
    /\ inHand' = [inHand EXCEPT ![s] = 0]
    /\ sent' = IF ok THEN [sent EXCEPT ![s] = Append(@, inHand[s])] ELSE sent
    /\ pc' = [pc EXCEPT ![s] = IF ok THEN "selecting" ELSE "returned"]
    /\ UNCHANGED <<hubVars, subVars, contextEnded, pubVars>>

\* A heartbeat that is written changes nothing; one that is not ends the stream.
HeartbeatFails(s) ==
    /\ pc[s] = "selecting"
    /\ pc' = [pc EXCEPT ![s] = "returned"]
    /\ UNCHANGED <<hubVars, subVars, contextEnded, inHand, sent, pubVars>>

\* Every stream is over and no goroutine is left.
Rest ==
    /\ \A s \in Streams : pc[s] = "returned" /\ watch[s] \in {"none", "ended"} /\ contextEnded[s]
    /\ UNCHANGED vars
--------------------------------------------------------------------------------
StreamStep(s) ==
    \/ \E ok \in BOOLEAN : StartStream(s, ok) \/ Write(s, ok)
    \/ SubscribeChecks(s)
    \/ Subscribe(s)
    \/ Select(s)

Next ==
    \/ \E s \in Streams : StreamStep(s) \/ HeartbeatFails(s) \/ ContextEnds(s) \/ RemoveSubscriber(s) \/ Offer(s)
    \/ \E t \in Topics : PublishBegin(t)
    \/ Close
    \/ Rest

Spec == Init /\ [][Next]_vars

\* A stream and the goroutine of its AfterFunc run, a write ends by its deadline, Publish
\* comes to its end, and net/http ends the context of a request whose handler returned.
\* Nobody has to publish or to close, and no client has to go away.
LiveSpec ==
    /\ Spec
    /\ \A s \in Streams :
         /\ WF_vars(StreamStep(s)) /\ WF_vars(RemoveSubscriber(s)) /\ WF_vars(Offer(s))
         /\ WF_vars(pc[s] = "returned" /\ ContextEnds(s))

--------------------------------------------------------------------------------
\* Properties.

\* Every variable has its type, and no buffer holds more than it has room for.
TypeOK ==
    /\ policy \in {"disconnect", "drop"}
    /\ open \in BOOLEAN
    /\ members \subseteq Streams
    /\ topic \in [Streams -> Topics]
    /\ channel \in [Streams -> Seq(Nat)]
    /\ \A s \in Streams : Len(channel[s]) <= Buffer
    /\ closes \in [Streams -> Nat]
    /\ watch \in [Streams -> {"none", "armed", "running", "ended"}]
    /\ contextEnded \in [Streams -> BOOLEAN]
    /\ pc \in [Streams -> {"new", "checking", "locking", "selecting", "writing", "returned"}]
    /\ inHand \in [Streams -> Nat]
    /\ offering \subseteq members
    /\ published \in Seq(Topics)
    /\ joined \in [Streams -> Nat]
    /\ sent \in [Streams -> Seq(Nat)]

\* The hub knows exactly the open channels: none is closed twice, which would panic,
\* and none in the map is closed, to which the next Publish would send.
KnownIffOpen ==
    \A s \in Streams :
        /\ closes[s] <= 1
        /\ s \in members => closes[s] = 0
        /\ pc[s] \in {"selecting", "writing"} /\ s \notin members => closes[s] = 1

\* The events a stream is owed: those of its topic published since it subscribed.
Due(s) == {i \in 1..Len(published) : i > joined[s] /\ published[i] = topic[s]}

\* The events on their way to the client, those written first.
Pending(s) == sent[s] \o (IF inHand[s] = 0 THEN <<>> ELSE <<inHand[s]>>) \o channel[s]

InOrder(events) == \A i, j \in 1..Len(events) : i < j => events[i] < events[j]

\* A slow consumer is cut off and never skipped: what a stream has written is the
\* beginning of what it is owed, in the order of publication, and while it is subscribed
\* nothing of that is missing.  Under DropEvent events may be missing and none is
\* repeated, reordered or misdirected.
NothingSkipped ==
    \A s \in Streams :
        /\ InOrder(sent[s])
        /\ ToSet(sent[s]) \subseteq Due(s)
        /\ policy = "disconnect" =>
             /\ \A e \in Due(s), f \in ToSet(sent[s]) : e < f => e \in ToSet(sent[s])
             /\ s \in members \ offering /\ pc[s] # "returned" =>
                  InOrder(Pending(s)) /\ ToSet(Pending(s)) = Due(s)

\* A stream whose client has gone, or whose hub is closed, returns, and the hub forgets
\* it: neither a blocked select nor a subscriber in the map is left behind.
StreamsEnd ==
    \A s \in Streams :
        (contextEnded[s] \/ ~open) ~> (pc[s] = "returned" /\ s \notin members)
================================================================================
