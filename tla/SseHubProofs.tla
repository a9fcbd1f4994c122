----------------------------- MODULE SseHubProofs ------------------------------
(***************************************************************************)
(* Proofs about SseHub, for every set of streams and topics and every size *)
(* of the buffers.                                                         *)
(***************************************************************************)
EXTENDS SseHub, SequenceTheorems, TLAPS

--------------------------------------------------------------------------------
\* The inductive invariant.

Unsubscribed == {"new", "checking", "locking"}

\* A subscriber is in the map at most while its stream is past subscribe and its channel
\* has not been closed; a stream that has not come that far has nothing to write.
MemberInv ==
    \A s \in Streams :
        /\ s \in members => closes[s] = 0 /\ pc[s] \notin Unsubscribed
        /\ pc[s] \in Unsubscribed => closes[s] = 0 /\ sent[s] = <<>> /\ channel[s] = <<>>
        /\ closes[s] <= 1
        /\ pc[s] \in {"selecting", "writing"} /\ s \notin members => closes[s] = 1

\* serveHTTP holds an event only while it writes it.
InHandInv ==
    \A s \in Streams :
        /\ pc[s] \in Unsubscribed \union {"selecting"} => inHand[s] = 0
        /\ pc[s] = "writing" => inHand[s] # 0

\* Publish offers the last event, to subscribers of its topic that have not got it.
Offering(s) ==
    /\ Len(published) \in Due(s)
    /\ pc[s] # "returned" => Len(published) \notin ToSet(Pending(s))

OfferInv == \A s \in offering : Offering(s)

\* No stream joins later than the present.
JoinedInv == \A s \in Streams : joined[s] <= Len(published)

\* The events of the sequence are owed to s, and in order.
Owed(s, events) == InOrder(events) /\ ToSet(events) \subseteq Due(s)

\* No event owed to s is left out of the sequence before one that is in it.
NoGap(s, events) == \A e \in Due(s), f \in ToSet(events) : e < f => e \in ToSet(events)

\* The last event is missing only while it has yet to be offered.
Awaited(s) == IF s \in offering THEN Due(s) \ {Len(published)} ELSE Due(s)

\* What a stream has written, and while it runs what is on its way.
Delivery(s) ==
    /\ Owed(s, sent[s])
    /\ pc[s] # "returned" => Owed(s, Pending(s))
    /\ policy = "disconnect" => NoGap(s, sent[s])
    /\ policy = "disconnect" /\ pc[s] # "returned" =>
         /\ NoGap(s, Pending(s))
         /\ s \in members => Awaited(s) \subseteq ToSet(Pending(s))

DeliveryInv == \A s \in Streams : Delivery(s)

IInv ==
    /\ TypeOK
    /\ MemberInv
    /\ InHandInv
    /\ OfferInv
    /\ JoinedInv
    /\ DeliveryInv

--------------------------------------------------------------------------------
\* Sequences of events.

\* A later event goes to the end of an ordered sequence.
LEMMA AppendInOrder ==
    ASSUME NEW q \in Seq(Nat), NEW n \in Nat, InOrder(q), \A e \in ToSet(q) : e < n
    PROVE  InOrder(Append(q, n)) /\ ToSet(Append(q, n)) = ToSet(q) \union {n}
<1> DEFINE r == Append(q, n)
<1>1. /\ Len(q) \in Nat /\ Len(r) = Len(q) + 1
      /\ DOMAIN q = 1..Len(q) /\ DOMAIN r = 1..Len(q) + 1
      /\ \A i \in 1..Len(q) : r[i] = q[i] /\ q[i] \in Nat
      /\ r[Len(q) + 1] = n
  BY AppendProperties, LenProperties
<1> HIDE DEF r
<1>2. \A i \in 1..Len(q) : q[i] \in ToSet(q)
  BY <1>1 DEF ToSet
<1>3. InOrder(r)
  BY <1>1, <1>2 DEF InOrder
<1>4. ToSet(r) = ToSet(q) \union {n}
  BY <1>1 DEF ToSet
<1> QED
  BY <1>3, <1>4 DEF r

\* The elements of a prefix, and their places.
LEMMA PrefixElements ==
    ASSUME NEW p \in Seq(Nat), NEW q \in Seq(Nat)
    PROVE  /\ p \o q \in Seq(Nat)
           /\ ToSet(p \o q) = ToSet(p) \union ToSet(q)
           /\ InOrder(p \o q) =>
                InOrder(p) /\ \A e \in ToSet(p), f \in ToSet(q) : e < f
<1> DEFINE r == p \o q
<1>1. /\ r \in Seq(Nat) /\ Len(r) = Len(p) + Len(q)
      /\ Len(p) \in Nat /\ Len(q) \in Nat
      /\ DOMAIN p = 1..Len(p) /\ DOMAIN q = 1..Len(q) /\ DOMAIN r = 1..Len(p) + Len(q)
      /\ \A i \in 1..Len(p) : r[i] = p[i]
      /\ \A i \in 1..Len(q) : r[Len(p) + i] = q[i]
      /\ \A i \in 1..Len(r) : r[i] = IF i <= Len(p) THEN p[i] ELSE q[i - Len(p)]
  BY ConcatProperties, LenProperties
<1> HIDE DEF r
<1>2. ToSet(r) = ToSet(p) \union ToSet(q)
  <2>1. ASSUME NEW i \in 1..Len(r) PROVE r[i] \in ToSet(p) \union ToSet(q)
    <3>1. CASE i <= Len(p)
      BY <1>1, <3>1 DEF ToSet
    <3>2. CASE ~(i <= Len(p))
      <4>1. i - Len(p) \in 1..Len(q)
        BY <1>1, <3>2
      <4> QED
        BY <1>1, <3>2, <4>1 DEF ToSet
    <3> QED
      BY <3>1, <3>2
  <2>2. ASSUME NEW i \in 1..Len(p) PROVE p[i] \in ToSet(r)
    <3>1. i \in DOMAIN r
      BY <1>1
    <3> QED
      BY <1>1, <3>1 DEF ToSet
  <2>3. ASSUME NEW i \in 1..Len(q) PROVE q[i] \in ToSet(r)
    <3>1. Len(p) + i \in DOMAIN r
      BY <1>1
    <3> QED
      BY <1>1, <3>1 DEF ToSet
  <2> QED
    BY <1>1, <2>1, <2>2, <2>3 DEF ToSet
<1>3. ASSUME InOrder(r)
      PROVE  InOrder(p) /\ \A e \in ToSet(p), f \in ToSet(q) : e < f
  <2>1. InOrder(p)
    BY <1>1, <1>3 DEF InOrder
  <2>2. ASSUME NEW i \in 1..Len(p), NEW j \in 1..Len(q) PROVE p[i] < q[j]
    <3>1. i \in 1..Len(r) /\ Len(p) + j \in 1..Len(r) /\ i < Len(p) + j
      <4>1. Len(p) \in Nat /\ Len(q) \in Nat /\ Len(r) = Len(p) + Len(q)
        BY <1>1
      <4> QED
        BY <4>1
    <3>2. r[i] < r[Len(p) + j]
      BY <1>3, <3>1 DEF InOrder
    <3> QED
      BY <1>1, <3>2
  <2> QED
    BY <1>1, <2>1, <2>2 DEF ToSet
<1> QED
  BY <1>1, <1>2, <1>3 DEF r

\* Concatenations that an offer, a write and a receive come down to.
LEMMA RegroupOffered ==
    ASSUME NEW S, NEW p \in Seq(S), NEW x \in Seq(S), NEW q \in Seq(S), NEW e \in S
    PROVE  p \o x \o Append(q, e) = Append(p \o x \o q, e)
<1>1. p \o x \in Seq(S) /\ <<e>> \in Seq(S) /\ p \o x \o q \in Seq(S)
  BY ConcatProperties
<1>2. Append(q, e) = q \o <<e>> /\ Append(p \o x \o q, e) = (p \o x \o q) \o <<e>>
  BY <1>1, AppendIsConcat
<1>3. (p \o x) \o (q \o <<e>>) = ((p \o x) \o q) \o <<e>>
  BY <1>1, ConcatAssociative
<1> QED
  BY <1>2, <1>3

\* An event in hand may be counted to what is written,
LEMMA RegroupWritten ==
    ASSUME NEW S, NEW p \in Seq(S), NEW q \in Seq(S), NEW e \in S
    PROVE  Append(p, e) \o <<>> \o q = p \o <<e>> \o q
<1>1. Append(p, e) = p \o <<e>> /\ Append(p, e) \in Seq(S)
  BY AppendIsConcat, AppendProperties
<1>2. Append(p, e) \o <<>> = Append(p, e)
  BY <1>1, ConcatEmptySeq
<1> QED
  BY <1>1, <1>2

\* and the first of the channel to what is in hand.
LEMMA RegroupSelected ==
    ASSUME NEW S, NEW p \in Seq(S), NEW q \in Seq(S), q # <<>>
    PROVE  p \o <<Head(q)>> \o Tail(q) = p \o <<>> \o q
<1>1. /\ Head(q) \in S /\ Tail(q) \in Seq(S) /\ <<Head(q)>> \in Seq(S)
      /\ q = <<Head(q)>> \o Tail(q)
  BY HeadTailProperties
<1>2. (p \o <<Head(q)>>) \o Tail(q) = p \o (<<Head(q)>> \o Tail(q))
  BY <1>1, ConcatAssociative
<1>3. p \o <<>> = p
  BY ConcatEmptySeq
<1> QED
  BY <1>1, <1>2, <1>3

\* One more in a counter of each stream.
LEMMA Increment ==
    ASSUME NEW f \in [Streams -> Nat], NEW u \in Streams
    PROVE  [f EXCEPT ![u] = f[u] + 1] \in [Streams -> Nat]
  OBVIOUS

--------------------------------------------------------------------------------
\* What a step may leave alone.

LEMMA PendingType ==
    ASSUME TypeOK, NEW s \in Streams
    PROVE  Pending(s) \in Seq(Nat)
<1>1. /\ sent[s] \in Seq(Nat) /\ channel[s] \in Seq(Nat)
      /\ (IF inHand[s] = 0 THEN <<>> ELSE <<inHand[s]>>) \in Seq(Nat)
  BY EmptySeq DEF TypeOK
<1> QED
  BY <1>1, ConcatProperties DEF Pending

\* The next event of the channel is one that the stream is owed, so not zero.
LEMMA HeadIsDue ==
    ASSUME TypeOK, NEW s \in Streams, ToSet(Pending(s)) \subseteq Due(s), channel[s] # <<>>
    PROVE  Head(channel[s]) \in Nat \ {0}
<1> DEFINE x == IF inHand[s] = 0 THEN <<>> ELSE <<inHand[s]>>
<1>1. sent[s] \in Seq(Nat) /\ channel[s] \in Seq(Nat) /\ x \in Seq(Nat)
  BY EmptySeq DEF TypeOK
<1>2. sent[s] \o x \in Seq(Nat)
  BY <1>1, ConcatProperties
<1> HIDE DEF x
<1>3. ToSet((sent[s] \o x) \o channel[s]) = ToSet(sent[s] \o x) \union ToSet(channel[s])
  BY <1>1, <1>2, PrefixElements
<1>4. Head(channel[s]) \in ToSet(channel[s])
  <2>1. Head(channel[s]) = channel[s][1] /\ 1 \in DOMAIN channel[s]
    BY <1>1
  <2> QED
    BY <2>1 DEF ToSet
<1>5. Pending(s) = (sent[s] \o x) \o channel[s]
  BY DEF Pending, x
<1>6. Head(channel[s]) \in Due(s)
  BY <1>3, <1>4, <1>5
<1> QED
  BY <1>6 DEF Due, TypeOK

\* What is due was published.
LEMMA DueBound ==
    ASSUME TypeOK, NEW s \in Streams
    PROVE  Len(published) \in Nat /\ Due(s) \subseteq 1..Len(published)
  BY DEF TypeOK, Due

\* What is on its way to a stream depends on its own variables only.
LEMMA PendingKept ==
    ASSUME NEW s \in Streams, sent'[s] = sent[s], inHand'[s] = inHand[s], channel'[s] = channel[s]
    PROVE  Pending(s)' = Pending(s)
  BY DEF Pending

\* So does what is due to it.
LEMMA DueKept ==
    ASSUME NEW s \in Streams, published' = published, joined'[s] = joined[s], topic'[s] = topic[s]
    PROVE  Due(s)' = Due(s)
  BY DEF Due

\* A step that keeps what is on its way to s, and takes no offer back, keeps Delivery.
LEMMA DeliveryKept ==
    ASSUME NEW s \in Streams, Delivery(s),
           sent'[s] = sent[s], Due(s)' = Due(s), UNCHANGED <<policy, published>>,
           pc'[s] # "returned" => pc[s] # "returned" /\ Pending(s)' = Pending(s),
           policy = "disconnect" /\ s \in members' => s \in members /\ (s \in offering <=> s \in offering')
    PROVE  Delivery(s)'
<1> USE DEF Owed, NoGap
<1>1. Owed(s, sent[s])' /\ (policy' = "disconnect" => NoGap(s, sent[s])')
  BY DEF Delivery
<1>2. ASSUME pc'[s] # "returned" PROVE Owed(s, Pending(s))'
  BY <1>2 DEF Delivery
<1>3. ASSUME pc'[s] # "returned", policy' = "disconnect" PROVE NoGap(s, Pending(s))'
  BY <1>3 DEF Delivery
<1>4. ASSUME pc'[s] # "returned", policy' = "disconnect", s \in members'
      PROVE  Awaited(s)' \subseteq ToSet(Pending(s))'
  BY <1>4 DEF Delivery, Awaited
<1> QED
  BY <1>1, <1>2, <1>3, <1>4 DEF Delivery

\* The same for the event that is being offered.
LEMMA OfferingKept ==
    ASSUME NEW s \in Streams, Offering(s), Due(s)' = Due(s), UNCHANGED published,
           pc'[s] # "returned" => pc[s] # "returned" /\ Pending(s)' = Pending(s)
    PROVE  Offering(s)'
  BY DEF Offering

--------------------------------------------------------------------------------
\* The steps.

\* The types are kept.
LEMMA StepTypes ==
    ASSUME TypeOK, [Next]_vars
    PROVE  TypeOK'
<1> USE BufferAssumption DEF TypeOK
<1>1. ASSUME NEW u \in Streams, NEW ok \in BOOLEAN, StartStream(u, ok) PROVE TypeOK'
  BY <1>1 DEF StartStream, hubVars, subVars, streamVars, pubVars
<1>2. ASSUME NEW u \in Streams, NEW ok \in BOOLEAN, Write(u, ok) PROVE TypeOK'
  BY <1>2 DEF Write, hubVars, subVars, streamVars, pubVars
<1>3. ASSUME NEW u \in Streams, SubscribeChecks(u) PROVE TypeOK'
  <2>1. closes' \in [Streams -> Nat]
    <3>1. closes' = closes \/ closes' = [closes EXCEPT ![u] = closes[u] + 1]
      BY <1>3, Zenon DEF SubscribeChecks
    <3>2. closes \in [Streams -> Nat] /\ [closes EXCEPT ![u] = closes[u] + 1] \in [Streams -> Nat]
      BY Increment, Zenon
    <3> QED
      BY <3>1, <3>2, Zenon
  <2>2. pc' \in [Streams -> {"new", "checking", "locking", "selecting", "writing", "returned"}]
    BY <1>3 DEF SubscribeChecks
  <2> QED
    BY <1>3, <2>1, <2>2 DEF SubscribeChecks, hubVars, pubVars
<1>4. ASSUME NEW u \in Streams, Subscribe(u) PROVE TypeOK'
  <2>1. closes' \in [Streams -> Nat] /\ members' \subseteq Streams /\ offering \subseteq members'
    BY <1>4 DEF Subscribe
  <2>2. watch' \in [Streams -> {"none", "armed", "running", "ended"}]
    BY <1>4 DEF Subscribe
  <2>3. joined' \in [Streams -> Nat]
    <3>1. Len(published) \in Nat
      OBVIOUS
    <3> QED
      BY <1>4, <3>1 DEF Subscribe
  <2>4. pc' \in [Streams -> {"new", "checking", "locking", "selecting", "writing", "returned"}]
    BY <1>4 DEF Subscribe
  <2> QED
    BY <1>4, <2>1, <2>2, <2>3, <2>4 DEF Subscribe, pubVars
<1>5. ASSUME NEW u \in Streams, Select(u) PROVE TypeOK'
  <2>1. pc' \in [Streams -> {"new", "checking", "locking", "selecting", "writing", "returned"}]
    BY <1>5 DEF Select
  <2>2. /\ channel' \in [Streams -> Seq(Nat)] /\ inHand' \in [Streams -> Nat]
        /\ \A s \in Streams : Len(channel'[s]) <= Buffer
    <3>1. CASE UNCHANGED <<channel, inHand>>
      BY <3>1
    <3>2. CASE /\ channel[u] # <<>>
               /\ inHand' = [inHand EXCEPT ![u] = Head(channel[u])]
               /\ channel' = [channel EXCEPT ![u] = Tail(@)]
      <4>1. channel[u] \in Seq(Nat) /\ Len(channel[u]) <= Buffer
        OBVIOUS
      <4>2. /\ Head(channel[u]) \in Nat /\ Tail(channel[u]) \in Seq(Nat)
            /\ Len(Tail(channel[u])) <= Buffer
        BY <3>2, <4>1
      <4>3. channel' \in [Streams -> Seq(Nat)] /\ inHand' \in [Streams -> Nat]
        BY <3>2, <4>2
      <4>4. \A s \in Streams : channel'[s] = IF s = u THEN Tail(channel[u]) ELSE channel[s]
        BY <3>2
      <4> QED
        BY <4>2, <4>3, <4>4
    <3> QED
      BY <1>5, <3>1, <3>2, Zenon DEF Select
  <2> QED
    BY <1>5, <2>1, <2>2 DEF Select, hubVars, pubVars
<1>6. ASSUME NEW u \in Streams, HeartbeatFails(u) PROVE TypeOK'
  BY <1>6 DEF HeartbeatFails, hubVars, subVars, streamVars, pubVars
<1>7. ASSUME NEW u \in Streams, ContextEnds(u) PROVE TypeOK'
  BY <1>7 DEF ContextEnds, hubVars, subVars, streamVars, pubVars
<1>8. ASSUME NEW u \in Streams, RemoveSubscriber(u) PROVE TypeOK'
  <2>1. closes' \in [Streams -> Nat]
    BY <1>8 DEF RemoveSubscriber, Disconnect
  <2>2. watch' \in [Streams -> {"none", "armed", "running", "ended"}]
    BY <1>8 DEF RemoveSubscriber
  <2>3. members' \subseteq Streams /\ offering' = {}
    BY <1>8 DEF RemoveSubscriber, Disconnect, Unlocked, pubVars
  <2> QED
    BY <1>8, <2>1, <2>2, <2>3 DEF RemoveSubscriber, streamVars, pubVars
<1>9. ASSUME NEW u \in Streams, Offer(u) PROVE TypeOK'
  <2>1. closes' \in [Streams -> Nat]
    <3>1. closes' = closes \/ closes' = [closes EXCEPT ![u] = closes[u] + 1]
      <4>1. \/ closes' = closes
            \/ closes' = [closes EXCEPT ![u] = IF u \in members THEN @ + 1 ELSE @]
        BY <1>9, Zenon DEF Offer, Disconnect
      <4>2. u \in members
        BY <1>9 DEF Offer
      <4> QED
        BY <4>1, <4>2, Zenon
    <3>2. closes \in [Streams -> Nat] /\ [closes EXCEPT ![u] = closes[u] + 1] \in [Streams -> Nat]
      BY Increment, Zenon
    <3> QED
      BY <3>1, <3>2, Zenon
  <2>2. watch' \in [Streams -> {"none", "armed", "running", "ended"}]
    BY <1>9 DEF Offer, Stopped
  <2>3. members' \subseteq Streams /\ offering' \subseteq members'
    BY <1>9 DEF Offer, Disconnect
  <2>4. channel' \in [Streams -> Seq(Nat)] /\ \A s \in Streams : Len(channel'[s]) <= Buffer
    <3>1. CASE Len(channel[u]) < Buffer
      <4>1. channel[u] \in Seq(Nat) /\ Len(channel[u]) \in Nat /\ Len(published) \in Nat
        OBVIOUS
      <4>2. /\ Append(channel[u], Len(published)) \in Seq(Nat)
            /\ Len(Append(channel[u], Len(published))) <= Buffer
        BY <3>1, <4>1
      <4> QED
        BY <1>9, <3>1, <4>2 DEF Offer
    <3>2. CASE ~(Len(channel[u]) < Buffer)
      BY <1>9, <3>2 DEF Offer
    <3> QED
      BY <3>1, <3>2
  <2> QED
    BY <1>9, <2>1, <2>2, <2>3, <2>4 DEF Offer, streamVars
<1>10. ASSUME NEW t \in Topics, PublishBegin(t) PROVE TypeOK'
  BY <1>10 DEF PublishBegin, hubVars, subVars, streamVars, pubVars
<1>11. ASSUME Close PROVE TypeOK'
  <2>1. closes' \in [Streams -> Nat]
    BY <1>11 DEF Close
  <2>2. watch' \in [Streams -> {"none", "armed", "running", "ended"}]
    BY <1>11 DEF Close, Stopped
  <2>3. offering' = {} /\ members' = {} /\ open' = FALSE
    BY <1>11 DEF Close, Unlocked, pubVars
  <2> QED
    BY <1>11, <2>1, <2>2, <2>3 DEF Close, streamVars, pubVars
<1>12. CASE UNCHANGED vars
  BY <1>12 DEF vars, hubVars, subVars, streamVars, pubVars
<1> QED
  BY <1>1, <1>2, <1>3, <1>4, <1>5, <1>6, <1>7, <1>8, <1>9, <1>10, <1>11, <1>12 DEF Next, StreamStep, Rest

\* Only a member is closed, and it is a member no longer then.
LEMMA StepMember ==
    ASSUME TypeOK, MemberInv, [Next]_vars
    PROVE  MemberInv'
<1> USE DEF TypeOK, MemberInv, Unsubscribed, Unlocked
<1>1. ASSUME NEW u \in Streams, NEW ok \in BOOLEAN, StartStream(u, ok) PROVE MemberInv'
  BY <1>1 DEF StartStream, hubVars, subVars, streamVars, pubVars
<1>2. ASSUME NEW u \in Streams, NEW ok \in BOOLEAN, Write(u, ok) PROVE MemberInv'
  BY <1>2 DEF Write, hubVars, subVars, streamVars, pubVars
<1>3. ASSUME NEW u \in Streams, SubscribeChecks(u) PROVE MemberInv'
  <2>1. closes[u] = 0 /\ u \notin members /\ pc[u] = "checking"
    BY <1>3 DEF SubscribeChecks
  <2>2. CASE contextEnded[u]
    <3>1. closes' = [closes EXCEPT ![u] = closes[u] + 1]
      BY <1>3, <2>2, Zenon DEF SubscribeChecks
    <3>2. \A s \in Streams : closes'[s] = IF s = u THEN 1 ELSE closes[s]
      BY <2>1, <3>1
    <3> QED
      BY <1>3, <2>1, <2>2, <3>2 DEF SubscribeChecks, hubVars
  <2>3. CASE ~contextEnded[u]
    BY <1>3, <2>1, <2>3 DEF SubscribeChecks, hubVars
  <2> QED
    BY <2>2, <2>3
<1>4. ASSUME NEW u \in Streams, Subscribe(u) PROVE MemberInv'
  BY <1>4 DEF Subscribe, hubVars, subVars, streamVars, pubVars
<1>5. ASSUME NEW u \in Streams, Select(u) PROVE MemberInv'
  BY <1>5 DEF Select, hubVars, subVars, streamVars, pubVars
<1>6. ASSUME NEW u \in Streams, HeartbeatFails(u) PROVE MemberInv'
  BY <1>6 DEF HeartbeatFails, hubVars, subVars, streamVars, pubVars
<1>7. ASSUME NEW u \in Streams, ContextEnds(u) PROVE MemberInv'
  BY <1>7 DEF ContextEnds, hubVars, subVars, streamVars, pubVars
<1>8. ASSUME NEW u \in Streams, RemoveSubscriber(u) PROVE MemberInv'
  BY <1>8 DEF RemoveSubscriber, Disconnect, hubVars, subVars, streamVars, pubVars
<1>9. ASSUME NEW u \in Streams, Offer(u) PROVE MemberInv'
  BY <1>9 DEF Offer, Disconnect, Stopped, hubVars, subVars, streamVars, pubVars
<1>10. ASSUME NEW t \in Topics, PublishBegin(t) PROVE MemberInv'
  BY <1>10 DEF PublishBegin, hubVars, subVars, streamVars, pubVars
<1>11. ASSUME Close PROVE MemberInv'
  BY <1>11 DEF Close, Stopped, hubVars, subVars, streamVars, pubVars
<1>12. CASE UNCHANGED vars
  BY <1>12 DEF vars, hubVars, subVars, streamVars, pubVars
<1> QED
  BY <1>1, <1>2, <1>3, <1>4, <1>5, <1>6, <1>7, <1>8, <1>9, <1>10, <1>11, <1>12 DEF Next, StreamStep, Rest

\* An event is in hand between the receive and the write.
LEMMA StepInHand ==
    ASSUME TypeOK, InHandInv, MemberInv, DeliveryInv, [Next]_vars
    PROVE  InHandInv'
<1> USE DEF TypeOK, InHandInv, MemberInv, DeliveryInv, Unsubscribed
<1>1. ASSUME NEW u \in Streams, NEW ok \in BOOLEAN, StartStream(u, ok) PROVE InHandInv'
  BY <1>1 DEF StartStream, hubVars, subVars, streamVars, pubVars
<1>2. ASSUME NEW u \in Streams, NEW ok \in BOOLEAN, Write(u, ok) PROVE InHandInv'
  BY <1>2 DEF Write, hubVars, subVars, streamVars, pubVars
<1>3. ASSUME NEW u \in Streams, SubscribeChecks(u) PROVE InHandInv'
  BY <1>3 DEF SubscribeChecks, hubVars, subVars, streamVars, pubVars
<1>4. ASSUME NEW u \in Streams, Subscribe(u) PROVE InHandInv'
  BY <1>4 DEF Subscribe, hubVars, subVars, streamVars, pubVars
<1>5. ASSUME NEW u \in Streams, Select(u) PROVE InHandInv'
  <2>1. ASSUME channel[u] # <<>>, pc[u] = "selecting" PROVE Head(channel[u]) # 0
    BY <2>1, HeadIsDue DEF Delivery, Owed
  <2> QED
    BY <1>5, <2>1 DEF Select, Unsubscribed
<1>6. ASSUME NEW u \in Streams, HeartbeatFails(u) PROVE InHandInv'
  BY <1>6 DEF HeartbeatFails, hubVars, subVars, streamVars, pubVars
<1>7. ASSUME NEW u \in Streams, ContextEnds(u) PROVE InHandInv'
  BY <1>7 DEF ContextEnds, hubVars, subVars, streamVars, pubVars
<1>8. ASSUME NEW u \in Streams, RemoveSubscriber(u) PROVE InHandInv'
  BY <1>8 DEF RemoveSubscriber, Disconnect, hubVars, subVars, streamVars, pubVars
<1>9. ASSUME NEW u \in Streams, Offer(u) PROVE InHandInv'
  BY <1>9 DEF Offer, Disconnect, Stopped, hubVars, subVars, streamVars, pubVars
<1>10. ASSUME NEW t \in Topics, PublishBegin(t) PROVE InHandInv'
  BY <1>10 DEF PublishBegin, hubVars, subVars, streamVars, pubVars
<1>11. ASSUME Close PROVE InHandInv'
  BY <1>11 DEF Close, Stopped, hubVars, subVars, streamVars, pubVars
<1>12. CASE UNCHANGED vars
  BY <1>12 DEF vars, hubVars, subVars, streamVars, pubVars
<1> QED
  BY <1>1, <1>2, <1>3, <1>4, <1>5, <1>6, <1>7, <1>8, <1>9, <1>10, <1>11, <1>12 DEF Next, StreamStep, Rest

\* A stream joins at the present.
LEMMA StepJoined ==
    ASSUME TypeOK, JoinedInv, [Next]_vars
    PROVE  JoinedInv'
<1> USE DEF TypeOK, JoinedInv
<1>1. ASSUME NEW u \in Streams, NEW ok \in BOOLEAN, StartStream(u, ok) PROVE JoinedInv'
  BY <1>1 DEF StartStream, hubVars, subVars, streamVars, pubVars
<1>2. ASSUME NEW u \in Streams, NEW ok \in BOOLEAN, Write(u, ok) PROVE JoinedInv'
  BY <1>2 DEF Write, hubVars, subVars, streamVars, pubVars
<1>3. ASSUME NEW u \in Streams, SubscribeChecks(u) PROVE JoinedInv'
  BY <1>3 DEF SubscribeChecks, hubVars, subVars, streamVars, pubVars
<1>4. ASSUME NEW u \in Streams, Subscribe(u) PROVE JoinedInv'
  <2>1. Len(published) \in Nat
    OBVIOUS
  <2>2. joined' = joined \/ joined' = [joined EXCEPT ![u] = Len(published)]
    BY <1>4, Zenon DEF Subscribe
  <2>3. \A s \in Streams : joined'[s] = joined[s] \/ joined'[s] = Len(published)
    BY <2>2
  <2>4. published' = published
    BY <1>4 DEF Subscribe, pubVars
  <2>5. ASSUME NEW s \in Streams PROVE joined'[s] <= Len(published)
    <3>1. joined[s] <= Len(published)
      BY Zenon
    <3>2. Len(published) <= Len(published)
      BY <2>1
    <3> QED
      BY <2>3, <3>1, <3>2, Zenon
  <2> QED
    BY <2>4, <2>5
<1>5. ASSUME NEW u \in Streams, Select(u) PROVE JoinedInv'
  BY <1>5 DEF Select, hubVars, subVars, streamVars, pubVars
<1>6. ASSUME NEW u \in Streams, HeartbeatFails(u) PROVE JoinedInv'
  BY <1>6 DEF HeartbeatFails, hubVars, subVars, streamVars, pubVars
<1>7. ASSUME NEW u \in Streams, ContextEnds(u) PROVE JoinedInv'
  BY <1>7 DEF ContextEnds, hubVars, subVars, streamVars, pubVars
<1>8. ASSUME NEW u \in Streams, RemoveSubscriber(u) PROVE JoinedInv'
  BY <1>8 DEF RemoveSubscriber, Disconnect, hubVars, subVars, streamVars, pubVars
<1>9. ASSUME NEW u \in Streams, Offer(u) PROVE JoinedInv'
  BY <1>9 DEF Offer, Disconnect, Stopped, hubVars, subVars, streamVars, pubVars
<1>10. ASSUME NEW t \in Topics, PublishBegin(t) PROVE JoinedInv'
  BY <1>10 DEF PublishBegin, hubVars, subVars, streamVars, pubVars
<1>11. ASSUME Close PROVE JoinedInv'
  BY <1>11 DEF Close, Stopped, hubVars, subVars, streamVars, pubVars
<1>12. CASE UNCHANGED vars
  BY <1>12 DEF vars, hubVars, subVars, streamVars, pubVars
<1> QED
  BY <1>1, <1>2, <1>3, <1>4, <1>5, <1>6, <1>7, <1>8, <1>9, <1>10, <1>11, <1>12 DEF Next, StreamStep, Rest

\* Receiving an event takes it from the channel into the hand.
LEMMA SelectKeeps ==
    ASSUME TypeOK, InHandInv, DeliveryInv, NEW u \in Streams, Select(u),
           NEW s \in Streams, pc'[s] # "returned"
    PROVE  pc[s] # "returned" /\ Pending(s)' = Pending(s)
<1>1. CASE s # u
  BY <1>1, PendingKept DEF Select, TypeOK
<1>2. CASE s = u
  <2>1. /\ pc[u] = "selecting" /\ channel[u] # <<>>
        /\ inHand' = [inHand EXCEPT ![u] = Head(channel[u])]
        /\ channel' = [channel EXCEPT ![u] = Tail(@)]
        /\ sent' = sent
    BY <1>2 DEF Select, TypeOK
  <2>2. inHand[u] = 0 /\ inHand'[u] = Head(channel[u]) /\ channel'[u] = Tail(channel[u])
    BY <2>1 DEF InHandInv, TypeOK
  <2>3. Head(channel[u]) # 0
    BY <2>1, HeadIsDue DEF DeliveryInv, Delivery, Owed
  <2>4. sent[u] \o <<Head(channel[u])>> \o Tail(channel[u]) = sent[u] \o <<>> \o channel[u]
    <3>1. sent[u] \in Seq(Nat) /\ channel[u] \in Seq(Nat)
      BY DEF TypeOK
    <3> QED
      BY <2>1, <3>1, RegroupSelected
  <2>5. Pending(u) = sent[u] \o <<>> \o channel[u]
    BY <2>2 DEF Pending
  <2>6. Pending(u)' = sent[u] \o <<Head(channel[u])>> \o Tail(channel[u])
    BY <2>1, <2>2, <2>3 DEF Pending
  <2> QED
    BY <1>2, <2>1, <2>4, <2>5, <2>6
<1> QED
  BY <1>1, <1>2

\* Writing an event takes it from the hand to the end of what was sent.
LEMMA WriteKeeps ==
    ASSUME TypeOK, InHandInv, NEW u \in Streams, NEW ok \in BOOLEAN, Write(u, ok),
           NEW s \in Streams, pc'[s] # "returned"
    PROVE  /\ pc[s] # "returned" /\ Pending(s)' = Pending(s)
           /\ s = u => sent'[u] \in Seq(Nat) /\ Pending(u) = sent'[u] \o channel[u]
<1>1. CASE s # u
  BY <1>1, PendingKept DEF Write, TypeOK, subVars
<1>2. CASE s = u
  <2>1. /\ pc[u] = "writing" /\ channel' = channel
        /\ inHand'[u] = 0 /\ sent'[u] = Append(sent[u], inHand[u]) /\ inHand[u] # 0
    BY <1>2 DEF Write, TypeOK, subVars, InHandInv
  <2>2. sent[u] \in Seq(Nat) /\ channel[u] \in Seq(Nat) /\ inHand[u] \in Nat
    BY DEF TypeOK
  <2>3. sent'[u] \in Seq(Nat)
    BY <2>1, <2>2, AppendProperties
  <2>4. Append(sent[u], inHand[u]) \o <<>> \o channel[u] = sent[u] \o <<inHand[u]>> \o channel[u]
    BY <2>2, RegroupWritten
  <2>5. Pending(u) = sent[u] \o <<inHand[u]>> \o channel[u]
    BY <2>1 DEF Pending
  <2>6. Pending(u)' = sent'[u] \o <<>> \o channel[u]
    BY <2>1 DEF Pending
  <2>7. sent'[u] \o <<>> = sent'[u]
    BY <2>3, ConcatEmptySeq
  <2>8. Pending(u)' = Pending(u)
    BY <2>1, <2>4, <2>5, <2>6
  <2>9. Pending(u) = sent'[u] \o channel[u]
    BY <2>6, <2>7, <2>8
  <2> QED
    BY <1>2, <2>1, <2>3, <2>8, <2>9
<1> QED
  BY <1>1, <1>2

\* An offer that finds room adds the event at the end.
LEMMA OfferAppends ==
    ASSUME TypeOK, NEW u \in Streams, Offer(u), Len(channel[u]) < Buffer
    PROVE  Pending(u)' = Append(Pending(u), Len(published))
<1> DEFINE x == IF inHand[u] = 0 THEN <<>> ELSE <<inHand[u]>>
<1>1. /\ sent' = sent /\ inHand' = inHand
      /\ channel'[u] = Append(channel[u], Len(published))
  BY DEF Offer, TypeOK, streamVars
<1>2. /\ sent[u] \in Seq(Nat) /\ channel[u] \in Seq(Nat) /\ x \in Seq(Nat)
      /\ Len(published) \in Nat
  BY EmptySeq DEF TypeOK
<1>3. Pending(u) = sent[u] \o x \o channel[u]
  BY DEF Pending
<1>4. Pending(u)' = sent[u] \o x \o Append(channel[u], Len(published))
  BY <1>1 DEF Pending
<1> HIDE DEF x
<1>5. sent[u] \o x \o Append(channel[u], Len(published))
        = Append(sent[u] \o x \o channel[u], Len(published))
  <2> DEFINE Events == Nat
             p == sent[u]
             q == channel[u]
             n == Len(published)
  <2>1. p \in Seq(Events) /\ q \in Seq(Events) /\ x \in Seq(Events) /\ n \in Events
    BY <1>2
  <2> HIDE DEF Events, p, q, n
  <2>2. p \o x \o Append(q, n) = Append(p \o x \o q, n)
    BY <2>1, RegroupOffered
  <2> QED
    BY <2>2 DEF p, q, n
<1> QED
  BY <1>3, <1>4, <1>5

\* A new event is owed to the streams of its topic.
LEMMA PublishedIsDue ==
    ASSUME TypeOK, JoinedInv, NEW t \in Topics, PublishBegin(t), NEW s \in Streams
    PROVE  Due(s)' = Due(s) \union (IF topic[s] = t THEN {Len(published) + 1} ELSE {})
<1> DEFINE n == Len(published)
<1>1. /\ n \in Nat /\ Len(published') = n + 1 /\ published'[n + 1] = t
      /\ \A i \in 1..n : published'[i] = published[i]
  BY AppendProperties DEF TypeOK, PublishBegin
<1>2. joined' = joined /\ topic' = topic /\ joined[s] \in Nat /\ joined[s] <= n
  BY DEF TypeOK, JoinedInv, PublishBegin, subVars
<1> HIDE DEF n
<1>3. 1..Len(published') = (1..n) \union {n + 1}
  BY <1>1
<1>4. Due(s)' = {i \in (1..n) \union {n + 1} : i > joined[s] /\ published'[i] = topic[s]}
  BY <1>2, <1>3 DEF Due
<1>5. Due(s) = {i \in 1..n : i > joined[s] /\ published[i] = topic[s]}
  BY DEF Due, n
<1> QED
  BY <1>1, <1>2, <1>4, <1>5 DEF n

\* Receiving and writing move events along, Publish adds at the end.
LEMMA StepDelivery ==
    ASSUME TypeOK, MemberInv, InHandInv, OfferInv, JoinedInv, DeliveryInv, [Next]_vars
    PROVE  DeliveryInv'
<1> USE DEF TypeOK, MemberInv, InHandInv, OfferInv, JoinedInv, DeliveryInv
<1>1. ASSUME NEW u \in Streams, NEW ok \in BOOLEAN, StartStream(u, ok) PROVE DeliveryInv'
  <2>1. ASSUME NEW s \in Streams PROVE Delivery(s)'
    <3>1. Pending(s)' = Pending(s) /\ Due(s)' = Due(s)
      BY <1>1, PendingKept, DueKept DEF StartStream, hubVars, subVars, streamVars, pubVars
    <3> QED
      BY <1>1, <3>1, DeliveryKept DEF StartStream, hubVars, subVars, streamVars, pubVars
  <2> QED
    BY <2>1
<1>2. ASSUME NEW u \in Streams, NEW ok \in BOOLEAN, Write(u, ok) PROVE DeliveryInv'
  <2>1. ASSUME NEW s \in Streams PROVE Delivery(s)'
    <3>1. Due(s)' = Due(s)
      BY <1>2, DueKept DEF Write, subVars, pubVars
    <3>2. pc'[s] # "returned" => pc[s] # "returned" /\ Pending(s)' = Pending(s)
      BY <1>2, WriteKeeps
    <3>3. CASE sent'[s] = sent[s]
      BY <1>2, <3>1, <3>2, <3>3, DeliveryKept DEF Write, hubVars, pubVars
    <3>4. CASE sent'[s] # sent[s]
      <4>1. s = u /\ ok /\ pc[u] = "writing" /\ pc'[u] = "selecting"
        BY <1>2, <3>4 DEF Write
      <4>2. Pending(u) = sent'[u] \o channel[u] /\ sent'[u] \in Seq(Nat)
        BY <1>2, <4>1, WriteKeeps
      <4>3. channel[u] \in Seq(Nat)
        OBVIOUS
      <4>4. /\ ToSet(Pending(u)) = ToSet(sent'[u]) \union ToSet(channel[u])
            /\ InOrder(Pending(u)) =>
                 InOrder(sent'[u]) /\ \A e \in ToSet(sent'[u]), f \in ToSet(channel[u]) : e < f
        BY <4>2, <4>3, PrefixElements
      <4>5. Owed(u, Pending(u)) /\ (policy = "disconnect" => NoGap(u, Pending(u)))
        BY <4>1 DEF Delivery
      <4>6. Owed(u, sent[u])'
        BY <3>1, <4>1, <4>4, <4>5 DEF Owed
      <4>7. ASSUME policy' = "disconnect" PROVE NoGap(u, sent[u])'
        <5>1. policy = "disconnect"
          BY <1>2, <4>7 DEF Write, hubVars
        <5>2. ASSUME NEW e \in Due(u), NEW f \in ToSet(sent'[u]), e < f PROVE e \in ToSet(sent'[u])
          <6>1. e \in ToSet(Pending(u))
            BY <4>4, <4>5, <5>1, <5>2 DEF NoGap
          <6>2. e \notin ToSet(channel[u])
            <7>1. e \in Nat /\ f \in Nat
              BY <4>4, <4>5 DEF Due, Owed
            <7>2. e \in ToSet(channel[u]) => f < e
              BY <4>4, <4>5 DEF Owed
            <7> QED
              BY <5>2, <7>1, <7>2
          <6> QED
            BY <4>4, <6>1, <6>2
        <5> QED
          BY <3>1, <4>1, <5>2 DEF NoGap
      <4>8. Owed(u, Pending(u))' /\ (policy' = "disconnect" => NoGap(u, Pending(u))')
        BY <1>2, <3>1, <3>2, <4>1, <4>5 DEF Owed, NoGap, Write, hubVars
      <4>9. policy' = "disconnect" /\ u \in members' => Awaited(u)' \subseteq ToSet(Pending(u))'
        BY <1>2, <3>1, <3>2, <4>1 DEF Delivery, Awaited, Write, hubVars, pubVars
      <4> QED
        BY <4>1, <4>6, <4>7, <4>8, <4>9 DEF Delivery
    <3> QED
      BY <3>3, <3>4
  <2> QED
    BY <2>1
<1>3. ASSUME NEW u \in Streams, SubscribeChecks(u) PROVE DeliveryInv'
  <2>1. ASSUME NEW s \in Streams PROVE Delivery(s)'
    <3>1. Pending(s)' = Pending(s) /\ Due(s)' = Due(s)
      BY <1>3, PendingKept, DueKept DEF SubscribeChecks, hubVars, subVars, streamVars, pubVars
    <3> QED
      BY <1>3, <3>1, DeliveryKept DEF SubscribeChecks, hubVars, subVars, streamVars, pubVars
  <2> QED
    BY <2>1
<1>4. ASSUME NEW u \in Streams, Subscribe(u) PROVE DeliveryInv'
  <2>1. ASSUME NEW s \in Streams, s # u \/ ~open PROVE Delivery(s)'
    <3>1. Pending(s)' = Pending(s) /\ Due(s)' = Due(s)
      BY <1>4, <2>1, PendingKept, DueKept DEF Subscribe, pubVars
    <3> QED
      BY <1>4, <2>1, <3>1, DeliveryKept DEF Subscribe, pubVars
  <2>2. ASSUME open PROVE Delivery(u)'
    <3>1. sent'[u] = <<>> /\ inHand'[u] = 0 /\ channel'[u] = <<>>
      BY <1>4 DEF Subscribe, Unsubscribed
    <3>2. Pending(u)' = <<>>
      BY <3>1, EmptySeq, ConcatEmptySeq DEF Pending
    <3>3. joined'[u] = Len(published) /\ published' = published
      BY <1>4, <2>2 DEF Subscribe, pubVars
    <3>4. Due(u)' = {}
      BY <3>3 DEF Due
    <3>5. InOrder(<<>>) /\ ToSet(<<>>) = {}
      BY DEF InOrder, ToSet
    <3>6. Owed(u, sent[u])' /\ Owed(u, Pending(u))' /\ NoGap(u, sent[u])' /\ NoGap(u, Pending(u))'
      BY <3>1, <3>2, <3>4, <3>5 DEF Owed, NoGap
    <3>7. Awaited(u)' = {}
      BY <3>4 DEF Awaited
    <3> QED
      BY <3>6, <3>7 DEF Delivery
  <2> QED
    BY <2>1, <2>2
<1>5. ASSUME NEW u \in Streams, Select(u) PROVE DeliveryInv'
  <2>1. ASSUME NEW s \in Streams PROVE Delivery(s)'
    <3>1. Due(s)' = Due(s)
      BY <1>5, DueKept DEF Select, pubVars
    <3>2. pc'[s] # "returned" => pc[s] # "returned" /\ Pending(s)' = Pending(s)
      BY <1>5, SelectKeeps
    <3> QED
      BY <1>5, <3>1, <3>2, DeliveryKept DEF Select, hubVars, pubVars
  <2> QED
    BY <2>1
<1>6. ASSUME NEW u \in Streams, HeartbeatFails(u) PROVE DeliveryInv'
  <2>1. ASSUME NEW s \in Streams PROVE Delivery(s)'
    <3>1. Pending(s)' = Pending(s) /\ Due(s)' = Due(s)
      BY <1>6, PendingKept, DueKept DEF HeartbeatFails, hubVars, subVars, streamVars, pubVars
    <3> QED
      BY <1>6, <3>1, DeliveryKept DEF HeartbeatFails, hubVars, subVars, streamVars, pubVars
  <2> QED
    BY <2>1
<1>7. ASSUME NEW u \in Streams, ContextEnds(u) PROVE DeliveryInv'
  <2>1. ASSUME NEW s \in Streams PROVE Delivery(s)'
    <3>1. Pending(s)' = Pending(s) /\ Due(s)' = Due(s)
      BY <1>7, PendingKept, DueKept DEF ContextEnds, hubVars, subVars, streamVars, pubVars
    <3> QED
      BY <1>7, <3>1, DeliveryKept DEF ContextEnds, hubVars, subVars, streamVars, pubVars
  <2> QED
    BY <2>1
<1>8. ASSUME NEW u \in Streams, RemoveSubscriber(u) PROVE DeliveryInv'
  <2>1. ASSUME NEW s \in Streams PROVE Delivery(s)'
    <3>1. Pending(s)' = Pending(s) /\ Due(s)' = Due(s)
      BY <1>8, PendingKept, DueKept DEF RemoveSubscriber, hubVars, subVars, streamVars, pubVars
    <3> QED
      BY <1>8, <3>1, DeliveryKept DEF RemoveSubscriber, Disconnect, Unlocked, hubVars, subVars, streamVars, pubVars
  <2> QED
    BY <2>1
<1>9. ASSUME NEW u \in Streams, Offer(u) PROVE DeliveryInv'
  <2> DEFINE n == Len(published)
  <2>1. u \in offering /\ u \in members /\ Offering(u) /\ UNCHANGED <<policy, published, pc, sent, inHand>>
    BY <1>9 DEF Offer, streamVars
  <2>2. ASSUME NEW s \in Streams PROVE Due(s)' = Due(s)
    BY <1>9, DueKept DEF Offer
  <2>3. ASSUME NEW s \in Streams, s # u \/ ~(Len(channel[u]) < Buffer) PROVE Delivery(s)'
    <3>1. Pending(s)' = Pending(s)
      BY <1>9, <2>3, PendingKept DEF Offer, streamVars
    <3>2. policy = "disconnect" /\ s \in members' =>
            s \in members /\ (s \in offering <=> s \in offering')
      BY <1>9, <2>3 DEF Offer, Disconnect
    <3> QED
      BY <2>1, <2>2, <3>1, <3>2, DeliveryKept
  <2>4. ASSUME Len(channel[u]) < Buffer PROVE Delivery(u)'
    <3>1. Pending(u)' = Append(Pending(u), n)
      BY <1>9, <2>4, OfferAppends
    <3>2. Owed(u, sent[u])' /\ (policy' = "disconnect" => NoGap(u, sent[u])')
      BY <2>1, <2>2 DEF Delivery, Owed, NoGap
    <3>3. ASSUME pc[u] # "returned"
          PROVE  /\ InOrder(Pending(u))'
                 /\ ToSet(Pending(u))' = ToSet(Pending(u)) \union {n}
      <4>1. /\ Pending(u) \in Seq(Nat) /\ n \in Nat /\ InOrder(Pending(u))
            /\ ToSet(Pending(u)) \subseteq 1..n /\ n \notin ToSet(Pending(u))
        BY <2>1, <3>3, PendingType, DueBound DEF Delivery, Owed, Offering
      <4>2. \A e \in ToSet(Pending(u)) : e < n
        BY <4>1
      <4> QED
        BY <3>1, <4>1, <4>2, AppendInOrder
    <3>4. ASSUME pc[u] # "returned" PROVE Owed(u, Pending(u))'
      BY <2>1, <2>2, <3>3, <3>4 DEF Delivery, Owed, Offering
    <3>5. ASSUME pc[u] # "returned", policy = "disconnect"
          PROVE  Due(u) \subseteq ToSet(Pending(u)) \union {n}
      BY <2>1, <3>5 DEF Delivery, Awaited
    <3>6. ASSUME pc[u] # "returned", policy = "disconnect"
          PROVE  NoGap(u, Pending(u))' /\ Awaited(u)' \subseteq ToSet(Pending(u))'
      BY <2>1, <2>2, <3>3, <3>5, <3>6 DEF NoGap, Awaited
    <3> QED
      BY <2>1, <3>2, <3>4, <3>6 DEF Delivery
  <2> QED
    BY <2>3, <2>4
<1>10. ASSUME NEW t \in Topics, PublishBegin(t) PROVE DeliveryInv'
  <2> DEFINE n == Len(published)
  <2>1. n \in Nat /\ Len(published') = n + 1 /\ \A i \in 1..n : published'[i] = published[i]
    BY <1>10 DEF PublishBegin
  <2>2. ASSUME NEW s \in Streams
        PROVE  Due(s)' = Due(s) \union IF topic[s] = t THEN {n + 1} ELSE {}
    BY <1>10, PublishedIsDue
  <2>3. ASSUME NEW s \in Streams, NEW q, Owed(s, q) PROVE Owed(s, q)'
    BY <2>2, <2>3 DEF Owed
  <2>4. ASSUME NEW s \in Streams, NEW q, Owed(s, q), NoGap(s, q) PROVE NoGap(s, q)'
    <3>1. ASSUME NEW e \in Due(s)', NEW f \in ToSet(q), e < f PROVE e \in ToSet(q)
      <4>1. f \in 1..n
        BY <2>4, DueBound DEF Owed
      <4>2. e # n + 1
        BY <2>1, <3>1, <4>1
      <4> QED
        BY <2>2, <2>4, <3>1, <4>2 DEF NoGap
    <3> QED
      BY <3>1 DEF NoGap
  <2>5. ASSUME NEW s \in Streams PROVE Delivery(s)'
    <3>1. Pending(s)' = Pending(s) /\ sent'[s] = sent[s] /\ pc'[s] = pc[s] /\ policy' = policy
      BY <1>10, PendingKept DEF PublishBegin, hubVars, subVars, streamVars
    <3>2. Owed(s, sent[s])' /\ (policy = "disconnect" => NoGap(s, sent[s])')
      BY <2>3, <2>4, <3>1 DEF Delivery, Owed, NoGap
    <3>3. pc[s] # "returned" =>
            Owed(s, Pending(s))' /\ (policy = "disconnect" => NoGap(s, Pending(s))')
      BY <2>3, <2>4, <3>1 DEF Delivery, Owed, NoGap
    <3>4. ASSUME s \in members' PROVE Awaited(s)' = Awaited(s)
      <4>1. s \in members /\ s \notin offering /\ (s \in offering' <=> topic[s] = t)
        BY <1>10, <3>4 DEF PublishBegin, Unlocked, hubVars
      <4>2. n + 1 \notin Due(s)
        BY <2>1, DueBound
      <4>3. CASE topic[s] = t
        <5>1. Awaited(s)' = Due(s)' \ {n + 1} /\ Due(s)' = Due(s) \union {n + 1}
          BY <2>1, <2>2, <4>1, <4>3 DEF Awaited
        <5> QED
          BY <4>1, <4>2, <5>1 DEF Awaited
      <4>4. CASE topic[s] # t
        <5>1. Due(s)' = Due(s)
          BY <2>2, <4>4
        <5> QED
          BY <4>1, <4>4, <5>1 DEF Awaited
      <4> QED
        BY <4>3, <4>4
    <3> QED
      BY <1>10, <3>1, <3>2, <3>3, <3>4 DEF Delivery, PublishBegin, hubVars
  <2> QED
    BY <2>5
<1>11. ASSUME Close PROVE DeliveryInv'
  <2>1. ASSUME NEW s \in Streams PROVE Delivery(s)'
    <3>1. Pending(s)' = Pending(s) /\ Due(s)' = Due(s)
      BY <1>11, PendingKept, DueKept DEF Close, hubVars, subVars, streamVars, pubVars
    <3> QED
      BY <1>11, <3>1, DeliveryKept DEF Close, Unlocked, hubVars, subVars, streamVars, pubVars
  <2> QED
    BY <2>1
<1>12. CASE UNCHANGED vars
  <2>1. ASSUME NEW s \in Streams PROVE Delivery(s)'
    <3>1. Pending(s)' = Pending(s) /\ Due(s)' = Due(s)
      BY <1>12, PendingKept, DueKept DEF vars, hubVars, subVars, streamVars, pubVars
    <3> QED
      BY <1>12, <3>1, DeliveryKept DEF vars, hubVars, subVars, streamVars, pubVars
  <2> QED
    BY <2>1
<1> QED
  BY <1>1, <1>2, <1>3, <1>4, <1>5, <1>6, <1>7, <1>8, <1>9, <1>10, <1>11, <1>12 DEF Next, StreamStep, Rest

\* Publish goes through the subscribers of the topic once.
LEMMA StepOffer ==
    ASSUME TypeOK, InHandInv, OfferInv, JoinedInv, DeliveryInv, [Next]_vars
    PROVE  OfferInv'
<1> USE DEF TypeOK, InHandInv, OfferInv, JoinedInv, DeliveryInv
<1>1. ASSUME NEW u \in Streams, NEW ok \in BOOLEAN, StartStream(u, ok) PROVE OfferInv'
  <2>1. ASSUME NEW s \in offering' PROVE Offering(s)'
    <3>1. s \in offering /\ s \in Streams
      BY <1>1 DEF StartStream, hubVars, subVars, streamVars, pubVars
    <3>2. Pending(s)' = Pending(s) /\ Due(s)' = Due(s)
      BY <1>1, <3>1, PendingKept, DueKept DEF StartStream, hubVars, subVars, streamVars, pubVars
    <3> QED
      BY <1>1, <3>1, <3>2, OfferingKept DEF StartStream, hubVars, subVars, streamVars, pubVars
  <2> QED
    BY <2>1
<1>2. ASSUME NEW u \in Streams, NEW ok \in BOOLEAN, Write(u, ok) PROVE OfferInv'
  <2>1. ASSUME NEW s \in offering' PROVE Offering(s)'
    <3>1. s \in offering /\ s \in Streams
      BY <1>2 DEF Write, subVars, pubVars
    <3>2. Due(s)' = Due(s) /\ UNCHANGED published
      BY <1>2, <3>1, DueKept DEF Write, subVars, pubVars
    <3>3. pc'[s] # "returned" => pc[s] # "returned" /\ Pending(s)' = Pending(s)
      BY <1>2, <3>1, WriteKeeps
    <3> QED
      BY <3>1, <3>2, <3>3, OfferingKept
  <2> QED
    BY <2>1
<1>3. ASSUME NEW u \in Streams, SubscribeChecks(u) PROVE OfferInv'
  <2>1. ASSUME NEW s \in offering' PROVE Offering(s)'
    <3>1. s \in offering /\ s \in Streams
      BY <1>3 DEF SubscribeChecks, hubVars, subVars, streamVars, pubVars
    <3>2. Pending(s)' = Pending(s) /\ Due(s)' = Due(s)
      BY <1>3, <3>1, PendingKept, DueKept DEF SubscribeChecks, hubVars, subVars, streamVars, pubVars
    <3> QED
      BY <1>3, <3>1, <3>2, OfferingKept DEF SubscribeChecks, hubVars, subVars, streamVars, pubVars
  <2> QED
    BY <2>1
<1>4. ASSUME NEW u \in Streams, Subscribe(u) PROVE OfferInv'
  BY <1>4 DEF Subscribe, Unlocked, pubVars
<1>5. ASSUME NEW u \in Streams, Select(u) PROVE OfferInv'
  <2>1. ASSUME NEW s \in offering' PROVE Offering(s)'
    <3>1. s \in offering /\ s \in Streams
      BY <1>5 DEF Select, pubVars
    <3>2. Due(s)' = Due(s) /\ UNCHANGED published
      BY <1>5, <3>1, DueKept DEF Select, pubVars
    <3>3. pc'[s] # "returned" => pc[s] # "returned" /\ Pending(s)' = Pending(s)
      BY <1>5, <3>1, SelectKeeps
    <3> QED
      BY <3>1, <3>2, <3>3, OfferingKept
  <2> QED
    BY <2>1
<1>6. ASSUME NEW u \in Streams, HeartbeatFails(u) PROVE OfferInv'
  <2>1. ASSUME NEW s \in offering' PROVE Offering(s)'
    <3>1. s \in offering /\ s \in Streams
      BY <1>6 DEF HeartbeatFails, hubVars, subVars, streamVars, pubVars
    <3>2. Pending(s)' = Pending(s) /\ Due(s)' = Due(s)
      BY <1>6, <3>1, PendingKept, DueKept DEF HeartbeatFails, hubVars, subVars, streamVars, pubVars
    <3> QED
      BY <1>6, <3>1, <3>2, OfferingKept DEF HeartbeatFails, hubVars, subVars, streamVars, pubVars
  <2> QED
    BY <2>1
<1>7. ASSUME NEW u \in Streams, ContextEnds(u) PROVE OfferInv'
  <2>1. ASSUME NEW s \in offering' PROVE Offering(s)'
    <3>1. s \in offering /\ s \in Streams
      BY <1>7 DEF ContextEnds, hubVars, subVars, streamVars, pubVars
    <3>2. Pending(s)' = Pending(s) /\ Due(s)' = Due(s)
      BY <1>7, <3>1, PendingKept, DueKept DEF ContextEnds, hubVars, subVars, streamVars, pubVars
    <3> QED
      BY <1>7, <3>1, <3>2, OfferingKept DEF ContextEnds, hubVars, subVars, streamVars, pubVars
  <2> QED
    BY <2>1
<1>8. ASSUME NEW u \in Streams, RemoveSubscriber(u) PROVE OfferInv'
  BY <1>8 DEF RemoveSubscriber, Unlocked, pubVars
<1>9. ASSUME NEW u \in Streams, Offer(u) PROVE OfferInv'
  <2>1. ASSUME NEW s \in offering' PROVE Offering(s)'
    <3>1. s \in offering /\ s \in Streams /\ s # u
      BY <1>9 DEF Offer
    <3>2. Pending(s)' = Pending(s) /\ Due(s)' = Due(s)
      BY <1>9, <3>1, PendingKept, DueKept DEF Offer, hubVars, subVars, streamVars, pubVars
    <3> QED
      BY <1>9, <3>1, <3>2, OfferingKept DEF Offer, hubVars, subVars, streamVars, pubVars
  <2> QED
    BY <2>1
<1>10. ASSUME NEW t \in Topics, PublishBegin(t) PROVE OfferInv'
  <2> DEFINE n == Len(published)
  <2>1. n \in Nat /\ Len(published') = n + 1
    BY <1>10 DEF PublishBegin
  <2>2. ASSUME NEW s \in offering' PROVE Offering(s)'
    <3>1. s \in Streams /\ topic[s] = t
      BY <1>10 DEF PublishBegin
    <3>2. Due(s)' = Due(s) \union {n + 1}
      BY <1>10, <3>1, PublishedIsDue
    <3>3. Pending(s)' = Pending(s) /\ pc'[s] = pc[s]
      BY <1>10, <3>1, PendingKept DEF PublishBegin, subVars, streamVars
    <3>4. n + 1 \notin Due(s)
      BY <2>1, <3>1, DueBound
    <3>5. pc[s] # "returned" => n + 1 \notin ToSet(Pending(s))
      BY <3>1, <3>4 DEF Delivery, Owed
    <3> QED
      BY <2>1, <3>2, <3>3, <3>5 DEF Offering
  <2> QED
    BY <2>2
<1>11. ASSUME Close PROVE OfferInv'
  BY <1>11 DEF Close, Unlocked, pubVars
<1>12. CASE UNCHANGED vars
  <2>1. ASSUME NEW s \in offering' PROVE Offering(s)'
    <3>1. s \in offering /\ s \in Streams
      BY <1>12 DEF vars, hubVars, subVars, streamVars, pubVars
    <3>2. Pending(s)' = Pending(s) /\ Due(s)' = Due(s)
      BY <1>12, <3>1, PendingKept, DueKept DEF vars, hubVars, subVars, streamVars, pubVars
    <3> QED
      BY <1>12, <3>1, <3>2, OfferingKept DEF vars, hubVars, subVars, streamVars, pubVars
  <2> QED
    BY <2>1
<1> QED
  BY <1>1, <1>2, <1>3, <1>4, <1>5, <1>6, <1>7, <1>8, <1>9, <1>10, <1>11, <1>12 DEF Next, StreamStep, Rest

--------------------------------------------------------------------------------
\* The invariant holds at the start.
LEMMA InitInv == Init => IInv
<1> SUFFICES ASSUME Init PROVE IInv
  OBVIOUS
<1>1. TypeOK
  BY EmptySeq, BufferAssumption DEF Init, TypeOK
<1>2. MemberInv /\ InHandInv /\ OfferInv
  BY DEF Init, MemberInv, InHandInv, OfferInv, Unsubscribed
<1>3. JoinedInv
  BY DEF Init, JoinedInv
<1>4. DeliveryInv
  <2> SUFFICES ASSUME NEW s \in Streams PROVE Delivery(s)
    BY DEF DeliveryInv
  <2>1. sent[s] = <<>> /\ inHand[s] = 0 /\ channel[s] = <<>> /\ s \notin members
    BY DEF Init
  <2>2. Pending(s) = <<>>
    BY <2>1, EmptySeq, ConcatEmptySeq DEF Pending
  <2>3. InOrder(<<>>) /\ ToSet(<<>>) = {}
    BY DEF InOrder, ToSet
  <2> QED
    BY <2>1, <2>2, <2>3 DEF Delivery, Owed, NoGap
<1> QED
  BY <1>1, <1>2, <1>3, <1>4 DEF IInv

\* Every step keeps the invariant.
LEMMA StepInv == IInv /\ [Next]_vars => IInv'
  BY StepTypes, StepMember, StepInHand, StepOffer, StepJoined, StepDelivery DEF IInv

\* So it always holds.
LEMMA Inductive == Spec => []IInv
  BY InitInv, StepInv, PTL DEF Spec

\* Every variable keeps its type; no channel holds more than SubscriberBuffer events, and
\* Publish offers only to members of the map.
THEOREM TypeCorrect == Spec => []TypeOK
  BY Inductive, PTL DEF IInv

\* Close, Publish and the goroutines of context.AfterFunc close each channel once between
\* them, and none that is closed stays in the map for Publish to send on.
THEOREM ClosedOnce == Spec => []KnownIffOpen
<1>1. IInv => KnownIffOpen
  BY DEF IInv, MemberInv, KnownIffOpen
<1> QED
  BY <1>1, Inductive, PTL

\* Under DisconnectSubscriber a stream is served the events of its topic without a gap,
\* in order, to the point where it is cut off; under DropEvent in order, with gaps
\* (PublishTopic, offering to one subscriber after the other, and serveHTTP).
THEOREM DeliveredInOrder == Spec => []NothingSkipped
<1>1. ASSUME IInv, NEW s \in Streams
      PROVE  /\ InOrder(sent[s])
             /\ ToSet(sent[s]) \subseteq Due(s)
             /\ policy = "disconnect" => NoGap(s, sent[s])
  BY <1>1 DEF IInv, DeliveryInv, Delivery, Owed
<1>2. ASSUME IInv, NEW s \in members \ offering, pc[s] # "returned", policy = "disconnect"
      PROVE  InOrder(Pending(s)) /\ ToSet(Pending(s)) = Due(s)
  <2>1. s \in Streams
    BY <1>2 DEF IInv, TypeOK
  <2> QED
    BY <1>2, <2>1 DEF IInv, DeliveryInv, Delivery, Owed, Awaited
<1>3. IInv => NothingSkipped
  BY <1>1, <1>2 DEF NothingSkipped, NoGap
<1> QED
  BY <1>3, Inductive, PTL
================================================================================
